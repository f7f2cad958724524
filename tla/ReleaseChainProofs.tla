------------------------- MODULE ReleaseChainProofs -------------------------
(***************************************************************************)
(* The safety properties of ReleaseChain for every repository, any number  *)
(* of operators, tools, receipts and edits.                                *)
(*                                                                         *)
(* The argument.  An edit changes what a file says and never its ref, so   *)
(* what made a tool write a file is a fact about the ref (EarnedBundle,    *)
(* EarnedPromotion, EarnedFinalization), and it stays one because receipts *)
(* and green commits only grow.  It therefore holds of every copy a tool   *)
(* took, whenever it took it, and an intact copy says what its ref says.   *)
(***************************************************************************)
EXTENDS ReleaseChain, FiniteSetTheorems, TLAPS

\* What a file stands for, given the receipts R and the green commits G.
HasReceipt(c, R) == \E receipt \in R : receipt.sha = c

EarnedBundle(b, R) == b # None => HasReceipt(b.ref.sha, R)

EarnedPromotion(p, R, G) ==
  p # None => HasReceipt(p.ref.sha, R) /\ p.ref.sha \in G

EarnedFinalization(f, R, G) ==
  f # None => /\ VersionOnlyChild(f.ref.release, f.ref.candidate)
              /\ HasReceipt(f.ref.candidate, R)
              /\ f.ref.candidate \in G /\ f.ref.release \in G

FilesInv ==
  /\ EarnedBundle(bundle, receipts)
  /\ EarnedPromotion(promotion, receipts, green)
  /\ EarnedFinalization(finalization, receipts, green)

\* What a tool has read or been told is good for what it will write or say.
EarnedTool(me, R, G) ==
  /\ me.at \in {"attest", "finish"} /\ me.ci.run = "success" => me.ci.sha \in G
  /\ me.at \in {"checked", "finish"} =>
       VersionOnlyChild(me.release, me.candidate)
  /\ me.at \in {"status1", "status2", "reported"} => EarnedBundle(me.bundle, R)
  /\ me.at \in {"status2", "reported"} => EarnedPromotion(me.promotion, R, G)
  /\ me.at = "reported" =>
       /\ EarnedFinalization(me.finalization, R, G)
       /\ \E version \in {Candidate, Target} :
            me.phase = Phase(me.bundle, me.promotion, me.finalization, version)

ToolsInv == \A o \in Operators : EarnedTool(proc[o], receipts, green)

ChainInv == TypeOK /\ FilesInv /\ ToolsInv

-----------------------------------------------------------------------------
(* What stays earned                                                       *)

(* A receipt and a green commit are never taken back, so nothing that was  *)
(* earned by a file or a tool is lost.                                     *)
LEMMA EarnedStays ==
  ASSUME NEW R, NEW S, NEW G, NEW H, R \subseteq S, G \subseteq H, NEW x
  PROVE  /\ EarnedBundle(x, R) => EarnedBundle(x, S)
         /\ EarnedPromotion(x, R, G) => EarnedPromotion(x, S, H)
         /\ EarnedFinalization(x, R, G) => EarnedFinalization(x, S, H)
BY DEF EarnedBundle, EarnedPromotion, EarnedFinalization, HasReceipt

(* The same of a tool. *)
LEMMA ToolStays ==
  ASSUME NEW R, NEW S, NEW G, NEW H, R \subseteq S, G \subseteq H, NEW me,
         EarnedTool(me, R, G)
  PROVE  EarnedTool(me, S, H)
BY EarnedStays DEF EarnedTool

(* Files no tool touches, and files that only grew what they rest on. *)
LEMMA FilesStay ==
  ASSUME FilesInv, receipts \subseteq receipts', green \subseteq green'
  PROVE  /\ EarnedBundle(bundle, receipts')
         /\ EarnedPromotion(promotion, receipts', green')
         /\ EarnedFinalization(finalization, receipts', green')
BY EarnedStays DEF FilesInv

(* One tool moves on, with what it now knows, and the others stay. *)
LEMMA ToolMoves ==
  ASSUME TypeOK, ToolsInv, NEW o \in Operators, NEW me,
         proc' = [proc EXCEPT ![o] = me], EarnedTool(me, receipts', green'),
         receipts \subseteq receipts', green \subseteq green'
  PROVE  ToolsInv'
<1>1. SUFFICES ASSUME NEW u \in Operators
               PROVE  EarnedTool(proc'[u], receipts', green')
  BY DEF ToolsInv
<1>2. CASE u = o
  BY <1>2 DEF TypeOK
<1>3. CASE u # o
  <2>1. proc'[u] = proc[u]
    BY <1>3 DEF TypeOK
  <2>2. EarnedTool(proc[u], receipts, green)
    BY DEF ToolsInv
  <2>3. QED
    BY <2>1, <2>2, ToolStays
<1>4. QED
  BY <1>2, <1>3

(* No tool moves. *)
LEMMA ToolsStay ==
  ASSUME ToolsInv, proc' = proc, receipts \subseteq receipts',
         green \subseteq green'
  PROVE  ToolsInv'
BY ToolStays DEF ToolsInv

(* An idle tool has promised nothing. *)
LEMMA IdleIsEarned ==
  ASSUME NEW R, NEW G
  PROVE  EarnedTool(Idle, R, G) /\ Idle \in ToolState
BY DEF EarnedTool, Idle, ToolState

(* What a tool holds has the type of what it was read from. *)
LEMMA ToolTypes ==
  ASSUME NEW me \in ToolState
  PROVE  /\ me.at = "attest" => me.sha \in Commits /\ me.ci \in CI
         /\ me.at \in {"checked", "finish"} =>
              me.candidate \in Commits /\ me.release \in Commits
         /\ me.at = "finish" => me.ci \in CI
         /\ me.at \in {"status1", "status2", "reported"} => me.bundle \in Bundle
         /\ me.at \in {"status2", "reported"} => me.promotion \in Promotion
         /\ me.at = "reported" => me.finalization \in Finalization
BY DEF ToolState, Idle

(* A run seen successful makes its commit green, and green only grows. *)
LEMMA SeenIsGreen ==
  ASSUME NEW ci \in CI, Seen(ci.sha, ci.run), green \subseteq Commits
  PROVE  /\ green \subseteq green' /\ green' \subseteq Commits
         /\ ci.run = "success" => ci.sha \in green'
BY DEF Seen, CI

(* A bound counter that is spent stays a counter within its bound. *)
LEMMA SpendTypes ==
  ASSUME TypeOK,
         \/ Spend("starts", MaxStarts)
         \/ Spend("edits", MaxEdits)
  PROVE  used' \in [starts : 0 .. MaxStarts, edits : 0 .. MaxEdits]
BY ReleaseAssumption DEF TypeOK, Spend

-----------------------------------------------------------------------------
(* The steps                                                               *)

(* Nothing has been written or read at first. *)
LEMMA InitChainInv == Init => ChainInv
<1> SUFFICES ASSUME Init PROVE ChainInv
  OBVIOUS
<1>2. TypeOK
  <2>1. IsFiniteSet(receipts)
    BY FS_EmptySet DEF Init
  <2>2. used \in [starts : 0 .. MaxStarts, edits : 0 .. MaxEdits]
    BY ReleaseAssumption DEF Init
  <2>3. proc \in [Operators -> ToolState]
    BY IdleIsEarned DEF Init
  <2>4. QED
    BY <2>1, <2>2, <2>3 DEF Init, TypeOK, Bundle, Promotion, Finalization
<1>3. FilesInv
  BY DEF Init, FilesInv, EarnedBundle, EarnedPromotion, EarnedFinalization
<1>4. ToolsInv
  BY IdleIsEarned DEF Init, ToolsInv
<1>5. QED
  BY <1>2, <1>3, <1>4 DEF ChainInv

(* A qualification adds a receipt. *)
LEMMA QualifyKeeps ==
  ASSUME ChainInv, NEW c \in Commits, Qualify(c)
  PROVE  ChainInv'
<1> DEFINE receipt == [sha |-> c, id |-> Cardinality(receipts) + 1]
<1>1. TypeOK /\ FilesInv /\ ToolsInv
  BY DEF ChainInv
<1>2. receipts' = receipts \cup {receipt} /\ green' = green /\ proc' = proc
  BY DEF Qualify
<1>3. IsFiniteSet(receipts')
  BY <1>1, <1>2, FS_AddElement DEF TypeOK
<1>4. receipt \in [sha : Commits, id : Nat]
  BY <1>1, FS_CardinalityType DEF TypeOK
<1>5. TypeOK'
  BY <1>1, <1>2, <1>3, <1>4 DEF TypeOK, Qualify
<1>6. FilesInv'
  BY <1>1, <1>2, FilesStay DEF FilesInv, Qualify
<1>7. ToolsInv'
  BY <1>1, <1>2, ToolsStay
<1>8. QED
  BY <1>5, <1>6, <1>7 DEF ChainInv

(* An edit changes what a file says, and its serial, but not its ref. *)
LEMMA EditKeeps ==
  ASSUME ChainInv, NEW c \in Commits, Edit(c)
  PROVE  ChainInv'
<1>1. TypeOK /\ FilesInv /\ ToolsInv
  BY DEF ChainInv
<1>2. /\ serial' = serial + 1 /\ receipts' = receipts /\ green' = green
      /\ proc' = proc /\ finalization' = finalization
  BY DEF Edit
<1>3. used' \in [starts : 0 .. MaxStarts, edits : 0 .. MaxEdits]
  BY <1>1, SpendTypes DEF Edit
<1>4. /\ bundle' \in Bundle
      /\ bundle' # None => bundle'.serial \in 1 .. serial'
      /\ EarnedBundle(bundle', receipts)
  <2>1. CASE bundle' = bundle
    BY <1>1, <1>2, <2>1 DEF TypeOK, FilesInv, Bundle, File
  <2>2. CASE /\ bundle # None
             /\ bundle' = [bundle EXCEPT !.body.sha = c, !.serial = serial + 1]
    <3>1. bundle \in File(BundleBody)
      BY <1>1, <2>2 DEF TypeOK, Bundle
    <3>2. [bundle.body EXCEPT !.sha = c] \in BundleBody
      BY <3>1 DEF File, BundleBody
    <3>3. bundle' = [body   |-> [bundle.body EXCEPT !.sha = c],
                     ref    |-> bundle.ref,
                     serial |-> serial + 1]
      BY <2>2, <3>1 DEF File
    <3>4. /\ bundle' \in File(BundleBody) /\ bundle'.ref = bundle.ref
          /\ bundle'.serial = serial + 1
      BY <1>1, <3>1, <3>2, <3>3 DEF TypeOK, File
    <3>5. QED
      BY <1>1, <1>2, <2>2, <3>4 DEF TypeOK, FilesInv, Bundle, EarnedBundle
  <2>3. QED
    BY <2>1, <2>2 DEF Edit
<1>5. /\ promotion' \in Promotion
      /\ promotion' # None =>
           /\ promotion'.serial <= serial'
           /\ promotion'.body.physical.serial \in 1 .. promotion'.serial - 1
      /\ EarnedPromotion(promotion', receipts, green)
  <2>1. CASE promotion' = promotion
    <3>1. promotion # None => promotion.serial \in Nat
      BY <1>1 DEF TypeOK, Promotion, File
    <3>2. QED
      BY <1>1, <1>2, <2>1, <3>1 DEF TypeOK, FilesInv
  <2>2. CASE /\ promotion # None
             /\ promotion' =
                  [promotion EXCEPT !.body.sha = c, !.serial = serial + 1]
    <3>1. promotion \in File(PromotionBody)
      BY <1>1, <2>2 DEF TypeOK, Promotion
    <3>2. /\ [promotion.body EXCEPT !.sha = c] \in PromotionBody
          /\ [promotion.body EXCEPT !.sha = c].physical = promotion.body.physical
      BY <3>1 DEF File, PromotionBody
    <3>3. promotion' = [body   |-> [promotion.body EXCEPT !.sha = c],
                        ref    |-> promotion.ref,
                        serial |-> serial + 1]
      BY <2>2, <3>1 DEF File
    <3>4. /\ promotion' \in File(PromotionBody) /\ promotion'.ref = promotion.ref
          /\ promotion'.serial = serial + 1
          /\ promotion'.body.physical = promotion.body.physical
      <4> DEFINE body == [promotion.body EXCEPT !.sha = c]
      <4>1. promotion.ref \in PromotionBody /\ serial \in Nat
        BY <1>1, <3>1 DEF TypeOK, File
      <4>2. body \in PromotionBody /\ body.physical = promotion.body.physical
        BY <3>2
      <4>3. promotion' = [body |-> body, ref |-> promotion.ref,
                          serial |-> serial + 1]
        BY <3>3
      <4> HIDE DEF body
      <4>4. QED
        BY <4>1, <4>2, <4>3 DEF File
    <3>5. promotion.body.physical.serial \in 1 .. serial
      BY <1>1, <2>2, <3>1 DEF TypeOK, File
    <3>6. QED
      BY <1>1, <1>2, <2>2, <3>4, <3>5
      DEF TypeOK, FilesInv, Promotion, EarnedPromotion
  <2>3. QED
    BY <2>1, <2>2 DEF Edit
<1>6. finalization # None =>
        /\ finalization.serial <= serial'
        /\ finalization.body.promotion.serial \in 1 .. finalization.serial - 1
  BY <1>1, <1>2 DEF TypeOK, Finalization, File
<1>7. TypeOK'
  BY <1>1, <1>2, <1>3, <1>4, <1>5, <1>6 DEF TypeOK
<1>8. FilesInv'
  BY <1>1, <1>2, <1>4, <1>5 DEF FilesInv
<1>9. ToolsInv'
  BY <1>1, <1>2, ToolsStay
<1>10. QED
  BY <1>7, <1>8, <1>9 DEF ChainInv

(* A step that writes no file: one tool goes on to "me", and what it knows *)
(* is true.                                                                *)
LEMMA ReadKeeps ==
  ASSUME ChainInv, NEW o \in Operators, NEW me \in ToolState, UNCHANGED files,
         proc' = [proc EXCEPT ![o] = me], EarnedTool(me, receipts, green'),
         green \subseteq green', green' \subseteq Commits,
         used' \in [starts : 0 .. MaxStarts, edits : 0 .. MaxEdits]
  PROVE  ChainInv'
<1>1. TypeOK /\ FilesInv /\ ToolsInv
  BY DEF ChainInv
<1>2. /\ bundle' = bundle /\ promotion' = promotion
      /\ finalization' = finalization /\ serial' = serial
      /\ receipts' = receipts
  BY DEF files
<1>3. proc' \in [Operators -> ToolState]
  BY <1>1 DEF TypeOK
<1>4. TypeOK'
  BY <1>1, <1>2, <1>3 DEF TypeOK
<1>5. FilesInv'
  BY <1>1, <1>2, FilesStay DEF FilesInv
<1>6. ToolsInv'
  BY <1>1, <1>2, ToolMoves
<1>7. QED
  BY <1>4, <1>5, <1>6 DEF ChainInv

(* A tool that aborts, or has done its work, is idle again. *)
LEMMA AbortKeeps ==
  ASSUME ChainInv, NEW o \in Operators, Abort(o)
  PROVE  ChainInv'
<1>1. /\ proc' = [proc EXCEPT ![o] = Idle] /\ UNCHANGED files
      /\ used' = used /\ green' = green
  BY DEF Abort, Done
<1>2. EarnedTool(Idle, receipts, green') /\ Idle \in ToolState
  BY IdleIsEarned
<1>3. /\ green \subseteq Commits
      /\ used \in [starts : 0 .. MaxStarts, edits : 0 .. MaxEdits]
  BY DEF ChainInv, TypeOK
<1>4. QED
  BY <1>1, <1>2, <1>3, ReadKeeps

(* The evidence bundle is written from a receipt of its commit. *)
LEMMA BundleEvidenceKeeps ==
  ASSUME ChainInv, NEW o \in Operators, NEW sha \in Commits,
         NEW receipt \in receipts, BundleEvidence(o, sha, receipt)
  PROVE  ChainInv'
<1> DEFINE body == [sha |-> sha, version |-> Version[sha],
                    receipt |-> receipt.id]
<1>1. TypeOK /\ FilesInv /\ ToolsInv
  BY DEF ChainInv
<1>2. /\ receipts' = receipts /\ green' = green /\ proc' = proc
      /\ promotion' = promotion /\ finalization' = finalization
      /\ serial' = serial + 1
  BY DEF BundleEvidence
<1>3. bundle' = [body |-> body, ref |-> body, serial |-> serial + 1]
  BY DEF BundleEvidence, Written
<1>4. used' \in [starts : 0 .. MaxStarts, edits : 0 .. MaxEdits]
  BY <1>1, SpendTypes DEF BundleEvidence
<1>5. body \in BundleBody
  BY <1>1, ReleaseAssumption DEF TypeOK, BundleBody
<1>6. HasReceipt(body.sha, receipts)
  BY DEF BundleEvidence, ReceiptAccepted, HasReceipt
<1> HIDE DEF body
<1>7. /\ bundle' \in Bundle /\ bundle'.serial = serial'
      /\ EarnedBundle(bundle', receipts)
  BY <1>1, <1>2, <1>3, <1>5, <1>6 DEF TypeOK, Bundle, File, EarnedBundle
<1>8. /\ promotion # None => promotion.serial \in Nat
      /\ finalization # None => finalization.serial \in Nat
  BY <1>1 DEF TypeOK, Promotion, Finalization, File
<1>9. TypeOK'
  BY <1>1, <1>2, <1>4, <1>7, <1>8 DEF TypeOK
<1>10. FilesInv'
  BY <1>1, <1>2, <1>7 DEF FilesInv
<1>11. ToolsInv'
  BY <1>1, <1>2, ToolsStay
<1>12. QED
  BY <1>9, <1>10, <1>11 DEF ChainInv

(* A promotion is begun with a CI run that was seen. *)
LEMMA PromoteFetchCIKeeps ==
  ASSUME ChainInv, NEW o \in Operators, NEW sha \in Commits, NEW ci \in CI,
         PromoteFetchCI(o, sha, ci)
  PROVE  ChainInv'
<1> DEFINE me == [at |-> "attest", sha |-> sha, ci |-> ci]
<1>1. TypeOK
  BY DEF ChainInv
<1>2. proc' = [proc EXCEPT ![o] = me] /\ UNCHANGED files
  BY DEF PromoteFetchCI, Begin
<1>3. used' \in [starts : 0 .. MaxStarts, edits : 0 .. MaxEdits]
  BY <1>1, SpendTypes DEF PromoteFetchCI, Begin
<1>4. /\ green \subseteq green' /\ green' \subseteq Commits
      /\ ci.run = "success" => ci.sha \in green'
  BY <1>1, SeenIsGreen DEF PromoteFetchCI, TypeOK
<1>5. me \in ToolState
  BY DEF ToolState
<1>6. EarnedTool(me, receipts, green')
  BY <1>4 DEF EarnedTool
<1> HIDE DEF me
<1>7. QED
  BY <1>2, <1>3, <1>4, <1>5, <1>6, ReadKeeps

(* The promotion is written for a commit whose intact bundle was earned    *)
(* and whose run was seen green.                                           *)
LEMMA PromoteAttestKeeps ==
  ASSUME ChainInv, NEW o \in Operators, PromoteAttest(o)
  PROVE  ChainInv'
<1> DEFINE me == proc[o]
           body == [sha |-> me.sha, physical |-> Binding(bundle), ci |-> me.sha]
<1>1. TypeOK /\ FilesInv /\ ToolsInv
  BY DEF ChainInv
<1>2. /\ receipts' = receipts /\ green' = green
      /\ proc' = [proc EXCEPT ![o] = Idle] /\ used' = used
      /\ bundle' = bundle /\ finalization' = finalization
      /\ serial' = serial + 1
  BY DEF PromoteAttest, Done
<1>3. promotion' = [body |-> body, ref |-> body, serial |-> serial + 1]
  BY DEF PromoteAttest, Written
<1>4. /\ me.at = "attest" /\ me \in ToolState
      /\ EarnedTool(me, receipts, green)
  BY <1>1 DEF PromoteAttest, At, TypeOK, ToolsInv
<1>5. /\ bundle # None /\ bundle \in File(BundleBody)
      /\ bundle.ref = bundle.body /\ bundle.body.sha = me.sha
      /\ me.ci.sha = me.sha /\ me.ci.run = "success"
  BY <1>1 DEF PromoteAttest, Intact, CIVerified, TypeOK, Bundle
<1>6. me.sha \in Commits
  BY <1>4, ToolTypes
<1>7. Binding(bundle) \in Bound(BundleBody) /\ Binding(bundle).serial = bundle.serial
  BY <1>5 DEF Binding, Bound, File
<1>8. body \in PromotionBody
  BY <1>6, <1>7 DEF PromotionBody
<1>9. HasReceipt(body.sha, receipts) /\ body.sha \in green
  BY <1>1, <1>4, <1>5 DEF FilesInv, EarnedBundle, EarnedTool
<1>10. body.physical.serial \in 1 .. serial
  BY <1>1, <1>5, <1>7 DEF TypeOK, File
<1> HIDE DEF me, body
<1>11. /\ promotion' \in Promotion /\ promotion'.serial = serial + 1
       /\ promotion'.body = body
       /\ EarnedPromotion(promotion', receipts, green)
  BY <1>1, <1>3, <1>8, <1>9 DEF TypeOK, Promotion, File, EarnedPromotion
<1>12. finalization # None => finalization.serial \in Nat
  BY <1>1 DEF TypeOK, Finalization, File
<1>13. proc' \in [Operators -> ToolState]
  BY <1>1, <1>2, IdleIsEarned DEF TypeOK
<1>14. TypeOK'
  BY <1>1, <1>2, <1>5, <1>10, <1>11, <1>12, <1>13 DEF TypeOK
<1>15. FilesInv'
  BY <1>1, <1>2, <1>11 DEF FilesInv
<1>16. ToolsInv'
  BY <1>1, <1>2, IdleIsEarned, ToolMoves
<1>17. QED
  BY <1>14, <1>15, <1>16 DEF ChainInv

(* The finalizer begins at a version-only child of the candidate. *)
LEMMA FinalizeInspectKeeps ==
  ASSUME ChainInv, NEW o \in Operators, NEW release \in Commits,
         FinalizeInspect(o, release)
  PROVE  ChainInv'
<1> DEFINE c == promotion.body.sha
           me == [at |-> "checked", candidate |-> c, release |-> release]
<1>1. TypeOK
  BY DEF ChainInv
<1>2. /\ proc' = [proc EXCEPT ![o] = me] /\ UNCHANGED files /\ green' = green
      /\ VersionOnlyChild(release, c)
  BY DEF FinalizeInspect, Begin
<1>3. used' \in [starts : 0 .. MaxStarts, edits : 0 .. MaxEdits]
  BY <1>1, SpendTypes DEF FinalizeInspect, Begin
<1>4. c \in Commits
  BY <1>1 DEF FinalizeInspect, TypeOK, Promotion, File, PromotionBody
<1> HIDE DEF c
<1>5. me \in ToolState
  BY <1>4 DEF ToolState
<1>6. EarnedTool(me, receipts, green)
  BY <1>2 DEF EarnedTool
<1> HIDE DEF me
<1>7. green \subseteq Commits
  BY <1>1 DEF TypeOK
<1>8. QED
  BY <1>2, <1>3, <1>5, <1>6, <1>7, ReadKeeps

(* It goes on with the CI run that it was told of. *)
LEMMA FinalizeFetchCIKeeps ==
  ASSUME ChainInv, NEW o \in Operators, NEW ci \in CI, FinalizeFetchCI(o, ci)
  PROVE  ChainInv'
<1> DEFINE me == [at |-> "finish", candidate |-> proc[o].candidate,
                  release |-> proc[o].release, ci |-> ci]
<1>1. TypeOK /\ ToolsInv
  BY DEF ChainInv
<1>2. proc' = [proc EXCEPT ![o] = me] /\ UNCHANGED files /\ used' = used
  BY <1>1 DEF FinalizeFetchCI, TypeOK
<1>3. used \in [starts : 0 .. MaxStarts, edits : 0 .. MaxEdits]
  BY <1>1 DEF TypeOK
<1>4. /\ green \subseteq green' /\ green' \subseteq Commits
      /\ ci.run = "success" => ci.sha \in green'
  BY <1>1, SeenIsGreen DEF FinalizeFetchCI, TypeOK
<1>5. /\ proc[o] \in ToolState /\ proc[o].at = "checked"
      /\ EarnedTool(proc[o], receipts, green)
  BY <1>1 DEF TypeOK, ToolsInv, FinalizeFetchCI, At
<1>6. me \in ToolState
  BY <1>5, ToolTypes DEF ToolState
<1>7. EarnedTool(me, receipts, green')
  BY <1>4, <1>5 DEF EarnedTool
<1> HIDE DEF me
<1>8. QED
  BY <1>2, <1>3, <1>4, <1>6, <1>7, ReadKeeps

(* The finalization is written from the promotion as it is now, of the     *)
(* candidate whose child was inspected, with the child's run seen green.   *)
LEMMA FinalizeAttestKeeps ==
  ASSUME ChainInv, NEW o \in Operators, FinalizeAttest(o)
  PROVE  ChainInv'
<1> DEFINE me == proc[o]
           body == [candidate |-> me.candidate, release |-> me.release,
                    promotion |-> Binding(promotion), ci |-> me.release]
<1>1. TypeOK /\ FilesInv /\ ToolsInv
  BY DEF ChainInv
<1>2. /\ receipts' = receipts /\ green' = green
      /\ proc' = [proc EXCEPT ![o] = Idle] /\ used' = used
      /\ bundle' = bundle /\ promotion' = promotion
      /\ serial' = serial + 1
  BY DEF FinalizeAttest, Done
<1>3. finalization' = [body |-> body, ref |-> body, serial |-> serial + 1]
  BY DEF FinalizeAttest, Written
<1>4. /\ me.at = "finish" /\ me \in ToolState
      /\ EarnedTool(me, receipts, green)
  BY <1>1 DEF FinalizeAttest, At, TypeOK, ToolsInv
<1>5. /\ promotion # None /\ promotion \in File(PromotionBody)
      /\ promotion.ref = promotion.body /\ promotion.body.sha = me.candidate
      /\ me.ci.sha = me.release /\ me.ci.run = "success"
  BY <1>1 DEF FinalizeAttest, PromotionValid, Intact, CIVerified, TypeOK,
              Promotion
<1>6. me.candidate \in Commits /\ me.release \in Commits
  BY <1>4, ToolTypes
<1>7. /\ Binding(promotion) \in Bound(PromotionBody)
      /\ Binding(promotion).serial = promotion.serial
  BY <1>5 DEF Binding, Bound, File
<1>8. body \in FinalizationBody
  BY <1>6, <1>7 DEF FinalizationBody
<1>9. /\ VersionOnlyChild(body.release, body.candidate)
      /\ HasReceipt(body.candidate, receipts)
      /\ body.candidate \in green /\ body.release \in green
  BY <1>1, <1>4, <1>5 DEF FilesInv, EarnedPromotion, EarnedTool
<1>10. promotion.serial \in 1 .. serial
  <2>1. /\ promotion.serial \in Nat /\ promotion.serial <= serial
        /\ promotion.body.physical.serial \in 1 .. promotion.serial - 1
        /\ serial \in Nat
    BY <1>1, <1>5 DEF TypeOK, File
  <2>2. QED
    BY <2>1
<1>11. body.promotion.serial \in 1 .. serial
  BY <1>7, <1>10
<1> HIDE DEF me, body
<1>12. /\ finalization' \in Finalization /\ finalization'.serial = serial + 1
       /\ finalization'.body = body
       /\ EarnedFinalization(finalization', receipts, green)
  BY <1>1, <1>3, <1>8, <1>9 DEF TypeOK, Finalization, File, EarnedFinalization
<1>13. promotion.serial <= serial' /\ (bundle # None => bundle.serial \in 1 .. serial')
  BY <1>1, <1>2, <1>10 DEF TypeOK, Bundle, File
<1>14. proc' \in [Operators -> ToolState]
  BY <1>1, <1>2, IdleIsEarned DEF TypeOK
<1>15. TypeOK'
  BY <1>1, <1>2, <1>11, <1>12, <1>13, <1>14 DEF TypeOK
<1>16. FilesInv'
  BY <1>1, <1>2, <1>12 DEF FilesInv
<1>17. ToolsInv'
  BY <1>1, <1>2, IdleIsEarned, ToolMoves
<1>18. QED
  BY <1>15, <1>16, <1>17 DEF ChainInv

(* The status tool takes its three copies, each earned when it was taken. *)
LEMMA StatusKeeps ==
  ASSUME ChainInv, NEW o \in Operators,
         \/ StatusReadBundle(o) \/ StatusReadPromotion(o)
         \/ \E version \in {Candidate, Target} : StatusReport(o, version)
  PROVE  ChainInv'
<1>1. TypeOK /\ FilesInv /\ ToolsInv
  BY DEF ChainInv
<1>2. /\ green \subseteq Commits
      /\ used \in [starts : 0 .. MaxStarts, edits : 0 .. MaxEdits]
      /\ proc[o] \in ToolState /\ EarnedTool(proc[o], receipts, green)
  BY <1>1 DEF TypeOK, ToolsInv
<1>3. CASE StatusReadBundle(o)
  <2> DEFINE me == [at |-> "status1", bundle |-> bundle]
  <2>1. proc' = [proc EXCEPT ![o] = me] /\ UNCHANGED files /\ green' = green
    BY <1>3 DEF StatusReadBundle, Begin
  <2>2. used' \in [starts : 0 .. MaxStarts, edits : 0 .. MaxEdits]
    BY <1>1, <1>3, SpendTypes DEF StatusReadBundle, Begin
  <2>3. me \in ToolState
    BY <1>1 DEF TypeOK, ToolState
  <2>4. EarnedTool(me, receipts, green)
    BY <1>1 DEF FilesInv, EarnedTool
  <2> HIDE DEF me
  <2>5. QED
    BY <1>2, <2>1, <2>2, <2>3, <2>4, ReadKeeps
<1>4. CASE StatusReadPromotion(o)
  <2> DEFINE me == [at |-> "status2", bundle |-> proc[o].bundle,
                    promotion |-> promotion]
  <2>1. /\ proc' = [proc EXCEPT ![o] = me] /\ UNCHANGED files
        /\ green' = green /\ used' = used /\ proc[o].at = "status1"
    BY <1>1, <1>4 DEF StatusReadPromotion, At, TypeOK
  <2>2. me \in ToolState
    BY <1>1, <1>2, <2>1, ToolTypes DEF TypeOK, ToolState
  <2>3. EarnedTool(me, receipts, green)
    BY <1>1, <1>2, <2>1 DEF FilesInv, EarnedTool
  <2> HIDE DEF me
  <2>4. QED
    BY <1>2, <2>1, <2>2, <2>3, ReadKeeps
<1>5. ASSUME NEW version \in {Candidate, Target}, StatusReport(o, version)
      PROVE  ChainInv'
  <2> DEFINE phase == Phase(proc[o].bundle, proc[o].promotion, finalization,
                            version)
             me == [at |-> "reported", bundle |-> proc[o].bundle,
                    promotion |-> proc[o].promotion,
                    finalization |-> finalization, phase |-> phase]
  <2>1. /\ proc' = [proc EXCEPT ![o] = me] /\ UNCHANGED files
        /\ green' = green /\ used' = used /\ proc[o].at = "status2"
    BY <1>1, <1>5 DEF StatusReport, At, TypeOK
  <2>2. phase \in Phases
    BY DEF Phase, Phases
  <2>3. /\ proc[o].bundle \in Bundle /\ proc[o].promotion \in Promotion
        /\ finalization \in Finalization
    BY <1>1, <1>2, <2>1, ToolTypes DEF TypeOK
  <2>4. EarnedTool(me, receipts, green)
    <3>1. EarnedBundle(me.bundle, receipts)
      BY <1>2, <2>1 DEF EarnedTool
    <3>2. EarnedPromotion(me.promotion, receipts, green)
      BY <1>2, <2>1 DEF EarnedTool
    <3>3. EarnedFinalization(me.finalization, receipts, green)
      BY <1>1 DEF FilesInv
    <3>4. me.phase = Phase(me.bundle, me.promotion, me.finalization, version)
      OBVIOUS
    <3>5. me.at = "reported"
      OBVIOUS
    <3> HIDE DEF me
    <3>6. QED
      BY <3>1, <3>2, <3>3, <3>4, <3>5 DEF EarnedTool
  <2> HIDE DEF phase
  <2>5. me \in ToolState
    BY <2>2, <2>3 DEF ToolState
  <2> HIDE DEF me
  <2>6. QED
    BY <1>2, <2>1, <2>4, <2>5, ReadKeeps
<1>6. QED
  BY <1>3, <1>4, <1>5

(* Every step keeps the invariant, the one that changes nothing included. *)
LEMMA NextChainInv == ChainInv /\ [Next]_vars => ChainInv'
<1> SUFFICES ASSUME ChainInv, [Next]_vars
             PROVE  ChainInv'
  OBVIOUS
<1>1. ASSUME NEW c \in Commits, Qualify(c) \/ Edit(c)
      PROVE  ChainInv'
  BY <1>1, QualifyKeeps, EditKeeps
<1>2. ASSUME NEW o \in Operators, Abort(o)
      PROVE  ChainInv'
  BY <1>2, AbortKeeps
<1>3. ASSUME NEW o \in Operators, PromoteAttest(o) \/ FinalizeAttest(o)
      PROVE  ChainInv'
  BY <1>3, PromoteAttestKeeps, FinalizeAttestKeeps
<1>4. ASSUME NEW o \in Operators,
             \/ StatusReadBundle(o) \/ StatusReadPromotion(o)
             \/ \E version \in {Candidate, Target} : StatusReport(o, version)
      PROVE  ChainInv'
  BY <1>4, StatusKeeps
<1>5. ASSUME NEW o \in Operators, NEW c \in Commits, NEW receipt \in receipts,
             BundleEvidence(o, c, receipt)
      PROVE  ChainInv'
  BY <1>5, BundleEvidenceKeeps
<1>6. ASSUME NEW o \in Operators, NEW release \in Commits,
             FinalizeInspect(o, release)
      PROVE  ChainInv'
  BY <1>6, FinalizeInspectKeeps
<1>7. ASSUME NEW o \in Operators, NEW ci \in CI, FinalizeFetchCI(o, ci)
      PROVE  ChainInv'
  BY <1>7, FinalizeFetchCIKeeps
<1>8. ASSUME NEW o \in Operators, NEW ci \in CI, NEW c \in Commits,
             PromoteFetchCI(o, c, ci)
      PROVE  ChainInv'
  BY <1>8, PromoteFetchCIKeeps
<1>9. CASE UNCHANGED vars
  <2>1. /\ receipts' = receipts /\ bundle' = bundle /\ promotion' = promotion
        /\ finalization' = finalization /\ serial' = serial /\ proc' = proc
        /\ used' = used /\ green' = green
    BY <1>9 DEF vars, files
  <2>2. QED
    BY <2>1 DEF ChainInv, TypeOK, FilesInv, ToolsInv
<1>10. QED
  BY <1>1, <1>2, <1>3, <1>4, <1>5, <1>6, <1>7, <1>8, <1>9 DEF Next

(* The inductive invariant holds of every behaviour. *)
THEOREM ChainInvariant == Spec => []ChainInv
BY InitChainInv, NextChainInv, PTL DEF Spec

-----------------------------------------------------------------------------
(* What it says                                                            *)

(* The files, what they bind and what every tool has read keep their types, *)
(* and a file binds only files written before it, however many tools run.  *)
THEOREM ChainTypes == Spec => []TypeOK
<1>1. ChainInv => TypeOK
  BY DEF ChainInv
<1>2. QED
  BY <1>1, ChainInvariant, PTL

(* A finalization that validates stands for a qualified candidate, its     *)
(* version-only child and a green CI run of each, in every interleaving of *)
(* tools, reruns, replaced files and edits.                                *)
THEOREM ReleasesAreEarned == Spec => []FinalizationIsEarned
<1>1. ChainInv => FinalizationIsEarned
  BY DEF ChainInv, FilesInv, EarnedFinalization, HasReceipt, VersionOnlyChild,
         FinalizationIsEarned, FinalizationValid, Intact, Qualified
<1>2. QED
  BY <1>1, ChainInvariant, PTL

(* The two phases that name a release are reported of an unbroken chain. *)
LEMMA PhaseIsUnbroken ==
  ASSUME NEW b, NEW p, NEW f, NEW version,
         Phase(b, p, f, version) \in {"version_bump_pending", "finalized"}
  PROVE  /\ ~Broken(b, p, f) /\ ~Unbound(b, p, f)
         /\ p # None
         /\ Phase(b, p, f, version) = "finalized" => f # None
BY DEF Phase, Unbound

(* What the status calls ready or finalized is one release, although its   *)
(* three files were read at three moments.                                 *)
THEOREM StatusIsOfOneRelease == Spec => []StatusSpeaksOfOneRelease
<1>1. ChainInv => StatusSpeaksOfOneRelease
  <2> SUFFICES ASSUME ChainInv, NEW o \in Operators, At(o, "reported"),
                      proc[o].phase \in {"version_bump_pending", "finalized"}
               PROVE  LET me == proc[o]
                          c  == me.bundle.body.sha
                      IN /\ me.promotion.body.sha = c
                         /\ me.promotion.body.physical.ref.receipt
                              = me.bundle.body.receipt
                         /\ Qualified(c) /\ c \in green
                         /\ me.phase = "finalized" =>
                              /\ Parents[me.finalization.body.release] = {c}
                              /\ me.finalization.body.release \in green
    BY DEF StatusSpeaksOfOneRelease
  <2> DEFINE b == proc[o].bundle
             p == proc[o].promotion
             f == proc[o].finalization
  <2>1. EarnedTool(proc[o], receipts, green) /\ proc[o].at = "reported"
    BY DEF ChainInv, ToolsInv, At
  <2>2. PICK version \in {Candidate, Target} :
          proc[o].phase = Phase(b, p, f, version)
    BY <2>1 DEF EarnedTool
  <2>3. /\ ~Broken(b, p, f) /\ ~Unbound(b, p, f) /\ p # None
        /\ proc[o].phase = "finalized" => f # None
    BY <2>2, PhaseIsUnbroken
  <2>4. EarnedPromotion(p, receipts, green) /\ EarnedFinalization(f, receipts, green)
    BY <2>1 DEF EarnedTool
  <2>5. /\ b # None /\ b.ref = b.body /\ p.ref = p.body
        /\ p.body.physical.ref = b.ref
        /\ p.body.physical.ref.sha = p.body.sha
    BY <2>3 DEF Broken, Unbound, PromotionValid, Intact, Binding
  <2>6. /\ p.body.sha = b.body.sha
        /\ p.body.physical.ref.receipt = b.body.receipt
    BY <2>5
  <2>7. Qualified(b.body.sha) /\ b.body.sha \in green
    BY <2>3, <2>4, <2>5, <2>6 DEF EarnedPromotion, HasReceipt, Qualified
  <2>8. ASSUME proc[o].phase = "finalized"
        PROVE  Parents[f.body.release] = {b.body.sha} /\ f.body.release \in green
    <3>1. /\ f.ref = f.body /\ f.body.promotion.ref = p.ref
          /\ f.body.promotion.ref.sha = f.body.candidate
      BY <2>3, <2>8 DEF Broken, Unbound, FinalizationValid, Intact, Binding
    <3>2. f.body.candidate = b.body.sha
      BY <2>5, <2>6, <3>1
    <3>3. QED
      BY <2>3, <2>4, <2>8, <3>1, <3>2 DEF EarnedFinalization, VersionOnlyChild
  <2>9. QED
    BY <2>6, <2>7, <2>8
<1>2. QED
  BY <1>1, ChainInvariant, PTL
=============================================================================
