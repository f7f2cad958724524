---------------------------- MODULE ReleaseChain ----------------------------
(***************************************************************************)
(* The release pipeline: four command line tools that bundle physical      *)
(* evidence, promote a candidate commit, finalize the release commit after *)
(* it and report where the release stands, run by several people, while CI *)
(* runs end or are rerun and the files between the tools are replaced or   *)
(* edited.                                                                 *)
(*                                                                         *)
(* Abstractions.  A commit stands for its SHA and its push run of the      *)
(* required workflow on main; other runs are refused as a run of another   *)
(* commit is.  The checkout is clean and at any commit when a tool looks   *)
(* (an unclean one is refused without effect), and is inspected in one     *)
(* step.  A file is [body, ref, serial]: the ref stands for the hash of the *)
(* body as it was written, the serial for the digest of the bytes, which   *)
(* also cover paths and times.  There is one physical source.  A tool's    *)
(* last read of a file and its write are one step, and so are the requests *)
(* for a CI run and its jobs, whose answers are independent; every other   *)
(* read is a step.                                                         *)
(***************************************************************************)
EXTENDS Integers, FiniteSets

CONSTANTS
  Operators,   \* each runs one tool at a time
  None,
  Commits,     \* of the repository
  Parents,     \* the parents of each commit
  Version,     \* the version of each commit
  VersionOnly, \* commits that change only the release files, and the version
               \* files exactly from the candidate's version to the target's
  MaxReceipts, \* bound: physical qualifications
  MaxStarts,   \* bound: tools started
  MaxEdits     \* bound: files edited by hand

Candidate == "0.99.0"
Target == "1.0.0"

ASSUME ReleaseAssumption ==
  /\ None \notin Operators
  /\ Parents \in [Commits -> SUBSET Commits]
  /\ Version \in [Commits -> {Candidate, Target}]
  /\ VersionOnly \subseteq Commits
  /\ \A r \in VersionOnly : \A c \in Parents[r] :
       Parents[r] = {c} => Version[c] = Candidate /\ Version[r] = Target
  /\ {MaxReceipts, MaxStarts, MaxEdits} \subseteq Nat

VARIABLES
  receipts,     \* receipts of physical qualifications: [sha, id]
  bundle, promotion, finalization, \* the files, or None
  serial,       \* of the last file written
  proc,         \* what each operator's tool is doing
  used,         \* [starts, edits] so far
  green         \* commits whose CI run has been seen successful (history)

files == <<receipts, bundle, promotion, finalization, serial>>
vars == <<files, proc, used, green>>

Idle == [at |-> "idle"]
Spend(what, limit) ==
  /\ used[what] < limit
  /\ used' = [used EXCEPT ![what] = @ + 1]

-----------------------------------------------------------------------------
(* GitHub and the physical source (external) *)

\* A service built from any commit is qualified; receipts are kept.
Qualify(c) ==
  /\ Cardinality(receipts) < MaxReceipts
  /\ receipts' = receipts \cup {[sha |-> c, id |-> Cardinality(receipts) + 1]}
  /\ UNCHANGED <<bundle, promotion, finalization, serial, proc, used, green>>

\* A run is under way, fails, succeeds and is rerun at any time, so that
\* successive requests may see anything.
CIStates == {"success", "failed or running"}
CI == [sha : Commits, run : CIStates, jobs : CIStates]
Seen(c, run) == green' = IF run = "success" THEN green \cup {c} ELSE green

-----------------------------------------------------------------------------
(* Files and their validation *)

\* A file as a tool writes it, and what another file keeps of it.
Written(body) == [body |-> body, ref |-> body, serial |-> serial + 1]
Intact(file) == file.ref = file.body

\* Mutant: the digest is not taken of the bytes.
BindingWithoutDigest(file) == [ref |-> file.ref, serial |-> 0]

Binding(file) == [ref |-> file.ref, serial |-> file.serial]

\* What a file keeps of a CI run is that it was of a commit, and green.
CISummaryValid(summary, sha) == summary = sha

PromotionValid(p) ==
  /\ Intact(p)
  /\ p.body.physical.ref.sha = p.body.sha
  /\ CISummaryValid(p.body.ci, p.body.sha)

FinalizationValid(f) ==
  /\ Intact(f)
  /\ f.body.candidate # f.body.release
  /\ f.body.promotion.ref.sha = f.body.candidate
  /\ CISummaryValid(f.body.ci, f.body.release)

\* A file is edited by hand: what it says changes, its ref does not.
Edit(c) ==
  /\ Spend("edits", MaxEdits)
  /\ serial' = serial + 1
  /\ \/ /\ bundle # None /\ bundle.body.sha # c
        /\ bundle' = [bundle EXCEPT !.body.sha = c, !.serial = serial + 1]
        /\ UNCHANGED promotion
     \/ /\ promotion # None /\ promotion.body.sha # c
        /\ promotion' =
             [promotion EXCEPT !.body.sha = c, !.serial = serial + 1]
        /\ UNCHANGED bundle
  /\ UNCHANGED <<receipts, finalization, proc, green>>

\* Mutant: CI is verified without comparing its commit.
CIVerifiedAnywhere(ci, sha) == ci.run = "success" /\ ci.jobs = "success"

\* The run and its required jobs are of the commit and succeeded.
CIVerified(ci, sha) ==
  ci.sha = sha /\ ci.run = "success" /\ ci.jobs = "success"

-----------------------------------------------------------------------------
(* The tools *)

At(o, label) == proc[o].at = label
Begin(o, step) ==
  /\ At(o, "idle")
  /\ Spend("starts", MaxStarts)
  /\ proc' = [proc EXCEPT ![o] = step]
Done(o) == proc' = [proc EXCEPT ![o] = Idle]

\* Any tool may stop on an error or a crash; files are replaced atomically.
Abort(o) ==
  /\ ~At(o, "idle")
  /\ Done(o)
  /\ UNCHANGED <<files, used, green>>

\* A receipt of a PASS at a commit, by the version of that commit; a
\* malformed or failed one is refused as a receipt of another commit is.
ReceiptAccepted(receipt, sha) == receipt.sha = sha

\* The checkout is at the expected commit.
BundleEvidence(o, sha, receipt) ==
  /\ At(o, "idle")
  /\ Spend("starts", MaxStarts)
  /\ ReceiptAccepted(receipt, sha)
  /\ bundle' = Written([sha |-> sha, version |-> Version[sha],
                        receipt |-> receipt.id])
  /\ serial' = serial + 1
  /\ UNCHANGED <<receipts, promotion, finalization, proc, green>>

\* The operator names a commit and, separately, a CI run.
PromoteFetchCI(o, sha, ci) ==
  /\ Begin(o, [at |-> "attest", sha |-> sha, ci |-> ci])
  /\ Seen(ci.sha, ci.run)
  /\ UNCHANGED files

PromoteAttest(o) ==
  LET me == proc[o]
  IN /\ At(o, "attest")
     /\ bundle # None
     /\ Intact(bundle)
     /\ bundle.body.sha = me.sha
     /\ bundle.body.version = Candidate
     /\ CIVerified(me.ci, me.sha)
     /\ promotion' = Written([sha |-> me.sha, physical |-> Binding(bundle),
                              ci |-> me.sha])
     /\ serial' = serial + 1
     /\ Done(o)
     /\ UNCHANGED <<receipts, bundle, finalization, used, green>>

\* The candidate is the only parent, and nothing but the version changes.
VersionOnlyChild(r, c) == Parents[r] = {c} /\ r \in VersionOnly

\* The promotion names the candidate, whose child the checkout must be at.
FinalizeInspect(o, release) ==
  /\ promotion # None
  /\ PromotionValid(promotion)
  /\ VersionOnlyChild(release, promotion.body.sha)
  /\ Begin(o, [at |-> "checked", candidate |-> promotion.body.sha,
               release |-> release])
  /\ UNCHANGED <<files, green>>

FinalizeFetchCI(o, ci) ==
  /\ At(o, "checked")
  /\ proc' = [proc EXCEPT ![o] =
       [at |-> "finish", candidate |-> @.candidate, release |-> @.release,
        ci |-> ci]]
  /\ Seen(ci.sha, ci.run)
  /\ UNCHANGED <<files, used>>

\* The promotion is read again, now to be bound.
FinalizeAttest(o) ==
  LET me == proc[o]
  IN /\ At(o, "finish")
     /\ promotion # None
     /\ PromotionValid(promotion)
     /\ promotion.body.sha = me.candidate
     /\ CIVerified(me.ci, me.release)
     /\ finalization' = Written([candidate |-> me.candidate,
                                 release |-> me.release,
                                 promotion |-> Binding(promotion),
                                 ci |-> me.release])
     /\ serial' = serial + 1
     /\ Done(o)
     /\ UNCHANGED <<receipts, bundle, promotion, used, green>>

-----------------------------------------------------------------------------
(* The status tool *)

StatusReadBundle(o) ==
  /\ Begin(o, [at |-> "status1", bundle |-> bundle])
  /\ UNCHANGED <<files, green>>

StatusReadPromotion(o) ==
  /\ At(o, "status1")
  /\ proc' = [proc EXCEPT ![o] =
       [at |-> "status2", bundle |-> @.bundle, promotion |-> promotion]]
  /\ UNCHANGED <<files, used, green>>

\* A missing artifact is no blocker unless a later one exists.
Broken(b, p, f) ==
  \/ b # None /\ ~Intact(b)
  \/ p # None /\ ~PromotionValid(p)
  \/ f # None /\ ~FinalizationValid(f)

\* Mutant: the promotion need not bind the bundle that was read.
UnboundButForBundle(b, p, f) ==
  \/ p # None /\ b = None
  \/ f # None /\ (p = None \/ f.body.promotion # Binding(p))

Unbound(b, p, f) ==
  \/ p # None /\ (b = None \/ p.body.physical # Binding(b))
  \/ f # None /\ (p = None \/ f.body.promotion # Binding(p))

\* The phase reported by a tool that is installed at a version.
Phase(b, p, f, version) ==
  IF \/ Broken(b, p, f) \/ Unbound(b, p, f)
     \/ b # None /\ b.body.version # Candidate
  THEN "invalid_release_chain"
  ELSE IF f # None THEN IF version = Target THEN "finalized"
                        ELSE "release_version_mismatch"
  ELSE IF b = None THEN "physical_evidence_pending"
  ELSE IF version # Candidate THEN "candidate_version_mismatch"
  ELSE IF p # None THEN "version_bump_pending"
  ELSE "promotion_pending"

StatusReport(o, version) ==
  /\ At(o, "status2")
  /\ proc' = [proc EXCEPT ![o] =
       [at |-> "reported", bundle |-> @.bundle, promotion |-> @.promotion,
        finalization |-> finalization,
        phase |-> Phase(@.bundle, @.promotion, finalization, version)]]
  /\ UNCHANGED <<files, used, green>>

-----------------------------------------------------------------------------

Init ==
  /\ receipts = {}
  /\ bundle = None /\ promotion = None /\ finalization = None
  /\ serial = 0
  /\ proc = [o \in Operators |-> Idle]
  /\ used = [starts |-> 0, edits |-> 0]
  /\ green = {}

Next ==
  \/ \E c \in Commits : Qualify(c) \/ Edit(c)
  \/ \E o \in Operators :
       \/ Abort(o) \/ PromoteAttest(o) \/ FinalizeAttest(o)
       \/ StatusReadBundle(o) \/ StatusReadPromotion(o)
       \/ \E version \in {Candidate, Target} : StatusReport(o, version)
       \/ \E c \in Commits, receipt \in receipts :
            BundleEvidence(o, c, receipt)
       \/ \E release \in Commits : FinalizeInspect(o, release)
       \/ \E ci \in CI :
            \/ FinalizeFetchCI(o, ci)
            \/ \E c \in Commits : PromoteFetchCI(o, c, ci)

Spec == Init /\ [][Next]_vars

-----------------------------------------------------------------------------
(* Properties *)

Qualified(c) == \E receipt \in receipts : receipt.sha = c

\* What the files say, and what the tools have read while they run.
Bound(body) == [ref : body, serial : Nat]
File(body) == [body : body, ref : body, serial : Nat]

BundleBody == [sha : Commits, version : {Candidate, Target}, receipt : Nat]
PromotionBody == [sha : Commits, physical : Bound(BundleBody), ci : Commits]
FinalizationBody ==
  [candidate : Commits, release : Commits, promotion : Bound(PromotionBody),
   ci : Commits]

Bundle == File(BundleBody) \cup {None}
Promotion == File(PromotionBody) \cup {None}
Finalization == File(FinalizationBody) \cup {None}

Phases ==
  {"invalid_release_chain", "finalized", "release_version_mismatch",
   "physical_evidence_pending", "candidate_version_mismatch",
   "version_bump_pending", "promotion_pending"}

ToolState ==
  {Idle}
  \cup [at : {"attest"}, sha : Commits, ci : CI]
  \cup [at : {"checked"}, candidate : Commits, release : Commits]
  \cup [at : {"finish"}, candidate : Commits, release : Commits, ci : CI]
  \cup [at : {"status1"}, bundle : Bundle]
  \cup [at : {"status2"}, bundle : Bundle, promotion : Promotion]
  \cup [at : {"reported"}, bundle : Bundle, promotion : Promotion,
        finalization : Finalization, phase : Phases]

(* Every variable keeps its type, and a file binds only files written      *)
(* before it.                                                              *)
TypeOK ==
  /\ receipts \subseteq [sha : Commits, id : Nat] /\ IsFiniteSet(receipts)
  /\ bundle \in Bundle
  /\ promotion \in Promotion
  /\ finalization \in Finalization
  /\ serial \in Nat
  /\ proc \in [Operators -> ToolState]
  /\ used \in [starts : 0 .. MaxStarts, edits : 0 .. MaxEdits]
  /\ green \subseteq Commits
  /\ bundle # None => bundle.serial \in 1 .. serial
  /\ promotion # None =>
       /\ promotion.serial <= serial
       /\ promotion.body.physical.serial \in 1 .. promotion.serial - 1
  /\ finalization # None =>
       /\ finalization.serial <= serial
       /\ finalization.body.promotion.serial \in 1 .. finalization.serial - 1

(* A valid finalization stands for a release that was earned: its commit   *)
(* is a version-only child of a candidate that was physically qualified,   *)
(* and CI was green on both, whatever runs the operators named, and        *)
(* although runs and files changed between the finalizer's reads.          *)
FinalizationIsEarned ==
  finalization # None /\ FinalizationValid(finalization) =>
    LET c == finalization.body.candidate
        r == finalization.body.release
    IN /\ Parents[r] = {c} /\ r \in VersionOnly
       /\ Qualified(c)
       /\ {c, r} \subseteq green

(* The status, which reads three files at three moments, calls a release   *)
(* ready or finalized only for artifacts of one candidate: the evidence it *)
(* shows is what that candidate was promoted on, that candidate was        *)
(* qualified and green, and a finalized release is its child.              *)
StatusSpeaksOfOneRelease ==
  \A o \in Operators :
    /\ At(o, "reported")
    /\ proc[o].phase \in {"version_bump_pending", "finalized"}
    =>
      LET me == proc[o]
          c  == me.bundle.body.sha
      IN /\ me.promotion.body.sha = c
         /\ me.promotion.body.physical.ref.receipt = me.bundle.body.receipt
         /\ Qualified(c) /\ c \in green
         /\ me.phase = "finalized" =>
              /\ Parents[me.finalization.body.release] = {c}
              /\ me.finalization.body.release \in green
=============================================================================
