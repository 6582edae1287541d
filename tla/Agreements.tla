----------------------------- MODULE Agreements -----------------------------
(***************************************************************************)
(* AgreementsService in a deal room: the rows of "agreements",             *)
(* "agreement_versions" and "agreement_signatures", next to the handlers   *)
(* of Deals.  VOID is declared and never written, so the check of sign     *)
(* against it always passes.                                               *)
(*                                                                         *)
(* sign ties the user and the agreement to the deal of the URL, but not    *)
(* the version: people of this room may sign a version of another deal,    *)
(* and people of another deal, through that deal, a version of this one.   *)
(* The former are handlers here; the latter write nothing here but the     *)
(* signature, and are SignElsewhere.                                       *)
(***************************************************************************)
EXTENDS Deals, Naturals, FiniteSets

CONSTANTS
    Agreement,      \* agreement ids
    VersionId,      \* version ids of this room's agreements
    OtherVersion    \* versions of agreements in other deals

\* A scenario also has: versions, a bound on its version rows.

\* The database makes an id for every row: the ids last for the rows within the bound.
ASSUME VersionsAssumption ==
    \A s \in Scenario :
        /\ s.versions \in Nat
        /\ IsFiniteSet(VersionId) => s.versions <= Cardinality(VersionId)

ASSUME OtherVersionAssumption == VersionId \cap OtherVersion = {}

VARIABLES
    agreement,      \* the status of each agreement row
    version,        \* version rows
    signature       \* signature rows: <<version id, user>>, unique

agreementVars == <<agreement, version, signature>>

AgreementStatus == {"ABSENT", "DRAFT", "PENDING_SIGNATURE", "PARTIALLY_SIGNED", "SIGNED"}

Version == [of : Agreement, number : Nat \ {0}]

NoVersion == [number |-> 0]

Exists(v) == version[v] # NoVersion

AnyVersion == VersionId \cup OtherVersion

\* The foreign key of a signature: the version exists, in whichever deal.
Signable(v) == v \in VersionId => Exists(v)

VersionsOf(a) == {v \in VersionId : Exists(v) /\ version[v].of = a}

Numbers(a) == {version[v].number : v \in VersionsOf(a)}

Latest(a) ==
    IF Numbers(a) = {} THEN 0 ELSE CHOOSE n \in Numbers(a) : \A m \in Numbers(a) : m <= n

\* The participants whose signatures sign counts on.
Parties == {u \in User : role[u] \in {"BUYER", "SELLER"}}

Signers(v) == {u \in User : <<v, u>> \in signature}

SignedEvent(v, u) == Event("AGREEMENT_SIGNED", v, u)

-----------------------------------------------------------------------------
\* POST /deals/:dealId/agreements
BeginAgreement(r, u) ==
    /\ Participant(u)
    /\ Begin(r, "createAgreement", [at |-> "insertAgreement", user |-> u])
    /\ UNCHANGED <<dealVars, agreementVars>>

InsertAgreement(r, a) ==
    /\ At(r, "insertAgreement")
    /\ agreement[a] = "ABSENT"
    /\ agreement' = [agreement EXCEPT ![a] = "DRAFT"]
    /\ Go(r, Record(call[r].user, Event("AGREEMENT_CREATED", a, "DRAFT")))
    /\ UNCHANGED <<dealVars, version, signature>>

(***************************************************************************)
(* POST .../agreements/:agreementId/versions.  The latest number is read,  *)
(* and the next one inserted under the unique constraint on agreement and  *)
(* number; the status follows in a statement of its own.  Nobody leaves a  *)
(* room and no agreement is deleted: the two checks are one step.          *)
(***************************************************************************)
BeginVersion(r, u, a) ==
    /\ Participant(u)
    /\ agreement[a] # "ABSENT"
    /\ Begin(r, "addVersion", [at |-> "readLatest", user |-> u, of |-> a])
    /\ UNCHANGED <<dealVars, agreementVars>>

ReadLatest(r) ==
    /\ At(r, "readLatest")
    /\ Go(r, [at |-> "insertVersion", user |-> call[r].user, of |-> call[r].of,
              number |-> Latest(call[r].of) + 1])
    /\ UNCHANGED <<dealVars, agreementVars>>

\* The bound on version rows is not reached.
RoomForVersion == Cardinality({v \in VersionId : Exists(v)}) < scenario.versions

\* A row under a fresh id.
Insert(a, n) ==
    /\ RoomForVersion
    /\ version' = [version EXCEPT ![CHOOSE v \in VersionId : ~ Exists(v)] = [of |-> a, number |-> n]]

\* Slip: no unique constraint.
InsertVersionAnyway(r) ==
    /\ At(r, "insertVersion")
    /\ Insert(call[r].of, call[r].number)
    /\ Go(r, [call[r] EXCEPT !.at = "writePending"])
    /\ UNCHANGED <<dealVars, agreement, signature>>

InsertVersion(r) ==
    /\ At(r, "insertVersion")
    /\ call[r].number \notin Numbers(call[r].of)
    /\ Insert(call[r].of, call[r].number)
    /\ Go(r, [call[r] EXCEPT !.at = "writePending"])
    /\ UNCHANGED <<dealVars, agreement, signature>>

\* The constraint is violated: the call ends in an error.
VersionTaken(r) ==
    /\ At(r, "insertVersion")
    /\ call[r].number \in Numbers(call[r].of)
    /\ Go(r, Idle)
    /\ UNCHANGED <<dealVars, agreementVars>>

WritePending(r) ==
    /\ At(r, "writePending")
    /\ agreement' = [agreement EXCEPT ![call[r].of] = "PENDING_SIGNATURE"]
    /\ Go(r, Record(call[r].user,
                    Event("AGREEMENT_VERSION_ADDED", call[r].of, "PENDING_SIGNATURE")))
    /\ UNCHANGED <<dealVars, version, signature>>

(***************************************************************************)
(* POST .../agreements/:agreementId/versions/:versionId/sign: the          *)
(* signature is upserted, the parties of the room and the signatures of    *)
(* the version are counted in two statements, and the outcome is written   *)
(* to the agreement of the URL.  That the version is one of that agreement *)
(* is not checked; the foreign key only demands that it exists.            *)
(***************************************************************************)
BeginSign(r, u, a, v) ==
    /\ Participant(u)
    /\ agreement[a] # "ABSENT"
    /\ Signable(v)
    /\ Begin(r, "sign", [at |-> "upsertSignature", user |-> u, of |-> a, version |-> v])
    /\ UNCHANGED <<dealVars, agreementVars>>

UpsertSignature(r) ==
    /\ At(r, "upsertSignature")
    /\ signature' = signature \cup {<<call[r].version, call[r].user>>}
    /\ Go(r, [call[r] EXCEPT !.at = "countParties"])
    /\ UNCHANGED <<dealVars, agreement, version>>

CountParties(r) ==
    /\ At(r, "countParties")
    /\ Go(r, [at |-> "countSignatures", user |-> call[r].user, of |-> call[r].of,
              version |-> call[r].version, parties |-> Cardinality(Parties)])
    /\ UNCHANGED <<dealVars, agreementVars>>

\* Slip: the signatures of every version are counted.
CountAllSignatures(r) ==
    /\ At(r, "countSignatures")
    /\ Go(r, [at |-> "writeOutcome", user |-> call[r].user, of |-> call[r].of, version |-> call[r].version,
              outcome |-> IF Cardinality(signature) >= call[r].parties THEN "SIGNED" ELSE "PARTIALLY_SIGNED"])
    /\ UNCHANGED <<dealVars, agreementVars>>

CountSignatures(r) ==
    /\ At(r, "countSignatures")
    /\ Go(r, [at |-> "writeOutcome", user |-> call[r].user, of |-> call[r].of,
              version |-> call[r].version,
              outcome |-> IF Cardinality(Signers(call[r].version)) >= call[r].parties
                            THEN "SIGNED" ELSE "PARTIALLY_SIGNED"])
    /\ UNCHANGED <<dealVars, agreementVars>>

\* Slip: the event is recorded for completed agreements only.
WriteOutcomeTellSigned(r) ==
    /\ At(r, "writeOutcome")
    /\ agreement' = [agreement EXCEPT ![call[r].of] = call[r].outcome]
    /\ Go(r, IF call[r].outcome = "SIGNED"
               THEN Record(call[r].user, SignedEvent(call[r].version, call[r].user))
               ELSE Idle)
    /\ UNCHANGED <<dealVars, version, signature>>

WriteOutcome(r) ==
    /\ At(r, "writeOutcome")
    /\ agreement' = [agreement EXCEPT ![call[r].of] = call[r].outcome]
    /\ Go(r, Record(call[r].user, SignedEvent(call[r].version, call[r].user)))
    /\ UNCHANGED <<dealVars, version, signature>>

\* The same call through another deal: its agreement and its timeline are outside.
SignElsewhere(u, v) ==
    /\ "sign" \in scenario.calls
    /\ Signable(v)
    /\ signature' = signature \cup {<<v, u>>}
    /\ UNCHANGED <<handlerVars, dealVars, agreement, version>>

-----------------------------------------------------------------------------
AgreementInit ==
    /\ agreement = [a \in Agreement |-> "ABSENT"]
    /\ version = [v \in VersionId |-> NoVersion]
    /\ signature = {}

AgreementArrive(r) ==
    \E u \in scenario.people :
        \/ BeginAgreement(r, u)
        \/ \E a \in Agreement : \/ BeginVersion(r, u, a)
                                \/ \E v \in AnyVersion : BeginSign(r, u, a, v)

AgreementProceed(r) ==
    \/ \E a \in Agreement : InsertAgreement(r, a)
    \/ ReadLatest(r)
    \/ InsertVersion(r)
    \/ VersionTaken(r)
    \/ WritePending(r)
    \/ UpsertSignature(r)
    \/ CountParties(r)
    \/ CountSignatures(r)
    \/ WriteOutcome(r)

AgreementOutside == \E u \in scenario.elsewhere, v \in AnyVersion : SignElsewhere(u, v)

-----------------------------------------------------------------------------
AgreementHandler ==
    [at : {"insertAgreement"}, user : User]
    \cup [at : {"readLatest"}, user : User, of : Agreement]
    \cup [at : {"insertVersion", "writePending"}, user : User, of : Agreement, number : Nat \ {0}]
    \cup [at : {"upsertSignature", "countParties"}, user : User, of : Agreement, version : AnyVersion]
    \cup [at : {"countSignatures"}, user : User, of : Agreement, version : AnyVersion, parties : Nat]
    \cup [at : {"writeOutcome"}, user : User, of : Agreement, version : AnyVersion,
          outcome : {"SIGNED", "PARTIALLY_SIGNED"}]

AgreementRowsOK ==
    /\ agreement \in [Agreement -> AgreementStatus]
    /\ version \in [VersionId -> Version \cup {NoVersion}]
    /\ signature \subseteq (AnyVersion \X User)

\* The versions of an agreement are numbered 1, 2, 3 ... without a gap or a
\* duplicate, although overlapping calls compute the same next number: the unique
\* constraint lets one of them fail, and the number it read is never overtaken by
\* a smaller one.
VersionsNumbered ==
    \A a \in Agreement :
        /\ \A v, w \in VersionsOf(a) : version[v].number = version[w].number => v = w
        /\ \A v \in VersionsOf(a) : \A m \in 1 .. version[v].number : m \in Numbers(a)

\* Nobody is let into the room after accept, and the buyer and the seller keep the
\* roles it gave them.
JustTheTwo == "addParticipant" \notin scenario.calls

\* Two people have signed the version: the buyer or the seller, and either the other
\* of them or somebody who takes part in another deal.
SignedByTwo(v) ==
    \E u \in {Buyer, Seller}, w \in {Buyer, Seller} \cup scenario.elsewhere :
        u # w /\ {u, w} \subseteq Signers(v)

\* In a room of just the buyer and the seller an agreement reads SIGNED only if one
\* of the two and somebody else have signed one and the same version, whatever counts
\* and writes of other calls came between.  The other signer is the other party when
\* nobody else can sign; sign itself does not tie the version to the room, so it may
\* be a stranger to it, and the version one of another deal.  (With more people in the
\* room, or other roles, SIGNED says less: whoever signed is counted against whoever
\* is a party by then.)
SignedMeansTwo ==
    JustTheTwo => \A a \in Agreement :
        agreement[a] = "SIGNED" => \E v \in AnyVersion : SignedByTwo(v)

\* Without failures every signature of somebody who takes part in no other deal is on
\* the timeline, or its handler is still on its way there.  (A signature given through
\* another deal is on that deal's timeline, not on the version's.)
SignaturesTold ==
    \A v \in AnyVersion, u \in User \ scenario.elsewhere :
        u \in Signers(v) =>
            \/ Told(SignedEvent(v, u))
            \/ \E r \in Request :
                   /\ call[r].at \in {"countParties", "countSignatures", "writeOutcome"}
                   /\ call[r].version = v /\ call[r].user = u

=============================================================================
