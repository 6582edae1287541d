-------------------------- MODULE BusinessesProofs --------------------------
(***************************************************************************)
(* Proofs about Businesses: type correctness, the agreement of a business  *)
(* with its listing, that a retired business stays retired, how often one  *)
(* is put on the market, and that no suspension is silent, for every set   *)
(* of accounts, businesses, handlers and endpoints.                        *)
(***************************************************************************)
EXTENDS Businesses, FiniteSetTheorems, TLAPS

-----------------------------------------------------------------------------
(* Handlers. *)

\* A handler in a slot is about to make one of the steps, on some business.
LEMMA HandlerType ==
    ASSUME NEW step \in Step \cup {"idle"}, NEW b \in Business
    PROVE  Handler(step, b) \in {Idle} \cup [at : Step, biz : Business]
  BY DEF Handler

\* Every step is named, and none of them is "idle".
LEMMA StepNames ==
    /\ DOMAIN FollowUp = {"created", "published", "publishedAlert", "unpublished", "removed",
                          "suspended", "suspendedAudit", "suspendedNotice"}
    /\ "idle" \notin Step
    /\ \A s \in DOMAIN FollowUp : FollowUp[s].next \in DOMAIN FollowUp \cup {"idle"}
  <1>1. DOMAIN FollowUp = {"created", "published", "publishedAlert", "unpublished", "removed",
                           "suspended", "suspendedAudit", "suspendedNotice"}
    BY DEF FollowUp
  <1>2. "idle" \notin Step
    BY <1>1 DEF Step, WriteStep
  <1>3. ASSUME NEW s \in DOMAIN FollowUp
        PROVE  FollowUp[s].next \in {"idle", "publishedAlert", "suspendedAudit", "suspendedNotice"}
    <2>1. /\ FollowUp.created.next = "idle" /\ FollowUp.published.next = "publishedAlert"
          /\ FollowUp.publishedAlert.next = "idle" /\ FollowUp.unpublished.next = "idle"
          /\ FollowUp.removed.next = "idle" /\ FollowUp.suspended.next = "suspendedAudit"
          /\ FollowUp.suspendedAudit.next = "suspendedNotice" /\ FollowUp.suspendedNotice.next = "idle"
      BY DEF FollowUp
    <2> QED
      BY <1>1, <2>1
  <1> QED
    BY <1>1, <1>2, <1>3

\* Starting a handler keeps the slots well typed.
LEMMA BeginType ==
    ASSUME TypeOK, NEW r \in Request, NEW b \in Business, NEW step \in Step, NEW endpoint,
           Begin(r, endpoint, step, b)
    PROVE  call' \in [Request -> {Idle} \cup [at : Step, biz : Business]]
  BY HandlerType DEF Begin, TypeOK

\* So does moving it on, and the handler knows its business.
LEMMA ContinueType ==
    ASSUME TypeOK, NEW r \in Request, NEW step \in Step, NEW next \in Step \cup {"idle"},
           Continue(r, step, next)
    PROVE  /\ call[r].biz \in Business
           /\ call' \in [Request -> {Idle} \cup [at : Step, biz : Business]]
  <1>1. call[r] \in [at : Step, biz : Business]
    BY DEF Continue, TypeOK
  <1>2. call[r].biz \in Business
    BY <1>1
  <1> QED
    BY <1>2, HandlerType DEF Continue, TypeOK

\* The two-row transaction keeps the rows well typed.
LEMMA SetStatusType ==
    ASSUME TypeOK, NEW b \in Business, NEW status \in BusinessStatus, NEW listing \in ListingStatus,
           SetStatus(b, status, listing)
    PROVE  biz' \in [Business -> Row]
  BY DEF SetStatus, TypeOK, Row

-----------------------------------------------------------------------------
(* Type correctness. *)

LEMMA InitType == Init => TypeOK
  BY SeedAssumption DEF Init, TypeOK, Row, NoRow, SeedRow, BusinessStatus, ListingStatus, Field

LEMMA ArriveType ==
    ASSUME TypeOK, NEW r \in Request, Arrive(r)
    PROVE  TypeOK'
  <1> PICK b \in Business :
          \/ \E filled \in SUBSET {"details"} : CreateBusiness(r, b, filled)
          \/ BeginSuspend(r, b)
          \/ \E u \in User :
                \/ BeginPublish(r, u, b)
                \/ RefusePublish(u, b)
                \/ BeginUnpublish(r, u, b)
                \/ \E step \in {"remove", "update", "updateListing"} : BeginChange(r, u, b, step)
    BY DEF Arrive
  <1> {"created", "publish", "unpublish", "suspend", "remove", "update", "updateListing"} \subseteq Step
    BY DEF Step, FollowUp, WriteStep
  <1>1. ASSUME NEW filled \in SUBSET {"details"}, CreateBusiness(r, b, filled)
        PROVE  TypeOK'
    <2>1. call' \in [Request -> {Idle} \cup [at : Step, biz : Business]]
      BY <1>1, BeginType DEF CreateBusiness
    <2>2. biz' \in [Business -> Row]
      BY <1>1 DEF CreateBusiness, TypeOK, Row, BusinessStatus, ListingStatus, Field
    <2> QED
      BY <1>1, <2>1, <2>2 DEF CreateBusiness, TypeOK
  <1>2. CASE BeginSuspend(r, b)
    BY <1>2, BeginType DEF BeginSuspend, TypeOK
  <1>3. ASSUME NEW u \in User, BeginPublish(r, u, b)
        PROVE  TypeOK'
    BY <1>3, BeginType DEF BeginPublish, TypeOK
  <1>4. ASSUME NEW u \in User, RefusePublish(u, b)
        PROVE  TypeOK'
    BY <1>4 DEF RefusePublish, Note, TypeOK
  <1>5. ASSUME NEW u \in User, BeginUnpublish(r, u, b)
        PROVE  TypeOK'
    BY <1>5, BeginType DEF BeginUnpublish, TypeOK
  <1>6. ASSUME NEW u \in User, NEW step \in {"remove", "update", "updateListing"},
               BeginChange(r, u, b, step)
        PROVE  TypeOK'
    BY <1>6, BeginType DEF BeginChange, TypeOK
  <1> QED
    BY <1>1, <1>2, <1>3, <1>4, <1>5, <1>6

LEMMA ProceedType ==
    ASSUME TypeOK, NEW r \in Request, Proceed(r)
    PROVE  TypeOK'
  <1> USE StepNames
  <1> WriteStep \subseteq Step /\ DOMAIN FollowUp \subseteq Step
    BY DEF Step
  <1>1. CASE CommitPublish(r)
    <2>1. /\ call[r].biz \in Business
          /\ call' \in [Request -> {Idle} \cup [at : Step, biz : Business]]
      BY <1>1, ContinueType DEF CommitPublish, WriteStep
    <2> QED
      BY <1>1, <2>1, SetStatusType DEF CommitPublish, TypeOK, BusinessStatus, ListingStatus
  <1>2. CASE CommitUnpublish(r)
    <2>1. /\ call[r].biz \in Business
          /\ call' \in [Request -> {Idle} \cup [at : Step, biz : Business]]
      BY <1>2, ContinueType DEF CommitUnpublish, WriteStep
    <2> QED
      BY <1>2, <2>1, SetStatusType DEF CommitUnpublish, TypeOK, BusinessStatus, ListingStatus
  <1>3. CASE CommitRemove(r)
    <2>1. /\ call[r].biz \in Business
          /\ call' \in [Request -> {Idle} \cup [at : Step, biz : Business]]
      BY <1>3, ContinueType DEF CommitRemove, WriteStep
    <2> QED
      BY <1>3, <2>1 DEF CommitRemove, TypeOK, Row
  <1>4. ASSUME NEW step \in {"update", "updateListing"}, NEW field \in Field,
               NEW present \in BOOLEAN, CommitEdit(r, step, field, present)
        PROVE  TypeOK'
    <2>1. /\ call[r].biz \in Business
          /\ call' \in [Request -> {Idle} \cup [at : Step, biz : Business]]
      BY <1>4, ContinueType DEF CommitEdit, WriteStep
    <2>2. biz' \in [Business -> Row]
      BY <1>4, <2>1 DEF CommitEdit, TypeOK, Row
    <2> QED
      BY <1>4, <2>1, <2>2 DEF CommitEdit, TypeOK
  <1>5. CASE SuspendBusiness(r)
    <2>1. /\ call[r].biz \in Business
          /\ call' \in [Request -> {Idle} \cup [at : Step, biz : Business]]
      BY <1>5, ContinueType DEF SuspendBusiness, WriteStep
    <2> QED
      BY <1>5, <2>1 DEF SuspendBusiness, SetStatus, TypeOK, Row, BusinessStatus
  <1>6. CASE SuspendListing(r)
    <2>1. /\ call[r].biz \in Business
          /\ call' \in [Request -> {Idle} \cup [at : Step, biz : Business]]
      BY <1>6, ContinueType DEF SuspendListing, WriteStep
    <2> QED
      BY <1>6, <2>1 DEF SuspendListing, SetStatus, TypeOK, Row, ListingStatus
  <1>7. CASE MakeFollowUp(r)
    <2> PICK step \in DOMAIN FollowUp :
            /\ Continue(r, step, FollowUp[step].next)
            /\ Note(FollowUp[step].write, call[r].biz)
            /\ UNCHANGED <<biz, publications>>
      BY <1>7 DEF MakeFollowUp
    <2>1. FollowUp[step].next \in Step \cup {"idle"}
      OBVIOUS
    <2>2. /\ call[r].biz \in Business
          /\ call' \in [Request -> {Idle} \cup [at : Step, biz : Business]]
      BY <2>1, ContinueType
    <2> QED
      BY <2>2 DEF Note, TypeOK
  <1> QED
    BY <1>1, <1>2, <1>3, <1>4, <1>5, <1>6, <1>7 DEF Proceed, Field

\* Rows, handlers and history keep their types in every step.
LEMMA TypeStep == TypeOK /\ [Next]_bizVars => TypeOK'
  <1> SUFFICES ASSUME TypeOK, [Next]_bizVars PROVE TypeOK'
    OBVIOUS
  <1>1. CASE UNCHANGED bizVars
    BY <1>1 DEF bizVars, TypeOK
  <1>2. ASSUME NEW r \in Request, Fail(r) PROVE TypeOK'
    BY <1>2 DEF Fail, TypeOK
  <1> QED
    BY <1>1, <1>2, ArriveType, ProceedType DEF Next

\* The type invariant of the businesses and their handlers.
THEOREM TypeCorrect == Spec => []TypeOK
  BY InitType, TypeStep, PTL DEF Spec

-----------------------------------------------------------------------------
(* The two rows of a business. *)

\* Each step leaves the rows of every business in agreement.
LEMMA AgreementStep == TypeOK /\ ListingAgreement /\ [Next]_bizVars => ListingAgreement'
  <1> SUFFICES ASSUME TypeOK, ListingAgreement, [Next]_bizVars, NEW b \in Business,
                      biz'[b].listing # ListingOf(biz'[b].status)
               PROVE  "SUSPENDED" \in {biz'[b].status, biz'[b].listing}
    BY DEF ListingAgreement
  <1> USE DEF ListingAgreement, ListingOf, TypeOK, Row
  <1>1. CASE UNCHANGED biz
    BY <1>1
  <1>2. ASSUME NEW c \in Business, NEW r \in Request, NEW filled \in SUBSET {"details"},
               CreateBusiness(r, c, filled)
        PROVE  "SUSPENDED" \in {biz'[b].status, biz'[b].listing}
    BY <1>2 DEF CreateBusiness
  <1>3. ASSUME NEW r \in Request, CommitPublish(r) \/ CommitUnpublish(r)
        PROVE  "SUSPENDED" \in {biz'[b].status, biz'[b].listing}
    BY <1>3 DEF CommitPublish, CommitUnpublish, SetStatus
  <1>4. ASSUME NEW r \in Request, SuspendBusiness(r) \/ SuspendListing(r)
        PROVE  "SUSPENDED" \in {biz'[b].status, biz'[b].listing}
    BY <1>4 DEF SuspendBusiness, SuspendListing, SetStatus
  <1>5. ASSUME NEW r \in Request, CommitRemove(r)
        PROVE  "SUSPENDED" \in {biz'[b].status, biz'[b].listing}
    BY <1>5 DEF CommitRemove
  <1>6. ASSUME NEW r \in Request, NEW present \in BOOLEAN, NEW step, NEW field,
               CommitEdit(r, step, field, present)
        PROVE  "SUSPENDED" \in {biz'[b].status, biz'[b].listing}
    BY <1>6 DEF CommitEdit
  <1> QED
    BY <1>1, <1>2, <1>3, <1>4, <1>5, <1>6
    DEF Next, Arrive, Proceed, Fail, bizVars, BeginPublish, RefusePublish, BeginUnpublish,
        BeginChange, BeginSuspend, MakeFollowUp

\* The business row and the listing row part only around a suspension.
THEOREM ListingsAgree == Spec => []ListingAgreement
  <1>1. Init => ListingAgreement
    BY DEF Init, ListingAgreement, ListingOf, NoRow, SeedRow
  <1> QED
    BY <1>1, AgreementStep, TypeCorrect, PTL DEF Spec

-----------------------------------------------------------------------------
(* Retirement. *)

\* No step but the opening read of publish puts a handler on its way to publish.
LEMMA OnlyBeginPublish ==
    ASSUME TypeOK, Next, NEW b \in Business, ~ InFlight({"publish"}, b), InFlight({"publish"}, b)'
    PROVE  biz[b].status = "DRAFT" /\ PublishPasses(b)
  <1> USE DEF InFlight, Handler, Idle, TypeOK
  <1> PICK r \in Request : Arrive(r) \/ Proceed(r) \/ Fail(r)
    BY DEF Next
  <1>1. CASE Fail(r)
    BY <1>1 DEF Fail
  <1>2. ASSUME NEW step, NEW next, next # "publish", Continue(r, step, next)
        PROVE  FALSE
    BY <1>2 DEF Continue
  <1>3. CASE Proceed(r)
    <2>1. \A s \in DOMAIN FollowUp : FollowUp[s].next # "publish"
      BY StepNames
    <2> QED
      BY <1>2, <1>3, <2>1
      DEF Proceed, CommitPublish, CommitUnpublish, CommitRemove, CommitEdit, SuspendBusiness,
          SuspendListing, MakeFollowUp
  <1>4. ASSUME NEW endpoint, NEW step, NEW c \in Business, step # "publish", Begin(r, endpoint, step, c)
        PROVE  FALSE
    BY <1>4 DEF Begin
  <1>5. ASSUME NEW c \in Business, NEW u \in User, BeginPublish(r, u, c)
        PROVE  biz[b].status = "DRAFT" /\ PublishPasses(b)
    <2>1. c = b
      BY <1>5 DEF BeginPublish, Begin
    <2> QED
      BY <1>5, <2>1 DEF BeginPublish, PublishPasses, CanTransition, BusinessMachine, Row, BusinessStatus
  <1>6. CASE Arrive(r)
    BY <1>4, <1>5, <1>6
    DEF Arrive, CreateBusiness, BeginSuspend, RefusePublish, BeginUnpublish, BeginChange
  <1> QED
    BY <1>1, <1>3, <1>6

\* From a retired status only a handler on its way to publish leads elsewhere.
LEMMA RetiredStatus ==
    ASSUME TypeOK, Next, NEW b \in Business, Retired(b)
    PROVE  biz'[b].status \in {"PAUSED", "SUSPENDED", "SOLD"}
  <1> USE DEF Retired, TypeOK, Row
  <1> PICK r \in Request : Arrive(r) \/ Proceed(r) \/ Fail(r)
    BY DEF Next
  <1>1. CASE UNCHANGED biz
    BY <1>1
  <1>2. ASSUME NEW c \in Business, NEW filled \in SUBSET {"details"}, CreateBusiness(r, c, filled)
        PROVE  biz'[b].status = biz[b].status
    BY <1>2 DEF CreateBusiness
  <1>3. CASE CommitPublish(r)
    <2>1. call[r].biz # b
      BY <1>3 DEF CommitPublish, Continue, InFlight
    <2> QED
      BY <1>3, <2>1 DEF CommitPublish, SetStatus
  <1>4. CASE CommitUnpublish(r) \/ SuspendBusiness(r) \/ SuspendListing(r)
    BY <1>4 DEF CommitUnpublish, SuspendBusiness, SuspendListing, SetStatus
  <1>5. CASE CommitRemove(r)
    BY <1>5 DEF CommitRemove
  <1>6. ASSUME NEW step, NEW field, NEW present, CommitEdit(r, step, field, present)
        PROVE  biz'[b].status = biz[b].status
    BY <1>6 DEF CommitEdit
  <1> QED
    BY <1>1, <1>2, <1>3, <1>4, <1>5, <1>6
    DEF Arrive, Proceed, Fail, BeginPublish, RefusePublish, BeginUnpublish, BeginChange,
        BeginSuspend, MakeFollowUp

\* A retired business stays retired in every step.
LEMMA RetiredStep ==
    ASSUME TypeOK, [Next]_bizVars, NEW b \in Business, Retired(b)
    PROVE  Retired(b)'
  <1>1. CASE UNCHANGED bizVars
    BY <1>1 DEF bizVars, Retired, InFlight
  <1>2. CASE Next
    BY <1>2, RetiredStatus, OnlyBeginPublish DEF Retired
  <1> QED
    BY <1>1, <1>2

\* No sequence of calls puts a paused, suspended or sold business back on the
\* market once no publish is on its way.
THEOREM RetirementIsFinal == Spec => RetiredStays
  <1>1. TypeOK /\ [Next]_bizVars => [\A b \in Business : Retired(b) => Retired(b)']_bizVars
    BY RetiredStep
  <1> QED
    BY <1>1, TypeCorrect, PTL DEF Spec, RetiredStays

-----------------------------------------------------------------------------
(* How often a business goes on the market. *)

\* The handlers about to commit a publish of b.
Publishing(b) == {r \in Request : call[r] = Handler("publish", b)}

\* Strengthening of PublicationsBounded: a draft was never on the market, so
\* whoever reads the row as a draft comes before the first publication.
PublicationsInv ==
    /\ TypeOK
    /\ \A b \in Business : biz[b].status \in {"ABSENT", "DRAFT"} => publications[b] = 0
    /\ PublicationsBounded

\* The handlers in flight are finitely many, so fewer of them count for less.
LEMMA PublishingCount ==
    \A S \in SUBSET Request : \A T \in SUBSET S :
        /\ Cardinality(S) \in Nat /\ Cardinality(T) \in Nat
        /\ Cardinality(T) <= Cardinality(S) /\ Cardinality(S) <= Cardinality(Request)
        /\ Cardinality(Request) \in Nat
  <1> TAKE S \in SUBSET Request
  <1> TAKE T \in SUBSET S
  <1>1. IsFiniteSet(Request) /\ IsFiniteSet(S) /\ IsFiniteSet(T)
    BY RequestAssumption, FS_Subset
  <1> QED
    BY <1>1, FS_Subset, FS_CardinalityType

\* No step turns a row back into a draft; only CommitPublish counts.
LEMMA DraftStep ==
    ASSUME TypeOK, Next, NEW b \in Business
    PROVE  /\ biz'[b].status \in {"ABSENT", "DRAFT"} => biz[b].status \in {"ABSENT", "DRAFT"}
           /\ \/ publications'[b] = publications[b]
              \/ \E r \in Request : CommitPublish(r) /\ call[r].biz = b
  <1> USE DEF TypeOK, Row
  <1> PICK r \in Request : Arrive(r) \/ Proceed(r) \/ Fail(r)
    BY DEF Next
  <1>1. CASE UNCHANGED <<biz, publications>>
    BY <1>1
  <1>2. ASSUME NEW c \in Business, NEW filled \in SUBSET {"details"}, CreateBusiness(r, c, filled)
        PROVE  publications' = publications
               /\ (biz'[b].status # biz[b].status => biz[b].status = "ABSENT")
    BY <1>2 DEF CreateBusiness
  <1>3. CASE CommitPublish(r)
    <2>1. call[r].biz \in Business
      BY <1>3, ContinueType DEF CommitPublish, Step, WriteStep, FollowUp
    <2> QED
      BY <1>3, <2>1 DEF CommitPublish, SetStatus
  <1>4. CASE CommitUnpublish(r) \/ SuspendBusiness(r) \/ SuspendListing(r)
    BY <1>4 DEF CommitUnpublish, SuspendBusiness, SuspendListing, SetStatus
  <1>5. CASE CommitRemove(r)
    BY <1>5 DEF CommitRemove
  <1>6. ASSUME NEW step, NEW field, NEW present, CommitEdit(r, step, field, present)
        PROVE  UNCHANGED publications /\ biz'[b].status = biz[b].status
    BY <1>6 DEF CommitEdit
  <1> QED
    BY <1>1, <1>2, <1>3, <1>4, <1>5, <1>6
    DEF Arrive, Proceed, Fail, BeginPublish, RefusePublish, BeginUnpublish, BeginChange,
        BeginSuspend, MakeFollowUp

\* A handler that was not about to publish b is so only by a read of a draft.
LEMMA PublishingStep ==
    ASSUME TypeOK, Next, NEW b \in Business
    PROVE  Publishing(b)' \subseteq Publishing(b) \/ biz[b].status = "DRAFT"
  <1> USE DEF Publishing, Handler, Idle, TypeOK
  <1> PICK r \in Request : Arrive(r) \/ Proceed(r) \/ Fail(r)
    BY DEF Next
  <1>1. CASE Fail(r)
    BY <1>1 DEF Fail
  <1>2. ASSUME NEW step, NEW next, next # "publish", Continue(r, step, next)
        PROVE  Publishing(b)' \subseteq Publishing(b)
    BY <1>2 DEF Continue
  <1>3. CASE Proceed(r)
    <2>1. \A s \in DOMAIN FollowUp : FollowUp[s].next # "publish"
      BY StepNames
    <2> QED
      BY <1>2, <1>3, <2>1
      DEF Proceed, CommitPublish, CommitUnpublish, CommitRemove, CommitEdit, SuspendBusiness,
          SuspendListing, MakeFollowUp
  <1>4. ASSUME NEW endpoint, NEW step, NEW c \in Business, step # "publish", Begin(r, endpoint, step, c)
        PROVE  Publishing(b)' \subseteq Publishing(b)
    BY <1>4 DEF Begin
  <1>5. ASSUME NEW c \in Business, NEW u \in User, BeginPublish(r, u, c)
        PROVE  Publishing(b)' \subseteq Publishing(b) \/ biz[b].status = "DRAFT"
    <2>1. CASE c # b
      BY <1>5, <2>1 DEF BeginPublish, Begin
    <2>2. CASE c = b
      BY <1>5, <2>2 DEF BeginPublish, PublishPasses, CanTransition, BusinessMachine, Row, BusinessStatus
    <2> QED
      BY <2>1, <2>2
  <1>6. CASE Arrive(r)
    BY <1>4, <1>5, <1>6
    DEF Arrive, CreateBusiness, BeginSuspend, RefusePublish, BeginUnpublish, BeginChange
  <1> QED
    BY <1>1, <1>3, <1>6

\* A commit takes its handler off the list and adds one publication.
LEMMA CommitPublishCounts ==
    ASSUME TypeOK, NEW r \in Request, NEW b \in Business, CommitPublish(r), call[r].biz = b
    PROVE  /\ publications'[b] = publications[b] + 1
           /\ Cardinality(Publishing(b)') + 1 = Cardinality(Publishing(b))
           /\ Cardinality(Publishing(b)') \in Nat
  <1>1. r \in Publishing(b)
    BY DEF CommitPublish, Continue, Publishing, Handler, TypeOK, Idle
  <1>2. Publishing(b)' = Publishing(b) \ {r}
    BY DEF CommitPublish, Continue, Publishing, Handler, TypeOK, Idle
  <1>3. IsFiniteSet(Publishing(b))
    BY RequestAssumption, FS_Subset DEF Publishing
  <1>4. /\ Cardinality(Publishing(b) \ {r}) = Cardinality(Publishing(b)) - 1
        /\ Cardinality(Publishing(b)) \in Nat
    BY <1>1, <1>3, FS_RemoveElement, FS_CardinalityType
  <1>5. Cardinality(Publishing(b)') \in Nat
    BY <1>2, PublishingCount DEF Publishing
  <1> QED
    BY <1>2, <1>4, <1>5 DEF CommitPublish, TypeOK

LEMMA PublicationsStep == PublicationsInv /\ [Next]_bizVars => PublicationsInv'
  <1> SUFFICES ASSUME PublicationsInv, [Next]_bizVars PROVE PublicationsInv'
    OBVIOUS
  <1> TypeOK /\ TypeOK'
    BY TypeStep DEF PublicationsInv
  <1>1. CASE UNCHANGED bizVars
    BY <1>1 DEF bizVars, PublicationsInv, PublicationsBounded
  <1>2. CASE Next
    <2>1. ASSUME NEW b \in Business, biz'[b].status \in {"ABSENT", "DRAFT"}
          PROVE  publications'[b] = 0
      <3>1. biz[b].status \in {"ABSENT", "DRAFT"} /\ publications[b] = 0
        BY <1>2, <2>1, DraftStep DEF PublicationsInv
      <3>2. ASSUME NEW r \in Request, CommitPublish(r), call[r].biz = b
            PROVE  FALSE
        BY <2>1, <3>2 DEF CommitPublish, SetStatus, TypeOK
      <3> QED
        BY <1>2, <3>1, <3>2, DraftStep
    <2>2. ASSUME NEW b \in Business \ Seeded
          PROVE  publications'[b] + Cardinality(Publishing(b)') <= Cardinality(Request)
      <3>0. /\ publications[b] + Cardinality(Publishing(b)) <= Cardinality(Request)
            /\ publications[b] \in Nat /\ publications'[b] \in Nat
        BY DEF PublicationsInv, PublicationsBounded, Publishing, TypeOK
      <3>1. /\ Publishing(b) \subseteq Request /\ Publishing(b)' \subseteq Request
            /\ Cardinality(Publishing(b)) \in Nat /\ Cardinality(Publishing(b)') \in Nat
            /\ Cardinality(Publishing(b)') <= Cardinality(Request) /\ Cardinality(Request) \in Nat
        BY PublishingCount DEF Publishing
      <3>2. CASE \E r \in Request : CommitPublish(r) /\ call[r].biz = b
        BY <3>0, <3>1, <3>2, CommitPublishCounts
      <3>3. CASE publications'[b] = publications[b] /\ Publishing(b)' \subseteq Publishing(b)
        <4>1. Cardinality(Publishing(b)') <= Cardinality(Publishing(b))
          BY <3>1, <3>3, PublishingCount
        <4> QED
          BY <3>0, <3>1, <3>3, <4>1
      <3>4. CASE publications'[b] = publications[b] /\ biz[b].status = "DRAFT"
        <4>1. publications[b] = 0
          BY <3>4 DEF PublicationsInv
        <4> QED
          BY <3>1, <3>4, <4>1
      <3> QED
        BY <1>2, <3>2, <3>3, <3>4, DraftStep, PublishingStep
    <2> QED
      BY <2>1, <2>2 DEF PublicationsInv, PublicationsBounded, Publishing
  <1> QED
    BY <1>1, <1>2

\* A business goes on the market at most once per handler the server runs at a
\* time; in particular once, if it runs one.
THEOREM MarketedBoundedly == Spec => []PublicationsBounded
  <1>1. Init => PublicationsInv
    <2> SUFFICES ASSUME Init PROVE PublicationsInv
      OBVIOUS
    <2>1. ASSUME NEW b \in Business \ Seeded
          PROVE  publications[b] + Cardinality(Publishing(b)) <= Cardinality(Request)
      <3>1. Publishing(b) = {} /\ publications[b] = 0
        BY DEF Init, Publishing, Handler, Idle
      <3>2. Cardinality(Publishing(b)) = 0 /\ Cardinality(Request) \in Nat
        BY <3>1, FS_EmptySet, RequestAssumption, FS_CardinalityType
      <3> QED
        BY <3>1, <3>2
    <2>2. ASSUME NEW b \in Business, biz[b].status \in {"ABSENT", "DRAFT"}
          PROVE  publications[b] = 0
      BY <2>2 DEF Init, SeedRow
    <2> QED
      BY <2>1, <2>2, InitType DEF PublicationsInv, PublicationsBounded, Publishing
  <1>2. PublicationsInv => PublicationsBounded
    BY DEF PublicationsInv
  <1> QED
    BY <1>1, <1>2, PublicationsStep, PTL DEF Spec

-----------------------------------------------------------------------------
(* Suspensions are on record. *)

\* Both records of a suspension are watched, and no handler fails.
RecordsKept == ~ MayFail /\ {"admin action", "audit suspended"} \subseteq Watched

\* A handler that is suspending a business goes on until it has made both of its records.
LEMMA SuspendingGoesOn ==
    ASSUME TypeOK, RecordsKept, Next, NEW r \in Request, NEW b \in Business,
           call[r] # Idle, call[r].biz = b
    PROVE  /\ call[r].at = "suspendListing" =>
                  call'[r] = call[r] \/ call'[r] = Handler("suspended", b)
           /\ call[r].at = "suspended" =>
                  \/ call'[r] = call[r]
                  \/ call'[r] = Handler("suspendedAudit", b) /\ <<"admin action", b>> \in journal'
           /\ call[r].at = "suspendedAudit" =>
                  call'[r] = call[r] \/ <<"audit suspended", b>> \in journal'
  <1> USE DEF TypeOK
  <1> PICK q \in Request : Arrive(q) \/ Proceed(q) \/ Fail(q)
    BY DEF Next
  <1>1. CASE Fail(q)
    BY <1>1 DEF Fail, RecordsKept
  <1>2. ASSUME NEW endpoint, NEW step, NEW c, Begin(q, endpoint, step, c)
        PROVE  call'[r] = call[r]
    BY <1>2 DEF Begin
  <1>3. CASE Arrive(q)
    BY <1>2, <1>3 DEF Arrive, CreateBusiness, BeginPublish, RefusePublish, BeginUnpublish, BeginChange,
                      BeginSuspend
  <1>4. ASSUME NEW step, NEW next, Continue(q, step, next),
               step \notin {"suspendListing", "suspended", "suspendedAudit"}
        PROVE  \/ call'[r] = call[r]
               \/ call[r].at \notin {"suspendListing", "suspended", "suspendedAudit"}
    BY <1>4 DEF Continue
  <1>5. CASE CommitPublish(q) \/ CommitUnpublish(q) \/ CommitRemove(q) \/ SuspendBusiness(q)
    <2>1. \/ Continue(q, "publish", "published")
          \/ Continue(q, "unpublish", "unpublished")
          \/ Continue(q, "remove", "removed")
          \/ Continue(q, "suspend", "suspendListing")
      BY <1>5 DEF CommitPublish, CommitUnpublish, CommitRemove, SuspendBusiness
    <2>2. call'[r] = call[r] \/ call[r].at \notin {"suspendListing", "suspended", "suspendedAudit"}
      BY <1>4, <2>1
    <2> QED
      BY <2>2
  <1>6. ASSUME NEW present, \/ CommitEdit(q, "update", "details", present)
                            \/ CommitEdit(q, "updateListing", "askingPrice", present)
        PROVE  \/ call'[r] = call[r]
               \/ call[r].at \notin {"suspendListing", "suspended", "suspendedAudit"}
    BY <1>4, <1>6 DEF CommitEdit
  <1>7. CASE SuspendListing(q)
    BY <1>7 DEF SuspendListing, Continue
  <1>8. CASE MakeFollowUp(q)
    <2>1. PICK step \in DOMAIN FollowUp : /\ Continue(q, step, FollowUp[step].next)
                                          /\ Note(FollowUp[step].write, call[q].biz)
      BY <1>8 DEF MakeFollowUp
    <2>2. "suspendListing" \notin DOMAIN FollowUp
      BY StepNames
    <2>3. CASE step \notin {"suspended", "suspendedAudit"}
      BY <1>4, <2>1, <2>2, <2>3
    <2>4. CASE q # r
      BY <2>1, <2>4 DEF Continue
    <2>5. CASE q = r /\ step = "suspended"
      <3>1. FollowUp[step].next = "suspendedAudit" /\ FollowUp[step].write = "admin action"
        BY <2>5 DEF FollowUp
      <3> QED
        BY <2>1, <2>5, <3>1 DEF Continue, Note, RecordsKept
    <2>6. CASE q = r /\ step = "suspendedAudit"
      <3>1. FollowUp[step].write = "audit suspended"
        BY <2>6 DEF FollowUp
      <3> QED
        BY <2>1, <2>6, <3>1 DEF Continue, Note, RecordsKept
    <2> QED
      BY <2>3, <2>4, <2>5, <2>6
  <1>9. CASE Proceed(q)
    BY <1>5, <1>6, <1>7, <1>8, <1>9 DEF Proceed
  <1> QED
    BY <1>1, <1>3, <1>9

\* Only the first statement of a suspension makes a business SUSPENDED, and no record is lost.
LEMMA SuspendedBySuspension ==
    ASSUME TypeOK, Next, NEW b \in Business
    PROVE  /\ journal \subseteq journal'
           /\ biz'[b].status = "SUSPENDED" =>
                  biz[b].status = "SUSPENDED" \/ InFlight({"suspendListing"}, b)'
  <1> USE DEF TypeOK, Row
  <1> PICK r \in Request : Arrive(r) \/ Proceed(r) \/ Fail(r)
    BY DEF Next
  <1>1. journal \subseteq journal'
    BY DEF Arrive, Proceed, Fail, CreateBusiness, BeginPublish, RefusePublish, BeginUnpublish,
           BeginChange, BeginSuspend, CommitPublish, CommitUnpublish, CommitRemove, CommitEdit,
           SuspendBusiness, SuspendListing, MakeFollowUp, Note
  <1>2. CASE UNCHANGED biz
    BY <1>1, <1>2
  <1>3. ASSUME NEW c \in Business, NEW filled \in SUBSET {"details"}, CreateBusiness(r, c, filled)
        PROVE  biz'[b].status = "SUSPENDED" => biz[b].status = "SUSPENDED"
    BY <1>3 DEF CreateBusiness
  <1>4. CASE CommitPublish(r) \/ CommitUnpublish(r) \/ SuspendListing(r)
    BY <1>1, <1>4 DEF CommitPublish, CommitUnpublish, SuspendListing, SetStatus
  <1>5. CASE SuspendBusiness(r)
    <2>1. CASE call[r].biz = b
      <3>1. call'[r] = Handler("suspendListing", b)
        BY <1>5, <2>1 DEF SuspendBusiness, Continue
      <3> QED
        BY <1>1, <3>1 DEF InFlight, Handler, Idle
    <2>2. CASE call[r].biz # b
      BY <1>1, <1>5, <2>2 DEF SuspendBusiness, SetStatus
    <2> QED
      BY <2>1, <2>2
  <1>6. CASE CommitRemove(r)
    BY <1>1, <1>6 DEF CommitRemove
  <1>7. ASSUME NEW step, NEW field, NEW present, CommitEdit(r, step, field, present)
        PROVE  biz'[b].status = "SUSPENDED" => biz[b].status = "SUSPENDED"
    BY <1>7 DEF CommitEdit
  <1> QED
    BY <1>1, <1>2, <1>3, <1>4, <1>5, <1>6, <1>7
    DEF Arrive, Proceed, Fail, BeginPublish, RefusePublish, BeginUnpublish, BeginChange,
        BeginSuspend, MakeFollowUp

\* A step of Businesses loses no record that is owed.
LEMMA RecordedStep ==
    ASSUME TypeOK, RecordsKept, SuspensionRecorded, [Next]_bizVars
    PROVE  SuspensionRecorded'
  <1>1. CASE UNCHANGED bizVars
    BY <1>1 DEF bizVars, SuspensionRecorded, InFlight
  <1>2. CASE Next
    <2> SUFFICES ASSUME NEW b \in Business, biz'[b].status = "SUSPENDED"
                 PROVE  /\ \/ <<"admin action", b>> \in journal'
                           \/ InFlight({"suspendListing", "suspended"}, b)'
                        /\ \/ <<"audit suspended", b>> \in journal'
                           \/ InFlight({"suspendListing", "suspended", "suspendedAudit"}, b)'
      BY DEF SuspensionRecorded
    <2>1. /\ journal \subseteq journal'
          /\ biz[b].status = "SUSPENDED" \/ InFlight({"suspendListing"}, b)'
      BY <1>2, SuspendedBySuspension
    <2>2. CASE InFlight({"suspendListing"}, b)'
      BY <2>2 DEF InFlight
    <2> DEFINE Goes(r, step) == call'[r] = Handler(step, b)
    <2>6. ASSUME NEW r \in Request, NEW step \in {"suspended", "suspendedAudit"}, Goes(r, step)
          PROVE  call'[r] # Idle /\ call'[r].at = step /\ call'[r].biz = b
      BY <2>6 DEF Handler, Idle
    <2> HIDE DEF Goes
    <2>7. \A r \in Request : /\ call'[r] = Handler("suspended", b) => Goes(r, "suspended")
                             /\ call'[r] = Handler("suspendedAudit", b) => Goes(r, "suspendedAudit")
      BY DEF Goes
    <2>3. ASSUME NEW r \in Request, call[r] # Idle, call[r].biz = b,
                 call[r].at \in {"suspendListing", "suspended"}
          PROVE  <<"admin action", b>> \in journal' \/ InFlight({"suspendListing", "suspended"}, b)'
      <3>1. call'[r] = call[r] \/ Goes(r, "suspended") \/ <<"admin action", b>> \in journal'
        BY <1>2, <2>3, <2>7, SuspendingGoesOn
      <3> QED
        BY <2>3, <2>6, <3>1 DEF InFlight
    <2>4. ASSUME NEW r \in Request, call[r] # Idle, call[r].biz = b,
                 call[r].at \in {"suspendListing", "suspended", "suspendedAudit"}
          PROVE  \/ <<"audit suspended", b>> \in journal'
                 \/ InFlight({"suspendListing", "suspended", "suspendedAudit"}, b)'
      <3>1. \/ call'[r] = call[r] \/ Goes(r, "suspended") \/ Goes(r, "suspendedAudit")
            \/ <<"audit suspended", b>> \in journal'
        BY <1>2, <2>4, <2>7, SuspendingGoesOn
      <3> QED
        BY <2>4, <2>6, <3>1 DEF InFlight
    <2>5. CASE biz[b].status = "SUSPENDED"
      BY <2>1, <2>3, <2>4, <2>5 DEF SuspensionRecorded, InFlight
    <2> QED
      BY <2>1, <2>2, <2>5
  <1> QED
    BY <1>1, <1>2

\* The seed suspends nothing.
LEMMA NothingSuspended == ASSUME Init PROVE SuspensionRecorded
  BY DEF Init, SuspensionRecorded, NoRow, SeedRow

\* No silent admin action: unless its handler fails, a suspended business has its AdminAction
\* row and its AuditLog row, or they are on their way, whoever overwrites its status meanwhile.
THEOREM SuspensionsAreRecorded == RecordsKept /\ Spec => []SuspensionRecorded
  <1>1. RecordsKept /\ TypeOK /\ SuspensionRecorded /\ [Next]_bizVars => SuspensionRecorded'
    BY RecordedStep
  <1>2. RecordsKept /\ Init => SuspensionRecorded
    BY NothingSuspended
  <1>3. CASE RecordsKept
    <2>1. TypeOK /\ SuspensionRecorded /\ [Next]_bizVars => SuspensionRecorded'
      BY <1>1, <1>3
    <2>2. Init => SuspensionRecorded
      BY <1>2, <1>3
    <2> QED
      BY <2>1, <2>2, TypeCorrect, PTL DEF Spec
  <1> QED
    BY <1>3

=============================================================================
