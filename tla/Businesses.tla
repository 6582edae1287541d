----------------------------- MODULE Businesses -----------------------------
(***************************************************************************)
(* BusinessesService and the suspension handler of AdminService over the   *)
(* tables "businesses" and "business_listings".                            *)
(*                                                                         *)
(* A handler is a sequence of awaited database calls; the server runs any  *)
(* number of handlers at once and they interleave at every await.  A       *)
(* handler in flight therefore occupies a slot of Request and remembers    *)
(* the step it will take next.  A Begin... action is the read (and the     *)
(* checks) a handler opens with; the write it leads to is a later action   *)
(* that looks at nothing but what the handler remembers, unless the SQL    *)
(* itself has a condition.  What happens after the write (audit row,       *)
(* notification, queue job) is a chain of further awaits: FollowUp.        *)
(***************************************************************************)
EXTENDS Naturals, FiniteSets, StateMachine

CONSTANTS
    User,                 \* accounts
    Admin,                \* accounts whose role is ADMIN
    Business,             \* business ids
    Owner,                \* the account that creates each business
    Seeded,               \* businesses prisma/seed.ts has put in the database
    Request,              \* slots for handlers in flight
    Calls,                \* the endpoints the clients of this instance use
    Watched,              \* the follow-up writes this instance records
    MayFail,              \* may an await reject, or the process die?
    OwnerViewHidesPrice   \* does findOwned blank askingPriceMinor?

ASSUME UserAssumption == Admin \subseteq User /\ Owner \in [Business -> User]
ASSUME SeedAssumption == Seeded \subseteq Business
ASSUME RequestAssumption == IsFiniteSet(Request)
ASSUME SwitchAssumption == MayFail \in BOOLEAN /\ OwnerViewHidesPrice \in BOOLEAN

VARIABLES
    biz,            \* the business row and its listing row
    call,           \* the handler in each slot of Request
    publications,   \* history: how often each business was put on the market
    journal         \* the watched follow-up writes made so far

bizVars == <<biz, call, publications, journal>>

-----------------------------------------------------------------------------
(* Rows. *)

\* The lifecycle the service declares.
BusinessMachine ==
    [ DRAFT          |-> {"PENDING_REVIEW", "ARCHIVED"},
      PENDING_REVIEW |-> {"PUBLISHED", "REJECTED", "DRAFT"},
      PUBLISHED      |-> {"PAUSED", "SOLD", "SUSPENDED", "ARCHIVED"},
      PAUSED         |-> {"PUBLISHED", "ARCHIVED"},
      REJECTED       |-> {"DRAFT"},
      SUSPENDED      |-> {"PUBLISHED", "ARCHIVED"},
      SOLD           |-> {"ARCHIVED"},
      ARCHIVED       |-> {} ]

\* The statuses a row really takes.  No operation writes the other three of
\* the declared lifecycle, so approveBusiness and rejectBusiness, whose UPDATE
\* demands PENDING_REVIEW, never change a row.
BusinessStatus == {"ABSENT", "DRAFT", "PUBLISHED", "PAUSED", "SUSPENDED", "SOLD"}
ListingStatus  == {"ABSENT", "DRAFT", "PUBLISHED", "UNPUBLISHED", "SUSPENDED", "SOLD"}

\* The fields publish requires: the four texts of the business, which
\* PATCH /businesses/:id sets, and the price, which PATCH .../listing sets.
Field == {"details", "askingPrice"}

Row == [status : BusinessStatus, listing : ListingStatus,
        deleted : BOOLEAN, filled : SUBSET Field]

NoRow == [status |-> "ABSENT", listing |-> "ABSENT", deleted |-> FALSE, filled |-> {}]

SeedRow == [status |-> "PUBLISHED", listing |-> "PUBLISHED", deleted |-> FALSE, filled |-> Field]

\* The row findOwned returns.  serializeListing replaces askingPriceMinor by
\* askingPrice, so the caller finds the former undefined.
OwnerView(row) ==
    IF OwnerViewHidesPrice THEN [row EXCEPT !.filled = @ \ {"askingPrice"}] ELSE row

\* calculateCompleteness(view).score = 100
IsComplete(view) == Field \subseteq view.filled

\* canManage and the deletedAt check of findOwned.
Manages(u, b) ==
    /\ biz[b].status # "ABSENT"
    /\ ~ biz[b].deleted
    /\ u = Owner[b] \/ u \in Admin

\* An UPDATE of the business row and of its listing row in one transaction.
SetStatus(b, status, listing) ==
    biz' = [biz EXCEPT ![b].status = status, ![b].listing = listing]

-----------------------------------------------------------------------------
(* Handlers in flight. *)

WriteStep == {"publish", "unpublish", "remove", "update", "updateListing",
              "suspend", "suspendListing"}

\* After its last write a handler makes these calls, one await each.
FollowUp ==
    [ created          |-> [write |-> "audit created",     next |-> "idle"],
      published        |-> [write |-> "audit published",   next |-> "publishedAlert"],
      publishedAlert   |-> [write |-> "queue alerts",      next |-> "idle"],
      unpublished      |-> [write |-> "audit unpublished", next |-> "idle"],
      removed          |-> [write |-> "audit deleted",     next |-> "idle"],
      suspended        |-> [write |-> "admin action",      next |-> "suspendedAudit"],
      suspendedAudit   |-> [write |-> "audit suspended",   next |-> "suspendedNotice"],
      suspendedNotice  |-> [write |-> "notify owner",      next |-> "idle"] ]

Step == WriteStep \cup DOMAIN FollowUp

Idle == [at |-> "idle"]

Handler(step, b) == IF step = "idle" THEN Idle ELSE [at |-> step, biz |-> b]

InFlight(steps, b) ==
    \E r \in Request : call[r] # Idle /\ call[r].at \in steps /\ call[r].biz = b

\* A free slot takes a call of the endpoint and remembers its first write.
Begin(r, endpoint, step, b) ==
    /\ endpoint \in Calls
    /\ call[r] = Idle
    /\ call' = [call EXCEPT ![r] = Handler(step, b)]

\* The handler in slot r is about to make this step; then it goes on to next.
Continue(r, step, next) ==
    /\ call[r] # Idle /\ call[r].at = step
    /\ call' = [call EXCEPT ![r] = Handler(next, call[r].biz)]

Note(write, b) == journal' = journal \cup ({<<write, b>>} \cap (Watched \X {b}))

-----------------------------------------------------------------------------
Init ==
    /\ biz = [b \in Business |-> IF b \in Seeded THEN SeedRow ELSE NoRow]
    /\ call = [r \in Request |-> Idle]
    /\ publications = [b \in Business |-> IF b \in Seeded THEN 1 ELSE 0]
    /\ journal = {}

(***************************************************************************)
(* POST /businesses: the business and its listing are inserted as drafts,  *)
(* with or without the optional texts, and no price.                       *)
(***************************************************************************)
CreateBusiness(r, b, filled) ==
    /\ biz[b].status = "ABSENT"
    /\ Begin(r, "create", "created", b)
    /\ biz' = [biz EXCEPT ![b] = [status |-> "DRAFT", listing |-> "DRAFT",
                                  deleted |-> FALSE, filled |-> filled]]
    /\ UNCHANGED <<publications, journal>>

(***************************************************************************)
(* POST /businesses/:id/publish.  The status is checked as a step to       *)
(* PENDING_REVIEW, and the completeness on the row findOwned returned; the *)
(* transaction that follows is unconditional and writes PUBLISHED.         *)
(***************************************************************************)
\* Slip: the status is checked for nothing, any complete business passes.
PublishPassesAnyStatus(b) == IsComplete(OwnerView(biz[b]))

\* Slip: the status is checked as a step to PUBLISHED.
PublishPassesToPublished(b) ==
    /\ CanTransition(BusinessMachine, biz[b].status, "PUBLISHED")
    /\ IsComplete(OwnerView(biz[b]))

PublishPasses(b) ==
    /\ CanTransition(BusinessMachine, biz[b].status, "PENDING_REVIEW")
    /\ IsComplete(OwnerView(biz[b]))

BeginPublish(r, u, b) ==
    /\ Manages(u, b)
    /\ PublishPasses(b)
    /\ Begin(r, "publish", "publish", b)
    /\ UNCHANGED <<biz, publications, journal>>

\* The refusal a complete-looking draft may get: 409 LISTING_INCOMPLETE.
RefusePublish(u, b) ==
    /\ "publish" \in Calls
    /\ Manages(u, b)
    /\ CanTransition(BusinessMachine, biz[b].status, "PENDING_REVIEW")
    /\ ~ IsComplete(OwnerView(biz[b]))
    /\ Note("refused as incomplete", b)
    /\ UNCHANGED <<biz, call, publications>>

\* Slip: the status that was checked is the status that is written.
CommitPublishForReview(r) ==
    /\ Continue(r, "publish", "published")
    /\ SetStatus(call[r].biz, "PENDING_REVIEW", "DRAFT")
    /\ UNCHANGED <<publications, journal>>

\* Slip: no audit row and no queue job after the commit.
CommitPublishSilently(r) ==
    /\ Continue(r, "publish", "idle")
    /\ SetStatus(call[r].biz, "PUBLISHED", "PUBLISHED")
    /\ publications' = [publications EXCEPT ![call[r].biz] = @ + 1]
    /\ UNCHANGED journal

CommitPublish(r) ==
    /\ Continue(r, "publish", "published")
    /\ SetStatus(call[r].biz, "PUBLISHED", "PUBLISHED")
    /\ publications' = [publications EXCEPT ![call[r].biz] = @ + 1]
    /\ UNCHANGED journal

(***************************************************************************)
(* POST /businesses/:id/unpublish: checked, then written unconditionally.  *)
(***************************************************************************)
BeginUnpublish(r, u, b) ==
    /\ Manages(u, b)
    /\ CanTransition(BusinessMachine, biz[b].status, "PAUSED")
    /\ Begin(r, "unpublish", "unpublish", b)
    /\ UNCHANGED <<biz, publications, journal>>

\* Slip: the listing row is forgotten.
CommitUnpublishBusinessOnly(r) ==
    /\ Continue(r, "unpublish", "unpublished")
    /\ SetStatus(call[r].biz, "PAUSED", biz[call[r].biz].listing)
    /\ UNCHANGED <<publications, journal>>

CommitUnpublish(r) ==
    /\ Continue(r, "unpublish", "unpublished")
    /\ SetStatus(call[r].biz, "PAUSED", "UNPUBLISHED")
    /\ UNCHANGED <<publications, journal>>

(***************************************************************************)
(* DELETE /businesses/:id, PATCH /businesses/:id, PATCH .../listing.       *)
(***************************************************************************)
BeginChange(r, u, b, step) ==
    /\ Manages(u, b)
    /\ Begin(r, step, step, b)
    /\ UNCHANGED <<biz, publications, journal>>

CommitRemove(r) ==
    /\ Continue(r, "remove", "removed")
    /\ biz' = [biz EXCEPT ![call[r].biz].deleted = TRUE]
    /\ UNCHANGED <<publications, journal>>

\* The texts may be blanked again, and a price of zero counts as missing.
CommitEdit(r, step, field, present) ==
    /\ Continue(r, step, "idle")
    /\ biz' = [biz EXCEPT ![call[r].biz].filled =
                  IF present THEN @ \cup {field} ELSE @ \ {field}]
    /\ UNCHANGED <<publications, journal>>

(***************************************************************************)
(* POST /admin/businesses/:id/suspend: from any status, deleted or not;    *)
(* the business and its listing are two statements outside a transaction.  *)
(***************************************************************************)
BeginSuspend(r, b) ==
    /\ Admin # {}
    /\ biz[b].status # "ABSENT"
    /\ Begin(r, "suspend", "suspend", b)
    /\ UNCHANGED <<biz, publications, journal>>

SuspendBusiness(r) ==
    /\ Continue(r, "suspend", "suspendListing")
    /\ SetStatus(call[r].biz, "SUSPENDED", biz[call[r].biz].listing)
    /\ UNCHANGED <<publications, journal>>

\* Slip: the administrator's action is not recorded.
SuspendListingUnrecorded(r) ==
    /\ Continue(r, "suspendListing", "suspendedNotice")
    /\ SetStatus(call[r].biz, biz[call[r].biz].status, "SUSPENDED")
    /\ UNCHANGED <<publications, journal>>

SuspendListing(r) ==
    /\ Continue(r, "suspendListing", "suspended")
    /\ SetStatus(call[r].biz, biz[call[r].biz].status, "SUSPENDED")
    /\ UNCHANGED <<publications, journal>>

\* recordAdminAction, AuditService.record, NotificationsService.create, Queue.add
MakeFollowUp(r) ==
    \E step \in DOMAIN FollowUp :
        /\ Continue(r, step, FollowUp[step].next)
        /\ Note(FollowUp[step].write, call[r].biz)
        /\ UNCHANGED <<biz, publications>>

\* An await rejects or the process dies: the rest of the handler never runs.
Fail(r) ==
    /\ MayFail
    /\ call[r] # Idle
    /\ call' = [call EXCEPT ![r] = Idle]
    /\ UNCHANGED <<biz, publications, journal>>

-----------------------------------------------------------------------------
\* A client's call reaches the server.
Arrive(r) ==
    \E b \in Business :
        \/ \E filled \in SUBSET {"details"} : CreateBusiness(r, b, filled)
        \/ BeginSuspend(r, b)
        \/ \E u \in User :
              \/ BeginPublish(r, u, b)
              \/ RefusePublish(u, b)
              \/ BeginUnpublish(r, u, b)
              \/ \E step \in {"remove", "update", "updateListing"} : BeginChange(r, u, b, step)

\* The server takes the next step of the handler in slot r.
Proceed(r) ==
    \/ CommitPublish(r)
    \/ CommitUnpublish(r)
    \/ CommitRemove(r)
    \/ \E present \in BOOLEAN : \/ CommitEdit(r, "update", "details", present)
                                \/ CommitEdit(r, "updateListing", "askingPrice", present)
    \/ SuspendBusiness(r)
    \/ SuspendListing(r)
    \/ MakeFollowUp(r)

Next == \E r \in Request : Arrive(r) \/ Proceed(r) \/ Fail(r)

Spec == Init /\ [][Next]_bizVars

\* The event loop returns to every handler whose await has settled.  Nothing
\* makes a client call.
Fairness == \A r \in Request : WF_bizVars(Proceed(r))

FairSpec == Spec /\ Fairness

-----------------------------------------------------------------------------
(* What a reader of the code relies on. *)

\* Types of the rows, of the handlers in flight and of the history.
TypeOK ==
    /\ biz \in [Business -> Row]
    /\ call \in [Request -> {Idle} \cup [at : Step, biz : Business]]
    /\ publications \in [Business -> Nat]
    /\ journal \subseteq (Watched \X Business)

\* The listing status that goes with a business status.
ListingOf(status) ==
    IF status = "PAUSED" THEN "UNPUBLISHED" ELSE status

\* The two rows of a business tell the same story, although four handlers write
\* them and may overwrite each other: they part only around a suspension, which
\* writes them in two statements, and then one of the two is SUSPENDED.
ListingAgreement ==
    \A b \in Business :
        biz[b].listing # ListingOf(biz[b].status) => "SUSPENDED" \in {biz[b].status, biz[b].listing}

\* Off the market for good: paused, suspended or sold, and no publish that read
\* the row as a draft still on its way.
Retired(b) ==
    /\ biz[b].status \in {"PAUSED", "SUSPENDED", "SOLD"}
    /\ ~ InFlight({"publish"}, b)

\* A business once retired stays so: no sequence of calls, however interleaved,
\* puts a paused, suspended or sold business back on the market, although the
\* declared lifecycle lets PAUSED and SUSPENDED return to PUBLISHED.
RetiredStays == [][\A b \in Business : Retired(b) => Retired(b)']_bizVars

\* A business is put on the market at most as often as handlers can have read it
\* as a draft at one time: once if the server runs one handler at a time, once
\* per slot if calls of publish overlap (each then queues its own alerts).
PublicationsBounded ==
    \A b \in Business \ Seeded :
        publications[b] + Cardinality({r \in Request : call[r] = Handler("publish", b)})
            <= Cardinality(Request)

\* No silent admin action: a suspended business has its AdminAction row and its
\* AuditLog row, or the handler that suspended it is still on its way to them.
SuspensionRecorded ==
    \A b \in Business :
        biz[b].status = "SUSPENDED" =>
            /\ \/ <<"admin action", b>> \in journal
               \/ InFlight({"suspendListing", "suspended"}, b)
            /\ \/ <<"audit suspended", b>> \in journal
               \/ InFlight({"suspendListing", "suspended", "suspendedAudit"}, b)

\* What test/deal-flow.e2e-spec.ts says of publish: a draft whose fields are all
\* filled in is not refused as incomplete.
CompleteDraftsPublish ==
    [][\A b \in Business :
          <<"refused as incomplete", b>> \in journal' \ journal => Field # biz[b].filled]_bizVars

\* Every business put on the market by publish is eventually matched against the
\* saved searches: the queue job follows the commit (no failure assumed).
AlertsQueued ==
    \A b \in Business \ Seeded :
        publications[b] > 0 ~> <<"queue alerts", b>> \in journal

=============================================================================
