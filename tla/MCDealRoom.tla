----------------------------- MODULE MCDealRoom -----------------------------
(* Small deal rooms: each scenario uses some of the room's services. *)
EXTENDS DealRoom, TLC

CONSTANTS buyer, seller, lawyer, t1, q1, q2, a1, a2, v1, v2, v3, w1, d1, r1, r2

Quiet == [calls |-> {}, fails |-> TRUE, people |-> {buyer, seller}, targets |-> {}, given |-> {},
          watched |-> {}, versions |-> 0, events |-> 0, elsewhere |-> {}]

\* The whole lifecycle of the deal; one caller, whose calls overlap, stands for all
\* who manage.
Lifecycle == [Quiet EXCEPT !.calls = {"updateStatus"}, !.people = {buyer}, !.targets = DealStatus \ {"INITIATED"}]

\* Three people give each other roles, the third an administrator.
Roles == [Quiet EXCEPT !.calls = {"updateStatus", "addParticipant"},
                       !.people = User, !.targets = {"NDA"}, !.given = {"SELLER", "LAWYER"}]

\* Statuses, participants and tasks, and what the timeline tells of them.
Timeline == [Quiet EXCEPT !.calls = {"updateStatus", "addParticipant", "createTask", "updateTask"},
                          !.fails = FALSE, !.targets = {"NDA", "CANCELLED"}, !.given = {"LAWYER"},
                          !.watched = {"DEAL_STATUS_CHANGED", "PARTICIPANT_ADDED",
                                       "TASK_CREATED", "TASK_COMPLETED"}]

Diligence == [Quiet EXCEPT !.calls = {"requestDiligence", "updateItem"}, !.fails = FALSE,
                           !.watched = {"DUE_DILIGENCE_REQUESTED", "DUE_DILIGENCE_ITEM_UPDATED"}]

\* Two agreements and two versions, one of them of another deal, signed at will.
Signing == [Quiet EXCEPT !.calls = {"createAgreement", "addVersion", "sign"}, !.versions = 1]

\* The buyer signs here, the seller and a stranger through another deal, and what the
\* timeline tells.
SigningTold == [Signing EXCEPT !.fails = FALSE, !.watched = {"AGREEMENT_SIGNED"},
                               !.people = {buyer}, !.elsewhere = {seller, lawyer}]

Versions == [Quiet EXCEPT !.calls = {"createAgreement", "addVersion"}, !.versions = 3]

\* A deal on its way to the payment, and the provider's events about it.
Paying == [Quiet EXCEPT !.calls = {"updateStatus", "pay", "webhook"}, !.people = {buyer},
                        !.events = 2, !.targets = {"NDA", "DUE_DILIGENCE", "AGREEMENT", "TRANSACTION", "CANCELLED"}]

\* A document is uploaded to this room, to another one the buyer is in, or to none,
\* granted, downloaded and deleted; then what is logged of it.
Filing == [Quiet EXCEPT !.calls = {"upload", "download", "grant", "revoke", "removeDocument"},
                        !.watched = {"DOWNLOADED"}, !.elsewhere = {buyer}]

FilingLogged == [Filing EXCEPT !.calls = @ \ {"download"}, !.fails = FALSE, !.elsewhere = {},
                               !.watched = {"UPLOADED", "DOCUMENT_UPLOADED", "DELETED",
                                            "ACCESS_GRANTED", "ACCESS_REVOKED"}]

Safe == {Filing, FilingLogged, Lifecycle, Roles, Timeline, Diligence, Signing, SigningTold, Versions, Paying}

\* Everybody hears of a status, and of a request.
Heard == [Quiet EXCEPT !.calls = {"updateStatus"}, !.fails = FALSE, !.people = User,
                       !.targets = {"NDA", "CANCELLED"}, !.watched = {"DEAL_STATUS_CHANGED"}]

HeardRequest == [Quiet EXCEPT !.calls = {"requestDiligence", "addParticipant"},
                              !.fails = FALSE, !.people = User, !.given = {"LAWYER"},
                              !.watched = {"DUE_DILIGENCE_REQUESTED"}]

Paid == [Paying EXCEPT !.fails = FALSE, !.targets = @ \ {"CANCELLED"}]

Live == {Heard, HeardRequest, Paid}

PayingOnly == {Paying}

\* The provider's events.
PaidThenRefunded == <<"succeeded", "refunded">>

OtherThenPaid == <<"ignored", "succeeded">>

RoomSymmetry ==
    Permutations(Request) \cup Permutations(Agreement) \cup Permutations(DiligenceRequest)

=============================================================================
