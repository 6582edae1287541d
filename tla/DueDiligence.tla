---------------------------- MODULE DueDiligence ----------------------------
(***************************************************************************)
(* DueDiligenceService in a deal room: requests with their items, next to  *)
(* the handlers of Deals, whose slots and timeline it shares.              *)
(***************************************************************************)
EXTENDS Deals

CONSTANT DiligenceRequest   \* ids of due diligence requests

\* The item statuses clients set; the other four act as these do.
ItemStatus == {"UPLOADED", "APPROVED"}

VARIABLES
    item,       \* the status of the item of each request, one item each
    audience    \* history: who was in the room when a request was inserted

diligenceVars == <<item, audience>>

Requested(q)      == Event("DUE_DILIGENCE_REQUESTED", q, "REQUESTED")
ItemUpdated(q, s) == Event("DUE_DILIGENCE_ITEM_UPDATED", q, s)

-----------------------------------------------------------------------------
(***************************************************************************)
(* POST /deals/:dealId/due-diligence: the request and its items are one    *)
(* nested insert; then the event, and everybody else is told.              *)
(***************************************************************************)
BeginRequest(r, u) ==
    /\ Participant(u)
    /\ Begin(r, "requestDiligence", [at |-> "insertRequest", user |-> u])
    /\ UNCHANGED <<dealVars, diligenceVars>>

InsertRequest(r, q) ==
    /\ At(r, "insertRequest")
    /\ item[q] = "ABSENT"
    /\ item' = [item EXCEPT ![q] = "REQUESTED"]
    /\ audience' = [audience EXCEPT ![q] = Participants \ {call[r].user}]
    /\ Go(r, RecordAndTell(call[r].user, Requested(q)))
    /\ UNCHANGED dealVars

(***************************************************************************)
(* PATCH .../due-diligence/items/:itemId: any participant, any status, and *)
(* no machine.  Items are never deleted, so the lookup is the check.       *)
(***************************************************************************)
BeginUpdateItem(r, u, q, to) ==
    /\ Participant(u)
    /\ item[q] # "ABSENT"
    /\ Begin(r, "updateItem", [at |-> "writeItem", user |-> u, item |-> q, to |-> to])
    /\ UNCHANGED <<dealVars, diligenceVars>>

WriteItem(r) ==
    /\ At(r, "writeItem")
    /\ item' = [item EXCEPT ![call[r].item] = call[r].to]
    /\ Go(r, Record(call[r].user, ItemUpdated(call[r].item, call[r].to)))
    /\ UNCHANGED <<dealVars, audience>>

-----------------------------------------------------------------------------
DiligenceInit ==
    /\ item = [q \in DiligenceRequest |-> "ABSENT"]
    /\ audience = [q \in DiligenceRequest |-> {}]

DiligenceArrive(r) ==
    \E u \in scenario.people :
        \/ BeginRequest(r, u)
        \/ \E q \in DiligenceRequest, to \in ItemStatus : BeginUpdateItem(r, u, q, to)

DiligenceProceed(r) ==
    \/ \E q \in DiligenceRequest : InsertRequest(r, q)
    \/ WriteItem(r)

-----------------------------------------------------------------------------
DiligenceHandler ==
    [at : {"insertRequest"}, user : User]
    \cup [at : {"writeItem"}, user : User, item : DiligenceRequest, to : ItemStatus]

DiligenceRowsOK ==
    /\ item \in [DiligenceRequest -> ItemStatus \cup {"ABSENT", "REQUESTED"}]
    /\ audience \in [DiligenceRequest -> SUBSET User]

\* Without failures every request, and the status every item has, is told on the
\* timeline of the room or about to be, whoever overwrote whom.
DiligenceTold ==
    \A q \in DiligenceRequest :
        /\ item[q] # "ABSENT" => Told(Requested(q))
        /\ item[q] \notin {"ABSENT", "REQUESTED"} => Told(ItemUpdated(q, item[q]))

\* Whoever was in the room when a request was made is eventually told of it, also
\* those whose role changes in the meantime.
RequestHeard ==
    \A q \in DiligenceRequest, v \in User :
        v \in audience[q] ~> {v} \X Kept(Requested(q)) \subseteq notices

=============================================================================
