----------------------------- MODULE Documents -----------------------------
(***************************************************************************)
(* DocumentsService next to the handlers of Deals: the documents of the    *)
(* business that is sold, their access grants, their access log, and the   *)
(* objects in storage.  upload does not ask whether the deal it is given   *)
(* is about this business, so a document is in this room, in the room of   *)
(* another deal, or in none.                                               *)
(***************************************************************************)
EXTENDS Deals, Sequences

CONSTANT Document   \* document ids; the object of each is under a fresh key

VARIABLES
    document,   \* document rows
    stored,     \* the documents whose object is in storage
    grant,      \* the access grant of each document and user
    accessLog   \* the access log and the audit rows, as <<action, document, user>>

documentVars == <<document, stored, grant, accessLog>>

Place == {"here", "elsewhere", "outside"}

NoDocument == [by |-> "nobody"]

DocumentExists(d) == document[d] # NoDocument

NoGrant == [expiry |-> "absent", revoked |-> FALSE]

\* The business belongs to the seller.
OwnsDocuments(u) == u = Seller \/ u \in Admin

\* Takes part in the deal of a document in that place.
InRoom(place, u) ==
    \/ place = "here" /\ Participant(u)
    \/ place = "elsewhere" /\ u \in scenario.elsewhere

Granted(d, u) == ~ grant[d][u].revoked /\ grant[d][u].expiry \in {"never", "later"}

\* getAccessibleDocument
Accessible(d, u) ==
    /\ DocumentExists(d) /\ ~ document[d].deleted
    /\ \/ OwnsDocuments(u)
       \/ document[d].by = u
       \/ InRoom(document[d].place, u)
       \/ Granted(d, u)

\* A scenario watches the actions of the log as it does the timeline.
KeptEntry(entry) == IF entry[1] \in scenario.watched THEN {entry} ELSE {}

\* logAccess, and for an upload the audit row after it.
Logging(entries) == [at |-> "log", entries |-> entries]

LogAccess(r) ==
    /\ At(r, "log")
    /\ accessLog' = accessLog \cup KeptEntry(Head(call[r].entries))
    /\ Go(r, IF Len(call[r].entries) = 1 THEN Idle ELSE Logging(Tail(call[r].entries)))
    /\ UNCHANGED <<dealVars, document, stored, grant>>

-----------------------------------------------------------------------------
(***************************************************************************)
(* POST /businesses/:id/documents: into a deal room by a participant of    *)
(* that deal, or outside of deals by the owner.  The object is stored      *)
(* before its row is inserted.                                             *)
(***************************************************************************)
MayUpload(u, place) ==
    \/ InRoom(place, u)
    \/ place = "outside" /\ OwnsDocuments(u)

\* Slip: the row first, the object not at all.
BeginUploadRowOnly(r, u, place) ==
    /\ MayUpload(u, place)
    /\ \E d \in Document \ stored :
           Begin(r, "upload", [at |-> "insertDocument", user |-> u, place |-> place, document |-> d])
    /\ UNCHANGED <<dealVars, documentVars>>

BeginUpload(r, u, place) ==
    /\ MayUpload(u, place)
    /\ Begin(r, "upload", [at |-> "putObject", user |-> u, place |-> place])
    /\ UNCHANGED <<dealVars, documentVars>>

PutObject(r, d) ==
    /\ At(r, "putObject")
    /\ d \notin stored
    /\ stored' = stored \cup {d}
    /\ Go(r, [at |-> "insertDocument", user |-> call[r].user, place |-> call[r].place, document |-> d])
    /\ UNCHANGED <<dealVars, document, grant, accessLog>>

InsertDocument(r) ==
    /\ At(r, "insertDocument")
    /\ LET d == call[r].document
           u == call[r].user
       IN  /\ document' = [document EXCEPT ![d] = [by |-> u, place |-> call[r].place, deleted |-> FALSE]]
           /\ Go(r, Logging(<< <<"UPLOADED", d, u>>, <<"DOCUMENT_UPLOADED", d, u>> >>))
    /\ UNCHANGED <<dealVars, stored, grant, accessLog>>

\* GET /documents/:id/download: the URL is signed without a call to the storage.
BeginDownload(r, u, d) ==
    /\ Accessible(d, u)
    /\ Begin(r, "download", Logging(<< <<"DOWNLOADED", d, u>> >>))
    /\ UNCHANGED <<dealVars, documentVars>>

(***************************************************************************)
(* POST /documents/:id/access and DELETE .../access/:granteeId.  A grant   *)
(* is upserted: one that exists is no longer revoked, and keeps its expiry *)
(* unless the call names a new one.                                        *)
(***************************************************************************)
BeginGrant(r, u, d, v, expiry) ==
    /\ DocumentExists(d) /\ ~ document[d].deleted
    /\ OwnsDocuments(u)
    /\ Begin(r, "grant", [at |-> "upsertGrant", user |-> u, document |-> d, whom |-> v, expiry |-> expiry])
    /\ UNCHANGED <<dealVars, documentVars>>

UpsertGrant(r) ==
    /\ At(r, "upsertGrant")
    /\ LET d == call[r].document
           keeps == call[r].expiry = "never" /\ grant[d][call[r].whom] # NoGrant
       IN  /\ grant' = [grant EXCEPT ![d][call[r].whom] =
                  [revoked |-> FALSE, expiry |-> IF keeps THEN @.expiry ELSE call[r].expiry]]
           /\ Go(r, Logging(<< <<"ACCESS_GRANTED", d, call[r].user>> >>))
    /\ UNCHANGED <<dealVars, document, stored, accessLog>>

BeginRevoke(r, u, d, v) ==
    /\ DocumentExists(d)
    /\ OwnsDocuments(u)
    /\ Begin(r, "revoke", [at |-> "writeRevoked", user |-> u, document |-> d, whom |-> v])
    /\ UNCHANGED <<dealVars, documentVars>>

WriteRevoked(r) ==
    /\ At(r, "writeRevoked")
    /\ LET d == call[r].document IN
       /\ grant' = IF grant[d][call[r].whom] = NoGrant THEN grant
                   ELSE [grant EXCEPT ![d][call[r].whom].revoked = TRUE]
       /\ Go(r, Logging(<< <<"ACCESS_REVOKED", d, call[r].user>> >>))
    /\ UNCHANGED <<dealVars, document, stored, accessLog>>

\* DELETE /documents/:id: a mark on the row; the object stays in storage.
BeginRemove(r, u, d) ==
    /\ DocumentExists(d) /\ ~ document[d].deleted
    /\ OwnsDocuments(u)
    /\ Begin(r, "removeDocument", [at |-> "writeDeleted", user |-> u, document |-> d])
    /\ UNCHANGED <<dealVars, documentVars>>

WriteDeleted(r) ==
    /\ At(r, "writeDeleted")
    /\ document' = [document EXCEPT ![call[r].document].deleted = TRUE]
    /\ Go(r, Logging(<< <<"DELETED", call[r].document, call[r].user>> >>))
    /\ UNCHANGED <<dealVars, stored, grant, accessLog>>

\* The expiry of a grant passes.
ExpireGrant(d, u) ==
    /\ grant[d][u].expiry = "later"
    /\ grant' = [grant EXCEPT ![d][u].expiry = "passed"]
    /\ UNCHANGED <<roomVars, document, stored, accessLog>>

-----------------------------------------------------------------------------
DocumentInit ==
    /\ document = [d \in Document |-> NoDocument]
    /\ stored = {}
    /\ grant = [d \in Document |-> [u \in User |-> NoGrant]]
    /\ accessLog = {}

DocumentArrive(r) ==
    \E u \in scenario.people :
        \/ \E place \in Place : BeginUpload(r, u, place)
        \/ \E d \in Document :
               \/ BeginDownload(r, u, d)
               \/ BeginRemove(r, u, d)
               \/ \E v \in scenario.people :
                      \/ BeginRevoke(r, u, d, v)
                      \/ \E expiry \in {"never", "later"} : BeginGrant(r, u, d, v, expiry)

DocumentProceed(r) ==
    \/ \E d \in Document : PutObject(r, d)
    \/ InsertDocument(r)
    \/ UpsertGrant(r)
    \/ WriteRevoked(r)
    \/ WriteDeleted(r)
    \/ LogAccess(r)

DocumentTime == \E d \in Document, u \in User : ExpireGrant(d, u)

-----------------------------------------------------------------------------
LogEntry ==
    {"UPLOADED", "DOCUMENT_UPLOADED", "DOWNLOADED", "ACCESS_GRANTED", "ACCESS_REVOKED", "DELETED"}
    \X Document \X User

DocumentHandler ==
    [at : {"putObject"}, user : User, place : Place]
    \cup [at : {"insertDocument"}, user : User, place : Place, document : Document]
    \cup [at : {"upsertGrant"}, user : User, document : Document, whom : User, expiry : {"never", "later"}]
    \cup [at : {"writeRevoked"}, user : User, document : Document, whom : User]
    \cup [at : {"writeDeleted"}, user : User, document : Document]
    \cup [at : {"log"}, entries : Seq(LogEntry) \ {<<>>}]

DocumentRowsOK ==
    /\ document \in [Document -> {NoDocument} \cup [by : User, place : Place, deleted : BOOLEAN]]
    /\ stored \subseteq Document
    /\ grant \in [Document -> [User -> [expiry : {"absent", "never", "later", "passed"}, revoked : BOOLEAN]]]
    /\ accessLog \subseteq LogEntry

\* A document that is listed has its object, wherever an upload dies, and without
\* failures an object in storage has its row or an upload on its way to it.
DocumentsStored ==
    /\ \A d \in Document : DocumentExists(d) => d \in stored
    /\ ~ scenario.fails =>
           \A d \in stored : \/ DocumentExists(d)
                             \/ \E r \in Request : At(r, "insertDocument") /\ call[r].document = d

\* Every download has a reason that outlasts it: whoever is on the log for one owns
\* the business, uploaded the document, is in its room, or was given a grant.
DownloadsExplained ==
    \A d \in Document, u \in User :
        <<"DOWNLOADED", d, u>> \in accessLog =>
            \/ OwnsDocuments(u)
            \/ document[d].by = u
            \/ InRoom(document[d].place, u)
            \/ grant[d][u] # NoGrant

\* The log says so, or a handler is on its way to saying it.
Logged(action, d) ==
    \/ \E u \in User : KeptEntry(<<action, d, u>>) \subseteq accessLog
    \/ \E r \in Request : At(r, "log") /\ \E i \in DOMAIN call[r].entries :
           call[r].entries[i][1] = action /\ call[r].entries[i][2] = d

\* What SECURITY.md says of the access log: every upload, grant, revocation and
\* deletion is written to it (without failures).
DocumentsLogged ==
    \A d \in Document :
        /\ DocumentExists(d) => Logged("UPLOADED", d) /\ Logged("DOCUMENT_UPLOADED", d)
        /\ DocumentExists(d) /\ document[d].deleted => Logged("DELETED", d)
        /\ \A u \in User :
               /\ grant[d][u] # NoGrant => Logged("ACCESS_GRANTED", d)
               /\ grant[d][u].revoked => Logged("ACCESS_REVOKED", d)

=============================================================================
