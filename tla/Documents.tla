----------------------------- MODULE Documents -----------------------------
(***************************************************************************)
(* Stored documents and their versions: documents/documents.service.ts     *)
(* over storage/storage.service.ts.                                        *)
(*                                                                         *)
(* The bytes go to the disk first, under a key minted for them, and the    *)
(* rows follow in statements of their own: a version's number is one more  *)
(* than the latest that was read, the document's key is written last.      *)
(* A version may also be given a key by the client, which nobody checks.   *)
(***************************************************************************)
EXTENDS Integers

CONSTANTS
    Docs,           \* ids of documents
    Keys,           \* storage keys the service mints
    NamedKeys,      \* keys clients make up
    DocReqs,        \* concurrent HTTP requests
    MaxVersions,    \* bound: versions of a document
    DocReqsFail     \* TRUE: a request may die between two of its steps

ASSUME DocumentsAssumption ==
    /\ Keys \cap NamedKeys = {}
    /\ "none" \notin Keys \cup NamedKeys
    /\ MaxVersions \in Nat
    /\ DocReqsFail \in BOOLEAN

VARIABLES
    doc,        \* doc[d]: the row of document d
    version,    \* version[d][n]: the key of version n of d
    object,     \* the keys that have bytes on the disk
    token,      \* the documents that have a download token
    dreq,       \* dreq[r]: where request r is
    first,      \* history: first[d] is the key d was uploaded with
    raced,      \* history: documents whose createVersions overlapped or died
    unread      \* history: documents whose bytes were not found

docVars == <<doc, version, object, token, dreq, first, raced, unread>>

-----------------------------------------------------------------------------
AllKeys == Keys \cup NamedKeys
Visibility == {"customer", "internal"}
Versions == 1 .. MaxVersions

DocRow == [visibility : Visibility \cup {"none"}, storageKey : AllKeys \cup {"none"}]
NoDoc == [visibility |-> "none", storageKey |-> "none"]
Exists(d) == doc[d].visibility # "none"
Numbers(d) == {n \in Versions : version[d][n] # "none"}

DIdle == [op |-> "idle"]
Uploading == [op : {"upload"}, visibility : Visibility, key : Keys]
\* key = "none" until there is one
Versioning == [op : {"latest", "put", "insert", "update"}, doc : Docs, next : 0 .. MaxVersions + 1,
               key : AllKeys \cup {"none"}]
Reading == [op : {"read"}, doc : Docs, key : AllKeys]

DocumentsTypeOK ==
    /\ doc \in [Docs -> DocRow]
    /\ version \in [Docs -> [Versions -> AllKeys \cup {"none"}]]
    /\ object \subseteq Keys
    /\ token \subseteq Docs
    /\ dreq \in [DocReqs -> {DIdle} \cup Uploading \cup Versioning \cup Reading]
    /\ first \in [Docs -> Keys \cup {"none"}]
    /\ raced \subseteq Docs /\ unread \subseteq Docs

DocumentsInit ==
    /\ doc = [d \in Docs |-> NoDoc]
    /\ version = [d \in Docs |-> [n \in Versions |-> "none"]]
    /\ object = {}
    /\ token = {}
    /\ dreq = [r \in DocReqs |-> DIdle]
    /\ first = [d \in Docs |-> "none"]
    /\ raced = {} /\ unread = {}

-----------------------------------------------------------------------------
DGoto(r, next) == dreq' = [dreq EXCEPT ![r] = next]

\* requireDocument: the portal sees what is meant for customers.
requireDocument(d, surface) ==
    Exists(d) /\ (surface = "portal" => doc[d].visibility = "customer")

\* upload and persistGenerated: putObject under a new key, then the row.
Put(r, visibility, key) ==
    /\ dreq[r] = DIdle
    /\ key \notin object
    /\ object' = object \cup {key}
    /\ DGoto(r, [op |-> "upload", visibility |-> visibility, key |-> key])
    /\ UNCHANGED <<doc, version, token, first, raced, unread>>

InsertDocument(r, d) ==
    /\ dreq[r].op = "upload"
    /\ ~Exists(d)
    /\ doc' = [doc EXCEPT ![d] =
            [visibility |-> dreq[r].visibility, storageKey |-> dreq[r].key]]
    /\ first' = [first EXCEPT ![d] = dreq[r].key]
    /\ DGoto(r, DIdle)
    /\ UNCHANGED <<version, object, token, raced, unread>>

-----------------------------------------------------------------------------
\* The createVersion requests that are under way for d.
VersioningOf(d) == {r \in DocReqs : dreq[r].op \in {"latest", "put", "insert", "update"}
                                    /\ dreq[r].doc = d}

\* createVersion with bytes ("bytes"), with a key, or with neither ("none").
VersionStart(r, d, given) ==
    /\ dreq[r] = DIdle
    /\ requireDocument(d, "company")
    /\ DGoto(r, [op |-> "latest", doc |-> d, next |-> 0,
                 key |-> CASE given = "bytes" -> "none"
                           [] given = "none" -> doc[d].storageKey
                           [] OTHER -> given])
    /\ raced' = IF VersioningOf(d) = {} THEN raced ELSE raced \cup {d}
    /\ UNCHANGED <<doc, version, object, token, first, unread>>

IsLatest(d, n) ==
    \/ n \in Numbers(d) /\ \A other \in Numbers(d) : other <= n
    \/ n = 0 /\ Numbers(d) = {}

ReadLatest(r, n) == LET q == dreq[r] IN
    /\ q.op = "latest"
    /\ IsLatest(q.doc, n)
    /\ DGoto(r, [q EXCEPT !.op = IF q.key = "none" THEN "put" ELSE "insert", !.next = n + 1])
    /\ UNCHANGED <<doc, version, object, token, first, raced, unread>>

PutVersion(r, key) ==
    /\ dreq[r].op = "put"
    /\ key \notin object
    /\ object' = object \cup {key}
    /\ DGoto(r, [dreq[r] EXCEPT !.op = "insert", !.key = key])
    /\ UNCHANGED <<doc, version, token, first, raced, unread>>

\* Mutant: a version that is there already is overwritten.
InsertVersionUpsert(r) == LET q == dreq[r] IN
    /\ q.op = "insert"
    /\ q.next <= MaxVersions
    /\ version' = [version EXCEPT ![q.doc][q.next] = q.key]
    /\ DGoto(r, [q EXCEPT !.op = "update"])
    /\ UNCHANGED <<doc, object, token, first, raced, unread>>

InsertVersion(r) == LET q == dreq[r] IN
    /\ q.op = "insert"
    /\ q.next <= MaxVersions
    /\ q.next \notin Numbers(q.doc)
    /\ version' = [version EXCEPT ![q.doc][q.next] = q.key]
    /\ DGoto(r, [q EXCEPT !.op = "update"])
    /\ UNCHANGED <<doc, object, token, first, raced, unread>>

UpdateDocument(r) == LET q == dreq[r] IN
    /\ q.op = "update"
    /\ doc' = [doc EXCEPT ![q.doc].storageKey = q.key]
    /\ DGoto(r, DIdle)
    /\ UNCHANGED <<version, object, token, first, raced, unread>>

\* The pair of document and number is unique (or the model has no number left).
VersionClash(r) == LET q == dreq[r] IN
    /\ q.op = "insert"
    /\ q.next > MaxVersions \/ q.next \in Numbers(q.doc)
    /\ DGoto(r, DIdle)
    /\ UNCHANGED <<doc, version, object, token, first, raced, unread>>

\* A request dies; its version may be left without the document's key.
DocumentDie(r) ==
    /\ DocReqsFail
    /\ dreq[r] # DIdle
    /\ raced' = IF dreq[r].op = "update" THEN raced \cup {dreq[r].doc} ELSE raced
    /\ DGoto(r, DIdle)
    /\ UNCHANGED <<doc, version, object, token, first, unread>>

-----------------------------------------------------------------------------
createDownloadGrant(d, surface) ==
    /\ requireDocument(d, surface)
    /\ token' = token \cup {d}
    /\ UNCHANGED <<doc, version, object, dreq, first, raced, unread>>

Expire(d) ==
    /\ token' = token \ {d}
    /\ UNCHANGED <<doc, version, object, dreq, first, raced, unread>>

\* streamAuthorized and streamByToken: the row is read, then the bytes.
StreamRead(r, d) ==
    /\ dreq[r] = DIdle
    /\ d \in token \/ \E surface \in {"company", "portal"} : requireDocument(d, surface)
    /\ DGoto(r, [op |-> "read", doc |-> d, key |-> doc[d].storageKey])
    /\ UNCHANGED <<doc, version, object, token, first, raced, unread>>

GetObject(r) == LET q == dreq[r] IN
    /\ q.op = "read"
    /\ unread' = IF q.key \in object THEN unread ELSE unread \cup {q.doc}
    /\ DGoto(r, DIdle)
    /\ UNCHANGED <<doc, version, object, token, first, raced>>

DocumentsNext ==
    \/ \E r \in DocReqs :
        \/ \E key \in Keys :
            (\E visibility \in Visibility : Put(r, visibility, key)) \/ PutVersion(r, key)
        \/ \E d \in Docs :
            \/ InsertDocument(r, d) \/ StreamRead(r, d)
            \/ \E given \in NamedKeys \cup object \cup {"bytes", "none"} : VersionStart(r, d, given)
        \/ \E n \in 0 .. MaxVersions : ReadLatest(r, n)
        \/ InsertVersion(r) \/ UpdateDocument(r) \/ VersionClash(r)
        \/ DocumentDie(r) \/ GetObject(r)
    \/ \E d \in Docs :
        \/ Expire(d)
        \/ \E surface \in {"company", "portal"} : createDownloadGrant(d, surface)

DocumentsSpec == DocumentsInit /\ [][DocumentsNext]_docVars

-----------------------------------------------------------------------------
\* The numbers of the versions leave no gap.
NumbersContiguous ==
    \A d \in Docs : \A n \in Numbers(d) : n = 1 \/ n - 1 \in Numbers(d)

\* The keys a document has been given: its first and those of its versions.
KeysOf(d) == {first[d]} \cup {version[d][n] : n \in Numbers(d)}
KeyIsOwn == \A d \in Docs : Exists(d) => doc[d].storageKey \in KeysOf(d)

\* A key that the service minted has its bytes before any row mentions it.
KeysAreStored ==
    /\ \A d \in Docs : Exists(d) => KeysOf(d) \subseteq object \cup NamedKeys
    /\ \A d \in unread : \E n \in Numbers(d) : version[d][n] \in NamedKeys

\* Unless createVersions overlapped or died, the document is at its latest
\* version, or there is one more that is about to be it.
LatestIsCurrent == \A d \in Docs : Exists(d) /\ d \notin raced =>
    \/ \E r \in VersioningOf(d) : dreq[r].op = "update"
    \/ \E n \in Numbers(d) : IsLatest(d, n) /\ doc[d].storageKey = version[d][n]
    \/ Numbers(d) = {} /\ doc[d].storageKey = first[d]

\* upload, createVersion and the downloads keep rows, numbers and bytes in
\* agreement, however they overlap and wherever they die.
DocumentsCoherent == NumbersContiguous /\ KeyIsOwn /\ KeysAreStored /\ LatestIsCurrent
=============================================================================
