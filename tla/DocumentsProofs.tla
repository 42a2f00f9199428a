-------------------------- MODULE DocumentsProofs --------------------------
(***************************************************************************)
(* Proofs about Documents.tla, for any number of documents, versions and   *)
(* requests that overlap and die.                                          *)
(*                                                                         *)
(* The bytes of a minted key come before any row with it, and rows are     *)
(* never taken back: what a request has read stays true while it is in.    *)
(* Only the document's key goes back and forth, and only where versioning  *)
(* requests overlap or die; elsewhere the one request that is in knows the *)
(* latest version.                                                         *)
(***************************************************************************)
EXTENDS Documents, TLAPS

VersioningOps == {"latest", "put", "insert", "update"}
DocReqStates == {DIdle} \cup Uploading \cup Versioning \cup Reading

Stored(key) == key \in object \cup NamedKeys

RowSound(d) ==
    /\ Exists(d) => first[d] \in object /\ doc[d].storageKey \in KeysOf(d)
    /\ ~Exists(d) => Numbers(d) = {}
    /\ \A n \in Numbers(d) : Stored(version[d][n]) /\ (n = 1 \/ n - 1 \in Numbers(d))
    /\ d \in token => Exists(d)
    /\ d \in unread => \E n \in Numbers(d) : version[d][n] \in NamedKeys

\* What request state q is worth, however old what it has read is.
Ready(q) ==
    /\ q.op = "upload" => q.key \in object
    /\ q.op \in VersioningOps \cup {"read"} => Exists(q.doc)
    /\ q.op = "latest" => q.key = "none" \/ Stored(q.key)
    /\ q.op = "insert" => Stored(q.key)
    /\ q.op \in {"put", "insert"} => q.next = 1 \/ q.next - 1 \in Numbers(q.doc)
    /\ q.op = "update" => q.next \in Numbers(q.doc) /\ version[q.doc][q.next] = q.key
    /\ q.op = "read" => q.key \in KeysOf(q.doc)

Current(d) ==
    \/ \E n \in Numbers(d) : IsLatest(d, n) /\ doc[d].storageKey = version[d][n]
    \/ Numbers(d) = {} /\ doc[d].storageKey = first[d]

\* The latest version is the one that q has read, or inserted.
Knows(q) ==
    /\ q.op \in {"put", "insert"} => IsLatest(q.doc, q.next - 1)
    /\ q.op = "update" => IsLatest(q.doc, q.next)

\* Where nothing overlapped, at most one request is versioning d.
Alone(d) ==
    /\ \A r, s \in VersioningOf(d) : r = s
    /\ \A r \in VersioningOf(d) : Knows(dreq[r])
    /\ (\A r \in VersioningOf(d) : dreq[r].op # "update") => Current(d)

\* The inductive invariant.
DocumentsInv ==
    /\ DocumentsTypeOK
    /\ \A d \in Docs : RowSound(d)
    /\ \A r \in DocReqs : Ready(dreq[r])
    /\ \A d \in Docs : Exists(d) /\ d \notin raced => Alone(d)

-----------------------------------------------------------------------------
\* The fields of a request follow from what it is doing.
LEMMA RequestFields ==
    ASSUME NEW q \in DocReqStates
    PROVE  /\ q.op \in {"idle", "upload", "read"} \cup VersioningOps
           /\ q.op = "upload" => q \in Uploading
           /\ q.op \in VersioningOps => q \in Versioning
           /\ q.op = "read" => q \in Reading
           /\ q.op = "idle" => q = DIdle
  BY DEF DocReqStates, DIdle, Uploading, Versioning, Reading, VersioningOps

LEMMA InitDocumentsInv == DocumentsInit => DocumentsInv
<1> SUFFICES ASSUME DocumentsInit PROVE DocumentsInv
  OBVIOUS
<1>1. \A r \in DocReqs : dreq[r] = DIdle /\ dreq[r].op = "idle"
  BY DEF DocumentsInit, DIdle
<1>2. \A d \in Docs : ~Exists(d) /\ Numbers(d) = {}
  BY DEF DocumentsInit, Exists, NoDoc, Numbers
<1>3. DocumentsTypeOK
  <2>1. NoDoc \in DocRow
    BY DEF NoDoc, DocRow
  <2> QED BY <2>1 DEF DocumentsInit, DocumentsTypeOK
<1>4. \A d \in Docs : RowSound(d)
  BY <1>2 DEF RowSound, DocumentsInit
<1>5. \A r \in DocReqs : Ready(dreq[r])
  BY <1>1 DEF Ready, VersioningOps
<1> QED BY <1>2, <1>3, <1>4, <1>5 DEF DocumentsInv

\* While versions and documents stay and bytes are only added, requests
\* remain ready.
LEMMA ReadyStays ==
    ASSUME NEW q \in DocReqStates, Ready(q), object \subseteq object',
           UNCHANGED <<doc, version, first>>
    PROVE  Ready(q)'
<1>1. \A d \in Docs : Exists(d)' = Exists(d) /\ Numbers(d)' = Numbers(d) /\ KeysOf(d)' = KeysOf(d)
  BY DEF Exists, Numbers, KeysOf
<1>2. q.op \in VersioningOps \cup {"read"} => q.doc \in Docs
  BY RequestFields DEF Versioning, Reading
<1> QED BY <1>1, <1>2 DEF Ready, Stored, VersioningOps

\* A step that leaves documents and versions alone and takes request r, and
\* only r, on to q.
LEMMA GotoPreserves ==
    ASSUME DocumentsInv, NEW r \in DocReqs, NEW q \in DocReqStates, DGoto(r, q),
           UNCHANGED <<doc, version, first, token>>,
           object \subseteq object', object' \subseteq Keys,
           raced \subseteq raced', raced' \subseteq Docs,
           unread' \subseteq Docs,
           \A d \in unread' : d \in unread \/ \E n \in Numbers(d) : version[d][n] \in NamedKeys,
           Ready(q)',
           q.op \in VersioningOps => q.doc \in raced' \/ (VersioningOf(q.doc) \subseteq {r} /\ Knows(q)),
           q.op \in VersioningOps /\ dreq[r].op = "update" => q.op = "update" /\ q.doc = dreq[r].doc,
           dreq[r].op = "update" => dreq[r].doc \in raced' \/ q.op = "update"
    PROVE  DocumentsInv'
<1>1. \A s \in DocReqs : dreq'[s] = IF s = r THEN q ELSE dreq[s]
  BY DEF DocumentsInv, DocumentsTypeOK, DGoto
<1>2. \A d \in Docs : Exists(d)' = Exists(d) /\ Numbers(d)' = Numbers(d) /\ KeysOf(d)' = KeysOf(d)
  BY DEF Exists, Numbers, KeysOf
<1>3. DocumentsTypeOK'
  BY DEF DocumentsInv, DocumentsTypeOK, DGoto, DocReqStates
<1>4. \A d \in Docs : RowSound(d)'
  BY <1>2 DEF DocumentsInv, RowSound, Stored
<1>5. \A s \in DocReqs : Ready(dreq[s])'
  <2> SUFFICES ASSUME NEW s \in DocReqs PROVE Ready(dreq[s])'
    OBVIOUS
  <2>1. PICK p \in DocReqStates : p = dreq'[s] /\ (p = q \/ p = dreq[s])
    BY <1>1 DEF DocumentsInv, DocumentsTypeOK, DocReqStates
  <2>2. Ready(p)'
    <3>1. CASE p = q
      BY <3>1 DEF Ready, Stored, KeysOf, Exists, Numbers
    <3>2. CASE p = dreq[s]
      BY <3>2, ReadyStays DEF DocumentsInv
    <3> QED BY <2>1, <3>1, <3>2
  <2> QED BY <2>1, <2>2 DEF Ready, Stored, KeysOf, Exists, Numbers
<1>6. \A d \in Docs : Exists(d)' /\ d \notin raced' => Alone(d)'
  <2> SUFFICES ASSUME NEW d \in Docs, Exists(d), d \notin raced' PROVE Alone(d)'
    BY <1>2
  <2>1. Alone(d)
    BY DEF DocumentsInv
  <2>2. IsLatest(d, 0)' = IsLatest(d, 0) /\ Current(d)' = Current(d)
    BY DEF IsLatest, Current, Numbers
  <2> QED BY <1>1, <2>1, <2>2 DEF Alone, VersioningOf, Knows, IsLatest, Numbers, VersioningOps
<1> QED BY <1>3, <1>4, <1>5, <1>6 DEF DocumentsInv

LEMMA InsertDocumentPreserves ==
    ASSUME DocumentsInv, NEW r \in DocReqs, NEW d \in Docs, InsertDocument(r, d)
    PROVE  DocumentsInv'
<1> PICK q \in DocReqStates : q = dreq[r]
  BY DEF DocumentsInv, DocumentsTypeOK, DocReqStates
<1>1. q \in Uploading /\ q.key \in object
  BY RequestFields DEF DocumentsInv, DocumentsTypeOK, DocReqStates, InsertDocument, Ready
<1>2. \A s \in DocReqs : dreq'[s] = IF s = r THEN DIdle ELSE dreq[s]
  BY DEF DocumentsInv, DocumentsTypeOK, InsertDocument, DGoto
<1>3. \A e \in Docs :
        /\ doc'[e] = IF e = d THEN [visibility |-> q.visibility, storageKey |-> q.key]
                     ELSE doc[e]
        /\ first'[e] = IF e = d THEN q.key ELSE first[e]
  BY DEF DocumentsInv, DocumentsTypeOK, InsertDocument
<1>4. \A e \in Docs : /\ Exists(e)' = (e = d \/ Exists(e)) /\ Numbers(e)' = Numbers(e)
                      /\ e # d => KeysOf(e)' = KeysOf(e)
  BY <1>1, <1>3 DEF Exists, Numbers, KeysOf, InsertDocument, Uploading, Visibility
<1>5. Numbers(d) = {} /\ KeysOf(d)' = {q.key}
  BY <1>3, <1>4 DEF DocumentsInv, RowSound, InsertDocument, KeysOf
<1>6. DocumentsTypeOK'
  <2>1. [visibility |-> q.visibility, storageKey |-> q.key] \in DocRow
    BY <1>1 DEF Uploading, DocRow, AllKeys
  <2> QED BY <1>1, <2>1 DEF DocumentsInv, DocumentsTypeOK, InsertDocument, DGoto, Uploading
<1>7. \A e \in Docs : RowSound(e)'
  <2> TAKE e \in Docs
  <2>1. CASE e = d
    BY <1>1, <1>3, <1>4, <1>5, <2>1 DEF DocumentsInv, RowSound, InsertDocument
  <2>2. CASE e # d
    <3>1. RowSound(e) /\ UNCHANGED <<version, object, token, unread>>
      BY DEF DocumentsInv, InsertDocument
    <3>2. /\ Exists(e)' = Exists(e) /\ Numbers(e)' = Numbers(e) /\ KeysOf(e)' = KeysOf(e)
          /\ doc'[e] = doc[e] /\ first'[e] = first[e]
      BY <1>3, <1>4, <2>2 DEF Exists
    <3> QED BY <3>1, <3>2 DEF RowSound, Stored
  <2> QED BY <2>1, <2>2
<1>8. \A s \in DocReqs : Ready(dreq[s])'
  <2> TAKE s \in DocReqs
  <2>1. CASE s = r
    BY <1>2, <2>1 DEF Ready, DIdle, VersioningOps
  <2>2. CASE s # r
    <3>1. dreq[s] \in DocReqStates /\ Ready(dreq[s]) /\ dreq'[s] = dreq[s]
      BY <1>2, <2>2 DEF DocumentsInv, DocumentsTypeOK, DocReqStates
    <3>2. dreq[s].op \in VersioningOps \cup {"read"} => dreq[s].doc \in Docs \ {d}
      BY <3>1, RequestFields DEF Versioning, Reading, Ready, InsertDocument
    <3> QED BY <1>3, <1>4, <3>1, <3>2 DEF Ready, Stored, InsertDocument, VersioningOps
  <2> QED BY <2>1, <2>2
<1>9. \A e \in Docs : Exists(e)' /\ e \notin raced' => Alone(e)'
  <2> SUFFICES ASSUME NEW e \in Docs, Exists(e)', e \notin raced' PROVE Alone(e)'
    OBVIOUS
  <2>1. CASE e = d
    <3>1. \A s \in DocReqs : s \notin VersioningOf(d)'
      BY <1>2 DEF VersioningOf, DocumentsInv, Ready, InsertDocument, DIdle, VersioningOps
    <3>2. Current(d)'
      BY <1>3, <1>4, <1>5 DEF Current
    <3> QED BY <2>1, <3>1, <3>2 DEF Alone, VersioningOf
  <2>2. CASE e # d
    <3>1. Alone(e)
      BY <1>4, <2>2 DEF DocumentsInv, InsertDocument
    <3>2. Current(e)' = Current(e)
      BY <1>3, <2>2 DEF Current, IsLatest, Numbers, InsertDocument
    <3> QED BY <1>2, <3>1, <3>2 DEF Alone, VersioningOf, Knows, IsLatest, Numbers,
               VersioningOps, DIdle, InsertDocument
  <2> QED BY <2>1, <2>2
<1> QED BY <1>6, <1>7, <1>8, <1>9 DEF DocumentsInv

LEMMA InsertVersionPreserves ==
    ASSUME DocumentsInv, NEW r \in DocReqs, InsertVersion(r)
    PROVE  DocumentsInv'
<1> PICK q \in DocReqStates : q = dreq[r]
  BY DEF DocumentsInv, DocumentsTypeOK, DocReqStates
<1> DEFINE d == q.doc
           next == [q EXCEPT !.op = "update"]
<1>1. /\ q \in Versioning /\ q.next \in Versions /\ Ready(q) /\ Stored(q.key)
      /\ d \in Docs /\ q.next \notin Numbers(d) /\ Exists(d)
  <2>1. Ready(q) /\ q.op = "insert" /\ q.next <= MaxVersions /\ q.next \notin Numbers(d)
    BY DEF DocumentsInv, InsertVersion
  <2>2. q \in Versioning
    BY <2>1, RequestFields DEF VersioningOps
  <2>3. Stored(q.key) /\ Exists(d) /\ (q.next = 1 \/ q.next - 1 \in Numbers(d))
    BY <2>1 DEF Ready, VersioningOps
  <2>4. d \in Docs /\ q.next \in 0 .. MaxVersions + 1
    BY <2>2 DEF Versioning
  <2>5. q.next \in Versions
    BY <2>1, <2>3, <2>4, DocumentsAssumption DEF Versions, Numbers
  <2> QED BY <2>1, <2>2, <2>3, <2>4, <2>5
<1>2. \A s \in DocReqs : dreq'[s] = IF s = r THEN next ELSE dreq[s]
  BY DEF DocumentsInv, DocumentsTypeOK, InsertVersion, DGoto
<1>3. \A e \in Docs, n \in Versions :
        version'[e][n] = IF e = d /\ n = q.next THEN q.key ELSE version[e][n]
  BY <1>1 DEF DocumentsInv, DocumentsTypeOK, InsertVersion
<1>4. \A e \in Docs : /\ Numbers(e)' = IF e = d THEN Numbers(e) \cup {q.next} ELSE Numbers(e)
                      /\ KeysOf(e) \subseteq KeysOf(e)'
                      /\ Exists(e)' = Exists(e)
  <2>1. q.key # "none"
    BY <1>1, DocumentsAssumption DEF Stored, DocumentsInv, DocumentsTypeOK
  <2>2. \A e \in Docs : Numbers(e)' = IF e = d THEN Numbers(e) \cup {q.next} ELSE Numbers(e)
    BY <1>1, <1>3, <2>1 DEF Numbers
  <2>3. \A e \in Docs : \A n \in Numbers(e) : n \in Numbers(e)' /\ version'[e][n] = version[e][n]
    BY <1>1, <1>3, <2>2 DEF Numbers
  <2>4. \A e \in Docs : KeysOf(e) \subseteq KeysOf(e)'
    BY <2>3 DEF KeysOf, InsertVersion
  <2> QED BY <2>2, <2>4 DEF Exists, InsertVersion
<1>5. DocumentsTypeOK'
  BY <1>1 DEF DocumentsInv, DocumentsTypeOK, InsertVersion, DGoto, Versioning, AllKeys, Stored
<1>6. \A e \in Docs : RowSound(e)'
  <2> TAKE e \in Docs
  <2>1. RowSound(e)
    BY DEF DocumentsInv
  <2>2. \A n \in Numbers(e)' : /\ version'[e][n] \in object \cup NamedKeys
                               /\ n = 1 \/ n - 1 \in Numbers(e)'
    <3>1. \A n \in Numbers(e)' : /\ version'[e][n] \in object \cup NamedKeys
      BY <1>1, <1>3, <1>4, <2>1 DEF RowSound, Stored, Numbers
    <3>2. \A n \in Numbers(e)' : n = 1 \/ n - 1 \in Numbers(e)'
      <4>1. q.next = 1 \/ q.next - 1 \in Numbers(d)
        BY <1>1 DEF Ready, InsertVersion
      <4>2. \A n \in Numbers(e) : n = 1 \/ n - 1 \in Numbers(e)
        BY <2>1 DEF RowSound
      <4> QED BY <1>4, <4>1, <4>2
    <3> QED BY <3>1, <3>2
  <2>3. (e \in unread => \E n \in Numbers(e) : version[e][n] \in NamedKeys)'
    <3>1. ASSUME e \in unread PROVE \E n \in Numbers(e)' : version'[e][n] \in NamedKeys
      <4>1. PICK n \in Numbers(e) : version[e][n] \in NamedKeys
        BY <2>1, <3>1 DEF RowSound
      <4>2. n \in Numbers(e)'
        BY <1>4
      <4>3. version'[e][n] = version[e][n]
        BY <1>1, <1>3 DEF Numbers
      <4> QED BY <4>1, <4>2, <4>3
    <3>2. unread' = unread
      BY DEF InsertVersion
    <3> QED BY <3>1, <3>2
  <2>4. (Exists(e) => first[e] \in object /\ doc[e].storageKey \in KeysOf(e))'
    BY <1>4, <2>1 DEF RowSound, InsertVersion
  <2>5. (~Exists(e) => Numbers(e) = {})' /\ (e \in token => Exists(e))'
    BY <1>1, <1>4, <2>1 DEF RowSound, InsertVersion
  <2>6. object' = object
    BY DEF InsertVersion
  <2> QED BY <2>2, <2>3, <2>4, <2>5, <2>6 DEF RowSound, Stored
<1>7. \A s \in DocReqs : Ready(dreq[s])'
  <2> TAKE s \in DocReqs
  <2>1. CASE s = r
    BY <1>1, <1>2, <1>3, <1>4, <2>1 DEF Ready, Versioning, VersioningOps
  <2>2. CASE s # r
    <3>1. dreq[s] \in DocReqStates /\ Ready(dreq[s]) /\ dreq'[s] = dreq[s]
      BY <1>2, <2>2 DEF DocumentsInv, DocumentsTypeOK, DocReqStates
    <3>2. dreq[s].op \in VersioningOps \cup {"read"} => dreq[s].doc \in Docs
      BY <3>1, RequestFields DEF Versioning, Reading
    <3>3. dreq[s].op = "update" => dreq[s].next \in Numbers(dreq[s].doc)
      BY <3>1 DEF Ready
    <3>4. UNCHANGED <<doc, object>>
      BY DEF InsertVersion
    <3>5. \A e \in Docs : \A n \in Numbers(e) : n \in Numbers(e)' /\ version'[e][n] = version[e][n]
      BY <1>1, <1>3, <1>4 DEF Numbers
    <3> QED BY <1>4, <3>1, <3>2, <3>3, <3>4, <3>5 DEF Ready, Stored, VersioningOps
  <2> QED BY <2>1, <2>2
<1>8. \A e \in Docs : Exists(e)' /\ e \notin raced' => Alone(e)'
  <2> SUFFICES ASSUME NEW e \in Docs, Exists(e), e \notin raced PROVE Alone(e)'
    BY <1>4 DEF InsertVersion
  <2>1. Alone(e)
    BY DEF DocumentsInv
  <2>2. \A s \in DocReqs : s \in VersioningOf(e)' <=> s \in VersioningOf(e)
    BY <1>1, <1>2 DEF VersioningOf, InsertVersion, Versioning
  <2>3. CASE e = d
    <3>1. \A s \in VersioningOf(e) : s = r
      BY <1>1, <2>1, <2>3 DEF Alone, VersioningOf, InsertVersion
    <3>2. IsLatest(e, q.next - 1)
      BY <2>1, <2>3, <3>1 DEF Alone, VersioningOf, InsertVersion, Knows
    <3>3. IsLatest(e, q.next)'
      BY <1>1, <1>4, <2>3, <3>2 DEF IsLatest, Numbers, Versions
    <3>4. Knows(dreq[r])'
      <4>1. dreq'[r].op = "update" /\ dreq'[r].doc = e /\ dreq'[r].next = q.next
        BY <1>1, <1>2, <2>3 DEF Versioning
      <4> QED BY <3>3, <4>1 DEF Knows, IsLatest, Numbers
    <3>5. r \in VersioningOf(e)' /\ dreq'[r].op = "update"
      BY <1>1, <1>2, <2>3 DEF VersioningOf, Versioning
    <3> QED BY <2>2, <3>1, <3>4, <3>5 DEF Alone, VersioningOf
  <2>4. CASE e # d
    <3>1. Current(e)' = Current(e)
      BY <1>3, <1>4, <2>4 DEF Current, IsLatest, InsertVersion, Numbers
    <3>2. \A s \in VersioningOf(e) : s # r /\ dreq'[s] = dreq[s] /\ dreq[s].doc = e
      BY <1>2, <2>4 DEF VersioningOf
    <3>3. \A s \in VersioningOf(e) : Knows(dreq[s])'
      BY <1>4, <2>1, <2>4, <3>2 DEF Alone, Knows, IsLatest
    <3> QED BY <2>1, <2>2, <3>1, <3>2, <3>3 DEF Alone, VersioningOf
  <2> QED BY <2>3, <2>4
<1> QED BY <1>5, <1>6, <1>7, <1>8 DEF DocumentsInv

LEMMA UpdateDocumentPreserves ==
    ASSUME DocumentsInv, NEW r \in DocReqs, UpdateDocument(r)
    PROVE  DocumentsInv'
<1> PICK q \in DocReqStates : q = dreq[r]
  BY DEF DocumentsInv, DocumentsTypeOK, DocReqStates
<1> DEFINE d == q.doc
<1>1. /\ q \in Versioning /\ d \in Docs /\ Exists(d)
      /\ q.next \in Numbers(d) /\ version[d][q.next] = q.key
  BY RequestFields DEF DocumentsInv, DocumentsTypeOK, DocReqStates, UpdateDocument, Ready,
     Versioning, VersioningOps
<1>2. \A s \in DocReqs : dreq'[s] = IF s = r THEN DIdle ELSE dreq[s]
  BY DEF DocumentsInv, DocumentsTypeOK, UpdateDocument, DGoto
<1>3. \A e \in Docs : /\ doc'[e].visibility = doc[e].visibility
                      /\ doc'[e].storageKey = IF e = d THEN q.key ELSE doc[e].storageKey
  BY DEF DocumentsInv, DocumentsTypeOK, DocRow, UpdateDocument
<1>4. \A e \in Docs : /\ Exists(e)' = Exists(e) /\ Numbers(e)' = Numbers(e)
                      /\ KeysOf(e)' = KeysOf(e)
  BY <1>3 DEF Exists, Numbers, KeysOf, UpdateDocument
<1>5. DocumentsTypeOK'
  <2>1. doc \in [Docs -> DocRow] /\ doc' = [doc EXCEPT ![d].storageKey = q.key]
    BY DEF DocumentsInv, DocumentsTypeOK, UpdateDocument
  <2>2. [doc[d] EXCEPT !.storageKey = q.key] \in DocRow
    BY <1>1, <2>1 DEF DocRow, Versioning
  <2>3. doc' \in [Docs -> DocRow]
    BY <1>1, <2>1, <2>2
  <2>4. dreq' \in [DocReqs -> {DIdle} \cup Uploading \cup Versioning \cup Reading]
    BY DEF DocumentsInv, DocumentsTypeOK, UpdateDocument, DGoto
  <2> QED BY <2>3, <2>4 DEF DocumentsInv, DocumentsTypeOK, UpdateDocument
<1>6. \A e \in Docs : RowSound(e)'
  <2>1. q.key \in KeysOf(d)
    BY <1>1 DEF KeysOf
  <2> QED BY <1>3, <1>4, <2>1 DEF DocumentsInv, RowSound, UpdateDocument, Stored
<1>7. \A s \in DocReqs : Ready(dreq[s])'
  <2> TAKE s \in DocReqs
  <2>1. CASE s = r
    BY <1>2, <2>1 DEF Ready, DIdle, VersioningOps
  <2>2. CASE s # r
    <3>1. dreq[s] \in DocReqStates /\ Ready(dreq[s]) /\ dreq'[s] = dreq[s]
      BY <1>2, <2>2 DEF DocumentsInv, DocumentsTypeOK, DocReqStates
    <3>2. dreq[s].op \in VersioningOps \cup {"read"} => dreq[s].doc \in Docs
      BY <3>1, RequestFields DEF Versioning, Reading
    <3> QED BY <1>4, <3>1, <3>2 DEF Ready, Stored, UpdateDocument, VersioningOps
  <2> QED BY <2>1, <2>2
<1>8. \A e \in Docs : Exists(e)' /\ e \notin raced' => Alone(e)'
  <2> SUFFICES ASSUME NEW e \in Docs, Exists(e), e \notin raced PROVE Alone(e)'
    BY <1>4 DEF UpdateDocument
  <2>1. Alone(e)
    BY DEF DocumentsInv
  <2>2. CASE e = d
    <3>1. r \in VersioningOf(e) /\ \A s \in VersioningOf(e) : s = r
      BY <1>1, <2>1, <2>2 DEF Alone, VersioningOf, UpdateDocument
    <3>2. IsLatest(e, q.next)
      BY <2>1, <2>2, <3>1 DEF Alone, Knows, UpdateDocument
    <3>3. Current(e)'
      <4>1. q.next \in Numbers(d) /\ version[d][q.next] = q.key
        BY <1>1
      <4>2. IsLatest(d, q.next)' /\ version' = version
        BY <1>4, <2>2, <3>2 DEF IsLatest, UpdateDocument
      <4>3. doc'[d].storageKey = q.key /\ q.next \in Numbers(d)'
        BY <1>1, <1>3, <1>4, <4>1
      <4> QED BY <2>2, <4>1, <4>2, <4>3 DEF Current
    <3>4. \A s \in DocReqs : s \notin VersioningOf(e)'
      BY <1>2, <3>1 DEF VersioningOf, DIdle
    <3> QED BY <3>3, <3>4 DEF Alone, VersioningOf
  <2>3. CASE e # d
    <3>1. Current(e)' = Current(e)
      BY <1>3, <2>3 DEF Current, IsLatest, Numbers, UpdateDocument
    <3> QED BY <1>2, <2>1, <2>3, <3>1 DEF Alone, VersioningOf, Knows, IsLatest, Numbers,
               VersioningOps, DIdle, UpdateDocument
  <2> QED BY <2>2, <2>3
<1> QED BY <1>5, <1>6, <1>7, <1>8 DEF DocumentsInv

LEMMA TokensPreserve ==
    ASSUME DocumentsInv, UNCHANGED <<doc, version, object, dreq, first, raced, unread>>,
           NEW d \in Docs, token' = token \ {d} \/ (token' = token \cup {d} /\ Exists(d))
    PROVE  DocumentsInv'
<1>1. DocumentsTypeOK'
  BY DEF DocumentsInv, DocumentsTypeOK
<1>2. \A e \in Docs : RowSound(e)'
  <2> TAKE e \in Docs
  <2>1. RowSound(e) /\ (e \in token' => Exists(e))
    BY DEF DocumentsInv, RowSound
  <2>2. Exists(e)' = Exists(e) /\ Numbers(e)' = Numbers(e) /\ KeysOf(e)' = KeysOf(e)
    BY DEF Exists, Numbers, KeysOf
  <2> QED BY <2>1, <2>2 DEF RowSound, Stored
<1>3. \A r \in DocReqs : Ready(dreq[r])'
  BY DEF DocumentsInv, Ready, Stored, Exists, Numbers, KeysOf
<1>4. \A e \in Docs : Exists(e)' /\ e \notin raced' => Alone(e)'
  BY DEF DocumentsInv, Exists, Alone, VersioningOf, Knows, Current, IsLatest, Numbers
<1> QED BY <1>1, <1>2, <1>3, <1>4 DEF DocumentsInv

-----------------------------------------------------------------------------
LEMMA NextDocumentsInv == DocumentsInv /\ [DocumentsNext]_docVars => DocumentsInv'
<1> SUFFICES ASSUME DocumentsInv, [DocumentsNext]_docVars PROVE DocumentsInv'
  OBVIOUS
<1>a. DIdle \in DocReqStates /\ DIdle.op = "idle"
  BY DEF DocReqStates, DIdle
<1>b. Ready(DIdle)'
  BY <1>a DEF Ready, VersioningOps
<1>c. /\ object \subseteq Keys /\ raced \subseteq Docs /\ unread \subseteq Docs
      /\ \A r \in DocReqs : dreq[r] \in DocReqStates /\ Ready(dreq[r])
  BY DEF DocumentsInv, DocumentsTypeOK, DocReqStates
<1>1. ASSUME NEW r \in DocReqs, NEW key \in Keys, NEW visibility \in Visibility,
             Put(r, visibility, key)
      PROVE  DocumentsInv'
  <2> DEFINE q == [op |-> "upload", visibility |-> visibility, key |-> key]
  <2>1. q \in DocReqStates /\ q.op = "upload" /\ q.key = key
    BY DEF DocReqStates, Uploading
  <2>2. Ready(q)'
    BY <1>1, <2>1 DEF Ready, Put, VersioningOps
  <2> HIDE DEF q
  <2> QED BY <1>1, <1>a, <1>c, <2>1, <2>2, GotoPreserves DEF Put, VersioningOps, q
<1>2. ASSUME NEW r \in DocReqs, NEW key \in Keys, PutVersion(r, key) PROVE DocumentsInv'
  <2> PICK p \in DocReqStates : p = dreq[r]
    BY <1>c
  <2> DEFINE q == [p EXCEPT !.op = "insert", !.key = key]
  <2>1. p \in Versioning /\ p.op = "put" /\ Ready(p) /\ p.doc \in Docs
    BY <1>2, <1>c, RequestFields DEF PutVersion, Versioning, VersioningOps
  <2>2. /\ q \in DocReqStates /\ q.op = "insert" /\ q.key = key
        /\ q.doc = p.doc /\ q.next = p.next
    BY <2>1 DEF DocReqStates, Versioning, AllKeys
  <2>3. Ready(q)'
    BY <1>2, <2>1, <2>2 DEF Ready, PutVersion, VersioningOps, Stored, Exists, Numbers
  <2>4. q.doc \in raced \/ (VersioningOf(q.doc) \subseteq {r} /\ Knows(q))
    <3> SUFFICES ASSUME p.doc \notin raced PROVE VersioningOf(q.doc) \subseteq {r} /\ Knows(q)
      BY <2>2
    <3>1. Alone(p.doc) /\ r \in VersioningOf(p.doc)
      BY <2>1 DEF DocumentsInv, Ready, VersioningOps, VersioningOf
    <3> QED BY <2>1, <2>2, <3>1 DEF Alone, Knows
  <2> HIDE DEF q
  <2> QED BY <1>2, <1>c, <2>1, <2>2, <2>3, <2>4, GotoPreserves DEF PutVersion, q
<1>3. ASSUME NEW r \in DocReqs, NEW n \in 0 .. MaxVersions, ReadLatest(r, n) PROVE DocumentsInv'
  <2> PICK p \in DocReqStates : p = dreq[r]
    BY <1>c
  <2> DEFINE q == [p EXCEPT !.op = IF p.key = "none" THEN "put" ELSE "insert", !.next = n + 1]
  <2>1. p \in Versioning /\ p.op = "latest" /\ Ready(p) /\ p.doc \in Docs /\ IsLatest(p.doc, n)
    BY <1>3, <1>c, RequestFields DEF ReadLatest, Versioning, VersioningOps
  <2>2. /\ q \in DocReqStates /\ q.op = (IF p.key = "none" THEN "put" ELSE "insert")
        /\ q.key = p.key /\ q.doc = p.doc /\ q.next = n + 1 /\ q.next - 1 = n
    <3>1. n + 1 \in 0 .. MaxVersions + 1 /\ (n + 1) - 1 = n
      BY DocumentsAssumption
    <3>2. q \in Versioning /\ q.next = n + 1
      BY <2>1, <3>1 DEF Versioning
    <3> QED BY <2>1, <3>1, <3>2 DEF DocReqStates, Versioning
  <2>3. Ready(q)'
    <3>1. q.next = 1 \/ q.next - 1 \in Numbers(q.doc)
      BY <2>1, <2>2 DEF IsLatest
    <3>2. Exists(q.doc) /\ (q.key = "none" \/ Stored(q.key))
      BY <2>1, <2>2 DEF Ready, VersioningOps
    <3> QED BY <1>3, <2>2, <3>1, <3>2 DEF Ready, ReadLatest, VersioningOps, Stored, Exists, Numbers
  <2>4. q.doc \in raced \/ (VersioningOf(q.doc) \subseteq {r} /\ Knows(q))
    <3> SUFFICES ASSUME p.doc \notin raced PROVE VersioningOf(q.doc) \subseteq {r} /\ Knows(q)
      BY <2>2
    <3>1. Alone(p.doc) /\ r \in VersioningOf(p.doc)
      BY <2>1 DEF DocumentsInv, Ready, VersioningOps, VersioningOf
    <3> QED BY <2>1, <2>2, <3>1 DEF Alone, Knows
  <2> HIDE DEF q
  <2> QED BY <1>3, <1>c, <2>1, <2>2, <2>3, <2>4, GotoPreserves DEF ReadLatest, q
<1>4. ASSUME NEW r \in DocReqs, NEW d \in Docs,
             NEW given \in NamedKeys \cup object \cup {"bytes", "none"},
             VersionStart(r, d, given)
      PROVE  DocumentsInv'
  <2> PICK q \in DocReqStates : q = dreq'[r]
    <3>1. doc[d].storageKey \in AllKeys \cup {"none"}
      BY DEF DocumentsInv, DocumentsTypeOK, DocRow
    <3>2. dreq'[r] \in Versioning
      BY <1>4, <1>c, <3>1, DocumentsAssumption
         DEF VersionStart, DGoto, Versioning, AllKeys, DocumentsInv, DocumentsTypeOK
    <3> QED BY <3>2 DEF DocReqStates
  <2>1. /\ q.op = "latest" /\ q.doc = d /\ Exists(d) /\ DGoto(r, q)
        /\ q.key = CASE given = "bytes" -> "none"
                     [] given = "none" -> doc[d].storageKey
                     [] OTHER -> given
    BY <1>4 DEF VersionStart, DGoto, requireDocument, DocumentsInv, DocumentsTypeOK
  <2>2. Ready(q)'
    <3>1. Stored(doc[d].storageKey)
      BY <2>1 DEF DocumentsInv, RowSound, KeysOf, Stored
    <3>2. q.key = "none" \/ Stored(q.key)
      BY <2>1, <3>1 DEF Stored
    <3> QED BY <1>4, <2>1, <3>2 DEF VersionStart, Ready, Stored, Exists
  <2>3. q.doc \in raced' \/ (VersioningOf(q.doc) \subseteq {r} /\ Knows(q))
    BY <1>4, <2>1 DEF VersionStart, Knows
  <2>4. raced \subseteq raced' /\ raced' \subseteq Docs
    BY <1>4, <1>c DEF VersionStart
  <2> QED BY <1>4, <1>a, <1>c, <2>1, <2>2, <2>3, <2>4, GotoPreserves DEF VersionStart
<1>5. ASSUME NEW r \in DocReqs, VersionClash(r) PROVE DocumentsInv'
  BY <1>5, <1>a, <1>b, <1>c, GotoPreserves DEF VersionClash, VersioningOps
<1>6. ASSUME NEW r \in DocReqs, DocumentDie(r) PROVE DocumentsInv'
  <2>1. /\ raced \subseteq raced' /\ raced' \subseteq Docs
        /\ dreq[r].op = "update" => dreq[r].doc \in raced'
    BY <1>6, <1>c, RequestFields DEF DocumentDie, Versioning, VersioningOps
  <2> QED BY <1>6, <1>a, <1>b, <1>c, <2>1, GotoPreserves DEF DocumentDie, VersioningOps
<1>7. ASSUME NEW r \in DocReqs, NEW d \in Docs, StreamRead(r, d) PROVE DocumentsInv'
  <2> PICK k \in AllKeys \cup {"none"} : k = doc[d].storageKey
    BY DEF DocumentsInv, DocumentsTypeOK, DocRow
  <2> DEFINE q == [op |-> "read", doc |-> d, key |-> k]
  <2>1. Exists(d) /\ k \in KeysOf(d) /\ k \in AllKeys
    <3>1. Exists(d)
      BY <1>7 DEF StreamRead, requireDocument, DocumentsInv, RowSound
    <3>2. k \in KeysOf(d) /\ Stored(k)
      BY <3>1 DEF DocumentsInv, RowSound, KeysOf, Stored
    <3> QED BY <1>c, <3>1, <3>2 DEF Stored, AllKeys
  <2>2. q \in DocReqStates /\ q.op = "read" /\ q.doc = d /\ q.key = k
    BY <2>1 DEF DocReqStates, Reading
  <2>3. Ready(q)'
    BY <1>7, <2>1, <2>2 DEF Ready, StreamRead, VersioningOps, Exists, KeysOf, Numbers
  <2> HIDE DEF q
  <2> QED BY <1>7, <1>a, <1>c, <2>2, <2>3, GotoPreserves DEF StreamRead, VersioningOps, q
<1>8. ASSUME NEW r \in DocReqs, GetObject(r) PROVE DocumentsInv'
  <2> PICK p \in DocReqStates : p = dreq[r]
    BY <1>c
  <2>1. p.op = "read" /\ p.doc \in Docs /\ Exists(p.doc) /\ p.key \in KeysOf(p.doc)
    BY <1>8, <1>c, RequestFields DEF GetObject, Reading, Ready
  <2>2. p.key \notin object => \E n \in Numbers(p.doc) : version[p.doc][n] \in NamedKeys
    BY <2>1 DEF DocumentsInv, RowSound, KeysOf, Stored
  <2>3. /\ unread' \subseteq Docs
        /\ \A d \in unread' : d \in unread \/ \E n \in Numbers(d) : version[d][n] \in NamedKeys
    BY <1>8, <1>c, <2>1, <2>2 DEF GetObject
  <2> QED BY <1>8, <1>a, <1>b, <1>c, <2>3, GotoPreserves DEF GetObject, VersioningOps
<1>9. ASSUME NEW d \in Docs,
             Expire(d) \/ \E surface \in {"company", "portal"} : createDownloadGrant(d, surface)
      PROVE  DocumentsInv'
  BY <1>9, TokensPreserve DEF Expire, createDownloadGrant, requireDocument
<1>10. CASE UNCHANGED docVars
  <2>1. DocumentsTypeOK' = DocumentsTypeOK
    BY <1>10 DEF docVars, DocumentsTypeOK
  <2>2. \A d \in Docs : RowSound(d)' = RowSound(d) /\ Alone(d)' = Alone(d)
    BY <1>10 DEF docVars, RowSound, Alone, KeysOf, Exists, Numbers, Stored, VersioningOf, Knows,
       Current, IsLatest
  <2> QED BY <1>10, <2>1, <2>2 DEF docVars, DocumentsInv, Ready, Exists, Numbers, KeysOf, Stored
<1> QED BY <1>1, <1>2, <1>3, <1>4, <1>5, <1>6, <1>7, <1>8, <1>9, <1>10, InsertDocumentPreserves,
           InsertVersionPreserves, UpdateDocumentPreserves DEF DocumentsNext

-----------------------------------------------------------------------------
LEMMA DocumentsInvCoherent == DocumentsInv => DocumentsCoherent
<1> SUFFICES ASSUME DocumentsInv PROVE DocumentsCoherent
  OBVIOUS
<1>1. \A d \in Docs : RowSound(d)
  BY DEF DocumentsInv
<1>2. NumbersContiguous
  BY <1>1 DEF NumbersContiguous, RowSound
<1>3. KeyIsOwn
  BY <1>1 DEF KeyIsOwn, RowSound
<1>4. KeysAreStored
  <2>1. \A d \in Docs : Exists(d) => KeysOf(d) \subseteq object \cup NamedKeys
    BY <1>1 DEF RowSound, KeysOf, Stored
  <2>2. unread \subseteq Docs
    BY DEF DocumentsInv, DocumentsTypeOK
  <2> QED BY <1>1, <2>1, <2>2 DEF KeysAreStored, RowSound
<1>5. LatestIsCurrent
  BY DEF LatestIsCurrent, DocumentsInv, Alone, Current
<1> QED BY <1>2, <1>3, <1>4, <1>5 DEF DocumentsCoherent

\* DocumentsTypeOK: rows, keys and requests have the shape that upload,
\* createVersion and the downloads give them.
THEOREM DocumentsTypeCorrect == DocumentsSpec => []DocumentsTypeOK
<1>1. DocumentsInv => DocumentsTypeOK
  BY DEF DocumentsInv
<1> QED BY <1>1, InitDocumentsInv, NextDocumentsInv, PTL DEF DocumentsSpec

\* The versions of a document are contiguous, its key is one of its own, its
\* minted keys have their bytes, and unless createVersions overlapped or died
\* it is at its latest version.
THEOREM DocumentsStayCoherent == DocumentsSpec => []DocumentsCoherent
<1> QED BY InitDocumentsInv, NextDocumentsInv, DocumentsInvCoherent, PTL DEF DocumentsSpec
=============================================================================
