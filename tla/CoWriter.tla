------------------------------- MODULE CoWriter -------------------------------
(***************************************************************************)
(* Writing documents and the revisions a model proposes for them           *)
(* (pg_api/cowriter.py, routes/cowriter.py).  A revision keeps the hash of *)
(* the text it was made for; accepting it compares the hash, but nothing   *)
(* holds the text between the comparison and the commit.                   *)
(***************************************************************************)
EXTENDS Naturals

CONSTANTS Documents, Revisions, Texts, WriteThreads, NoText

ASSUME WriteAssumption == NoText \notin Texts \cup Documents

VARIABLES
  document, \* document -> its row
  revision, \* revision -> its row; result is the text that accepting it makes
  wreq,     \* thread -> the request it handles
  applied,  \* revision -> the texts it was put into (history)
  beaten    \* revisions whose decision was committed over an edit or another decision (history)

writevars == <<document, revision, wreq, applied, beaten>>

NoDocument == [status |-> "absent", text |-> NoText]
NoRevision == [status |-> "absent", doc |-> NoText, base |-> NoText, result |-> NoText]
Free == [op |-> "idle"]
WriteRequests ==
  {Free} \cup [op : {"edit"}, doc : Documents, seen : Texts, text : Texts]
         \cup [op : {"propose"}, doc : Documents, rev : Revisions, base : Texts]
         \cup [op : {"decide"}, rev : Revisions, seen : Texts, accept : BOOLEAN]
         \cup [op : {"delete"}, doc : Documents, revs : SUBSET Revisions]

WriteTypeOK ==
  /\ document \in [Documents -> [status : {"absent", "draft", "review", "published", "archived", "gone"},
                                 text : Texts \cup {NoText}]]
  /\ revision \in [Revisions -> [status : {"absent", "proposed", "accepted", "rejected", "gone"},
                                 doc : Documents \cup {NoText},
                                 base : Texts \cup {NoText}, result : Texts \cup {NoText}]]
  /\ wreq \in [WriteThreads -> WriteRequests]
  /\ applied \in [Revisions -> SUBSET Texts] /\ beaten \subseteq Revisions

WriteInit == /\ document = [d \in Documents |-> NoDocument] /\ revision = [r \in Revisions |-> NoRevision]
             /\ wreq = [t \in WriteThreads |-> Free]
             /\ applied = [r \in Revisions |-> {}] /\ beaten = {}

Open(d) == document[d].status \notin {"absent", "gone"}
Asks(t, r) == wreq[t] = Free /\ wreq' = [wreq EXCEPT ![t] = r]
Ready(t) == wreq' = [wreq EXCEPT ![t] = Free]

create_document(d) ==
  /\ document[d].status = "absent"
  /\ \E x \in Texts : document' = [document EXCEPT ![d] = [status |-> "draft", text |-> x]]
  /\ UNCHANGED <<revision, wreq, applied, beaten>>

edit_read(t, d) == /\ Open(d) /\ \E x \in Texts : Asks(t, [op |-> "edit", doc |-> d, seen |-> document[d].text, text |-> x])
                   /\ UNCHANGED <<document, revision, applied, beaten>>

\* The text is replaced as a whole, whoever has written to it; it is not written if it was so when read.
update_document(t) ==
  /\ wreq[t].op = "edit" /\ Open(wreq[t].doc)
  /\ document' = [document EXCEPT ![wreq[t].doc].text = IF wreq[t].text = wreq[t].seen THEN @ ELSE wreq[t].text]
  /\ Ready(t) /\ UNCHANGED <<revision, applied, beaten>>

\* Its status is set by the same handler, archiving and restoring included.
set_status(d) == /\ Open(d)
                 /\ \E s \in {"draft", "review", "published", "archived"} : document' = [document EXCEPT ![d].status = s]
                 /\ UNCHANGED <<revision, wreq, applied, beaten>>

propose_read(t, d, r) ==
  /\ Open(d) /\ revision[r].status = "absent" /\ \A u \in WriteThreads : wreq[u].op = "propose" => wreq[u].rev # r
  /\ Asks(t, [op |-> "propose", doc |-> d, rev |-> r, base |-> document[d].text])
  /\ UNCHANGED <<document, revision, applied, beaten>>

\* The model has answered: the row is stored, whatever has become of the document.
propose_revision(t) ==
  /\ wreq[t].op = "propose"
  /\ \E x \in Texts : revision' = [revision EXCEPT ![wreq[t].rev] =
       [status |-> "proposed", doc |-> wreq[t].doc, base |-> wreq[t].base, result |-> x]]
  /\ Ready(t) /\ UNCHANGED <<document, applied, beaten>>

\* For a mutant: the hash is not compared.
decide_unchecked(t, r) ==
  /\ revision[r].status = "proposed" /\ Open(revision[r].doc)
  /\ \E accept \in BOOLEAN :
       Asks(t, [op |-> "decide", rev |-> r, seen |-> document[revision[r].doc].text, accept |-> accept])
  /\ UNCHANGED <<document, revision, applied, beaten>>

decide_read(t, r) ==
  /\ revision[r].status = "proposed" /\ Open(revision[r].doc)
  /\ \E accept \in BOOLEAN :
       /\ accept => document[revision[r].doc].text = revision[r].base
       /\ Asks(t, [op |-> "decide", rev |-> r, seen |-> document[revision[r].doc].text, accept |-> accept])
  /\ UNCHANGED <<document, revision, applied, beaten>>

Overtakes(r, seen) == revision[r].status # "proposed" \/ document[revision[r].doc].text # seen

decide_revision(t) ==
  /\ wreq[t].op = "decide" /\ revision[wreq[t].rev].status # "gone"
  /\ LET r == wreq[t].rev  d == revision[wreq[t].rev].doc IN
       /\ wreq[t].accept /\ revision[r].result # wreq[t].seen => Open(d)
       /\ revision' = [revision EXCEPT ![r].status = IF wreq[t].accept THEN "accepted" ELSE "rejected"]
       /\ document' = IF wreq[t].accept /\ revision[r].result # wreq[t].seen
                      THEN [document EXCEPT ![d].text = revision[r].result] ELSE document
       /\ applied' = IF wreq[t].accept /\ Open(d) THEN [applied EXCEPT ![r] = @ \cup {document[d].text}] ELSE applied
       /\ beaten' = IF Overtakes(r, wreq[t].seen) THEN beaten \cup {r} ELSE beaten
  /\ Ready(t)

delete_read(t, d) ==
  /\ Open(d)
  /\ Asks(t, [op |-> "delete", doc |-> d,
              revs |-> {r \in Revisions : revision[r].doc = d /\ revision[r].status # "gone"}])
  /\ UNCHANGED <<document, revision, applied, beaten>>

\* A revision that was proposed since stays, without its document.
delete_document(t) ==
  /\ wreq[t].op = "delete" /\ Open(wreq[t].doc)
  /\ document' = [document EXCEPT ![wreq[t].doc] = [NoDocument EXCEPT !.status = "gone"]]
  /\ revision' = [r \in Revisions |-> IF r \in wreq[t].revs THEN [revision[r] EXCEPT !.status = "gone"] ELSE revision[r]]
  /\ Ready(t) /\ UNCHANGED <<applied, beaten>>

\* The row is gone, the model has failed or the process has ended.
write_refused(t) == wreq[t] # Free /\ Ready(t) /\ UNCHANGED <<document, revision, applied, beaten>>

WriteNext ==
  \/ \E d \in Documents : create_document(d) \/ set_status(d)
  \/ \E t \in WriteThreads :
       \/ \E d \in Documents : edit_read(t, d) \/ delete_read(t, d)
       \/ \E d \in Documents : \E r \in Revisions : propose_read(t, d, r)
       \/ \E r \in Revisions : decide_read(t, r)
       \/ update_document(t) \/ propose_revision(t) \/ decide_revision(t) \/ delete_document(t) \/ write_refused(t)

WriteSpec == WriteInit /\ [][WriteNext]_writevars

\* What a revision is marked as is what was done with it: an accepted one was put into the very text it
\* was proposed for, and into no other; a rejected one into none - unless an edit or another decision was
\* committed while it was decided (cowriter.py: "document changed after revision proposal").
AcceptedOnItsBase ==
  \A r \in Revisions \ beaten : /\ revision[r].status = "accepted" => applied[r] = {revision[r].base}
                                /\ revision[r].status \in {"proposed", "rejected"} => applied[r] = {}
=============================================================================
