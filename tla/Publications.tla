----------------------------- MODULE Publications -----------------------------
(***************************************************************************)
(* What is published from claims: content packs (pg_api/content.py,        *)
(* routes/content.py) and living books (pg_api/living_book.py), and how    *)
(* they are told of a change: a claim's change by an event that is handled *)
(* after its commit (pg_api/events.py), a source's by a search in the      *)
(* commit itself (pg_api/source_dependencies.py).                          *)
(*                                                                         *)
(* A pack shows the claims it was given as they were when it was built, a  *)
(* chapter all claims of its topic.  A pack that is built from what is no  *)
(* longer so when it is stored is marked late here: no code looks for it.  *)
(***************************************************************************)
EXTENDS ResearchEvidence

CONSTANTS Packs, Books

VARIABLES
  pack,   \* content pack -> its row and its publish.json
  book,   \* living book -> its row and its chapter
  missed  \* notices that reached no subscriber: <<claim, "content" or "book">>

pubvars == <<researchvars, pack, book, missed>>

Shown == [Claims -> 0 .. MaxVersions]  \* the version that is shown, 0 if the claim is not
Nothing == [c \in Claims |-> 0]
InStore(p) == pack[p].at \in {"active", "archived"}          \* ids are not used again
OnShelf(b) == book[b].status \notin {"absent", "gone"}
ClaimsIn(x) == {c \in Claims : x.shown[c] > 0}

NoPack == [at |-> "absent", shown |-> Nothing, srefs |-> {}, ready |-> FALSE,
           review |-> FALSE, approved |-> FALSE, late |-> FALSE]
Pack == [at : {"absent", "active", "archived", "gone"}, shown : Shown, srefs : SUBSET Sources, ready : BOOLEAN,
         review : BOOLEAN, approved : BOOLEAN, late : BOOLEAN]
NoBook == [status |-> "absent", chapter |-> "none", shown |-> Nothing, saw |-> {}, srefs |-> {}, late |-> FALSE,
           projection |-> "local_only", spine |-> FALSE]
Book == [status : {"absent", "draft", "compiled", "stale", "archived", "gone"}, chapter : {"none", "current", "stale"},
         shown : Shown, saw : SUBSET Claims, srefs : SUBSET Sources, late : BOOLEAN,
         projection : {"local_only", "proposal_pending_review", "spine_pending_review", "accepted"}, spine : BOOLEAN]

PublicationRequests ==
  [op : {"build"}, pack : Packs, shown : Shown, srefs : SUBSET Sources, ready : BOOLEAN]
    \cup [op : {"approve"}, pack : Packs] \cup [op : {"project"}, book : Books]
    \cup [op : {"compile"}, book : Books, shown : Shown, saw : SUBSET Claims, srefs : SUBSET Sources]

PublicationTypeOK == /\ ResearchTypeOK /\ pack \in [Packs -> Pack] /\ book \in [Books -> Book]
                     /\ missed \subseteq Claims \X {"content", "book"}
                     /\ req \in [ResearchThreads -> ResearchRequests \cup PublicationRequests]

PublicationInit == /\ ResearchInit /\ pack = [p \in Packs |-> NoPack] /\ book = [b \in Books |-> NoBook]
                   /\ missed = {}

RowsKept == UNCHANGED <<source_row, evidence, claim, overtaken>>
Versions(cs) == [c \in Claims |-> IF c \in cs THEN claim[c].version ELSE 0]
\* A claim can be published: it is verified and so is, still, everything that supports it.
ready_for_expression(c) == claim[c].verified /\ Basis(c)
\* What is about to be stored shows a claim as it is no longer.
Outdated(x, saw) == \E c \in ClaimsIn(x) : x.shown[c] # claim[c].version \/ (c \in saw /\ ~claim[c].verified)

-----------------------------------------------------------------------------
(* Content packs.  A language model may rewrite the text between build and storage. *)

build_read(t, p) ==
  /\ pack[p].at = "absent" /\ \A u \in ResearchThreads : req[u].op = "build" => req[u].pack # p
  /\ \E cs \in SUBSET {c \in Claims : claim[c].version > 0} : \E srefs \in SUBSET {s \in Sources : Stored(s)} :
     \E ready \in BOOLEAN :
       /\ cs \cup srefs # {} /\ (ready => \A c \in cs : ready_for_expression(c))
       /\ Reads(t, [op |-> "build", pack |-> p, shown |-> Versions(cs), srefs |-> srefs, ready |-> ready])
  /\ RowsKept /\ UNCHANGED <<pack, book, missed>>

build_commit(t) ==
  /\ req[t].op = "build"
  /\ pack' = [pack EXCEPT ![req[t].pack] =
                [at |-> "active", shown |-> req[t].shown, srefs |-> req[t].srefs, ready |-> req[t].ready,
                 review |-> FALSE, approved |-> FALSE,
                 late |-> Outdated(req[t], IF req[t].ready THEN ClaimsIn(req[t]) ELSE {})]]
  /\ Done(t) /\ RowsKept /\ UNCHANGED <<book, missed>>

approve_read(t, p) ==
  /\ InStore(p) /\ ~pack[p].review /\ pack[p].ready
  /\ Reads(t, [op |-> "approve", pack |-> p])
  /\ RowsKept /\ UNCHANGED <<pack, book, missed>>

approve_commit(t) ==
  /\ req[t].op = "approve" /\ InStore(req[t].pack)
  /\ pack' = [pack EXCEPT ![req[t].pack].approved = TRUE]
  /\ Done(t) /\ RowsKept /\ UNCHANGED <<book, missed>>

archive_pack(p) == /\ InStore(p)
                   /\ \E at \in {"active", "archived"} : pack' = [pack EXCEPT ![p].at = at]
                   /\ RowsKept /\ UNCHANGED <<req, book, missed>>

delete_pack(p) == /\ InStore(p) /\ pack' = [pack EXCEPT ![p] = [NoPack EXCEPT !.at = "gone"]]
                  /\ RowsKept /\ UNCHANGED <<req, book, missed>>

\* The row passes the gate of the export, archived or not.
Exportable(p) == InStore(p) /\ ~pack[p].review /\ pack[p].approved

-----------------------------------------------------------------------------
(* Living books. *)

WithBook(b, x) == book' = [book EXCEPT ![b] = x]

create_book(b) == /\ book[b].status = "absent" /\ WithBook(b, [NoBook EXCEPT !.status = "draft"])
                  /\ RowsKept /\ UNCHANGED <<req, pack, missed>>

compile_read(t, b) ==
  /\ OnShelf(b)
  /\ LET cs == {c \in Claims : claim[c].version > 0} IN
       \E cites \in SUBSET (Recorded \cap UNION {claim[c].cited : c \in cs}) :  \* by the current versions
         /\ Recorded \cap UNION {claim[c].support : c \in cs} \subseteq cites
         /\ Reads(t, [op |-> "compile", book |-> b, shown |-> Versions(cs), saw |-> {c \in cs : claim[c].verified},
                      srefs |-> {SourceOf[e] : e \in cites}])
  /\ RowsKept /\ UNCHANGED <<pack, book, missed>>

\* An archived book is compiled, and is then listed again.
compile_commit(t) ==
  /\ req[t].op = "compile" /\ OnShelf(req[t].book)
  /\ WithBook(req[t].book, [book[req[t].book] EXCEPT
       !.status = "compiled", !.chapter = "current", !.shown = req[t].shown, !.saw = req[t].saw,
       !.srefs = req[t].srefs, !.late = Outdated(req[t], req[t].saw)])
  /\ Done(t) /\ RowsKept /\ UNCHANGED <<pack, missed>>

project_read(t, b) == /\ OnShelf(b) /\ Reads(t, [op |-> "project", book |-> b])
                      /\ RowsKept /\ UNCHANGED <<pack, book, missed>>

project_commit(t) ==
  /\ req[t].op = "project" /\ OnShelf(req[t].book)
  /\ book' = [book EXCEPT ![req[t].book].projection = "proposal_pending_review"]
  /\ Done(t) /\ RowsKept /\ UNCHANGED <<pack, missed>>

\* The proposal and the spine stay when the next one is made: each can be confirmed again.
confirm_projected_proposal(b) ==
  /\ OnShelf(b) /\ book[b].projection # "local_only"
  /\ WithBook(b, [book[b] EXCEPT !.projection = "spine_pending_review", !.spine = TRUE])
  /\ RowsKept /\ UNCHANGED <<req, pack, missed>>

\* The thread may go on to compile the book (compile_read).
confirm_projected_spine(b) ==
  /\ OnShelf(b) /\ book[b].spine /\ WithBook(b, [book[b] EXCEPT !.projection = "accepted"])
  /\ RowsKept /\ UNCHANGED <<req, pack, missed>>

archive_book(b) == /\ OnShelf(b) /\ WithBook(b, [book[b] EXCEPT !.status = "archived"])
                   /\ RowsKept /\ UNCHANGED <<req, pack, missed>>

restore_book(b) ==
  /\ OnShelf(b)
  /\ WithBook(b, [book[b] EXCEPT !.status = IF book[b].chapter = "none" THEN "draft" ELSE "compiled"])
  /\ RowsKept /\ UNCHANGED <<req, pack, missed>>

delete_book(b) == /\ OnShelf(b) /\ WithBook(b, [NoBook EXCEPT !.status = "gone"])
                  /\ RowsKept /\ UNCHANGED <<req, pack, missed>>

\* The row was deleted meanwhile, or the model fails.
publication_refused(t) == /\ req[t].op \in {"build", "approve", "compile", "project"} /\ Done(t)
                          /\ RowsKept /\ UNCHANGED <<pack, book, missed>>

-----------------------------------------------------------------------------
(* Notices.  The events of the claims that one commit changes are taken together. *)

Staled(b) == [book[b] EXCEPT !.chapter = IF @ = "none" THEN "none" ELSE "stale"]
Told(t, next) == req' = [req EXCEPT ![t] = IF next = "none" THEN Idle ELSE [@ EXCEPT !.to = next]]

\* For a mutant: the approval is taken back, and the pack can be approved again as it is.
content_handler_unmarked(t) ==
  /\ req[t].op = "emit" /\ req[t].to = "content"
  /\ pack' = [p \in Packs |-> IF ClaimsIn(pack[p]) \cap req[t].claims # {}
                              THEN [pack[p] EXCEPT !.approved = FALSE] ELSE pack[p]]
  /\ Told(t, "book") /\ RowsKept /\ UNCHANGED <<book, missed>>

content_handler(t) ==
  /\ req[t].op = "emit" /\ req[t].to = "content"
  /\ pack' = [p \in Packs |-> IF ClaimsIn(pack[p]) \cap req[t].claims # {}
                              THEN [pack[p] EXCEPT !.review = TRUE, !.approved = FALSE] ELSE pack[p]]
  /\ Told(t, "book") /\ RowsKept /\ UNCHANGED <<book, missed>>

book_handler(t) ==
  /\ req[t].op = "emit" /\ req[t].to = "book"
  /\ book' = [b \in Books |-> IF ClaimsIn(book[b]) \cap req[t].claims # {} THEN Staled(b) ELSE book[b]]
  /\ Told(t, "none") /\ RowsKept /\ UNCHANGED <<pack, missed>>

\* The plugin is disabled now, or the handler fails on a row that is deleted meanwhile (its exception
\* is only recorded): nobody is told later.
handler_skipped(t) ==
  /\ req[t].op = "emit" /\ missed' = missed \cup (req[t].claims \X {req[t].to})
  /\ Told(t, IF req[t].to = "content" THEN "book" ELSE "none") /\ RowsKept /\ UNCHANGED <<pack, book>>

api_crashes ==
  /\ req' = [t \in ResearchThreads |-> Idle]
  /\ missed' = missed \cup UNION {(req[t].claims \X (IF req[t].to = "content" THEN {"content", "book"} ELSE {"book"})) :
                                  t \in {u \in ResearchThreads : req[u].op = "emit"}}
  /\ RowsKept /\ UNCHANGED <<pack, book>>

\* Packs and books that depend on source s or on the claims cs.  A reference to any source sends a pack
\* back, not only one to the source that changes.
PackHit(p, cs) == pack[p].srefs # {} \/ ClaimsIn(pack[p]) \cap cs # {}
BookHit(b, s, cs) == s \in book[b].srefs \/ ClaimsIn(book[b]) \cap cs # {}

Returned(p, cs) == IF PackHit(p, cs) THEN [pack[p] EXCEPT !.review = TRUE, !.approved = FALSE] ELSE pack[p]

\* A book follows its chapter only where the chapter names the source; it leaves the archive then.
Restaled(b, s, cs) ==
  LET x == IF BookHit(b, s, cs) THEN Staled(b) ELSE book[b]
  IN IF s \in book[b].srefs THEN [x EXCEPT !.status = "stale"] ELSE x

invalidate_source(t) ==
  LET s == req[t].src
      cs == affected_claims(s)
  IN /\ invalidate_rows(t)
     /\ pack' = [p \in Packs |-> Returned(p, cs)]
     /\ book' = [b \in Books |-> Restaled(b, s, cs)]
     /\ UNCHANGED missed

\* The deletion has the write lock since its search for claims, or takes it with the first row it
\* changes: what depends on claims cs is as it is at the commit.  The references to the source go.
delete_dependents(t, cs) ==
  LET s == req[t].src
  IN /\ pack' = [p \in Packs |-> [Returned(p, cs) EXCEPT !.srefs = @ \ {s}]]
     /\ book' = [b \in Books |-> Restaled(b, s, cs)]
     /\ UNCHANGED missed

delete_locked(t) ==
  /\ Deleting(t, "locked") /\ req[t].found \subseteq Recorded
  /\ LET cs == citing(req[t].found) IN
       delete_rows(t, EvidenceOf(req[t].src), cs, cs) /\ delete_dependents(t, cs)

delete_changing(t) ==
  /\ Deleting(t, "dependents")
  /\ \/ req[t].seen # {} \/ \E p \in Packs : PackHit(p, req[t].cites)
     \/ \E b \in Books : BookHit(b, req[t].src, req[t].cites)
  /\ delete_rows(t, EvidenceOf(req[t].src), req[t].seen, req[t].cites) /\ delete_dependents(t, req[t].cites)

\* No claim, pack or book has to be changed: still no lock.
find_dependents(t) ==
  /\ Deleting(t, "dependents") /\ req[t].seen = {}
  /\ \A p \in Packs : Returned(p, req[t].cites) = pack[p]
  /\ \A b \in Books : Restaled(b, req[t].src, req[t].cites) = book[b]
  /\ Searches(t, [req[t] EXCEPT !.at = "derivatives"]) /\ UNCHANGED <<pack, book, missed>>

delete_unchanging(t) ==
  /\ Deleting(t, "rows")
  /\ delete_rows(t, req[t].found, {}, req[t].cites)
  /\ pack' = [p \in Packs |-> [pack[p] EXCEPT !.srefs = @ \ {req[t].src}]]
  /\ UNCHANGED <<book, missed>>

delete_source(t) == delete_locked(t) \/ delete_changing(t) \/ find_dependents(t) \/ delete_unchanging(t)

PublicationNext ==
  \/ ResearchNext /\ UNCHANGED <<pack, book, missed>>
  \/ \E p \in Packs : archive_pack(p) \/ delete_pack(p)
  \/ \E b \in Books : \/ create_book(b) \/ archive_book(b) \/ restore_book(b) \/ delete_book(b)
                      \/ confirm_projected_proposal(b) \/ confirm_projected_spine(b)
  \/ \E t \in ResearchThreads :
       \/ \E p \in Packs : build_read(t, p) \/ approve_read(t, p)
       \/ \E b \in Books : compile_read(t, b) \/ project_read(t, b)
       \/ build_commit(t) \/ approve_commit(t) \/ compile_commit(t) \/ project_commit(t) \/ publication_refused(t)
       \/ content_handler(t) \/ book_handler(t) \/ handler_skipped(t)
       \/ invalidate_source(t) \/ delete_source(t)
  \/ api_crashes

PublicationSpec == PublicationInit /\ [][PublicationNext]_pubvars

-----------------------------------------------------------------------------
(* Properties. *)

\* The notice of a change of claim c is still on its way to subscriber h, or has been lost.
Untold(c, h) ==
  \/ <<c, h>> \in missed
  \/ \E t \in ResearchThreads : /\ req[t].op = "emit" /\ c \in req[t].claims
                                /\ req[t].to = h \/ req[t].to = "content"

\* A pack that can be exported shows current versions of claims that are still verified, and a chapter
\* that counts as current shows current versions and no verification that was withdrawn, unless the
\* notice is still on its way or was lost, or it was stored over the change (events.py: "A revised Claim
\* invalidates prior approval of dependent publish artifacts").
DerivedIsCurrent ==
  /\ \A p \in Packs : Exportable(p) /\ ~pack[p].late =>
       \A c \in ClaimsIn(pack[p]) : \/ pack[p].shown[c] = claim[c].version /\ claim[c].verified
                                    \/ Untold(c, "content")
  /\ \A b \in Books : book[b].chapter = "current" /\ ~book[b].late =>
       \A c \in ClaimsIn(book[b]) : \/ /\ book[b].shown[c] = claim[c].version
                                       /\ c \in book[b].saw => claim[c].verified
                                    \/ Untold(c, "book")
=============================================================================
