------------------------------- MODULE ExactRag -------------------------------
(***************************************************************************)
(* What the retrieval engines return for an index built over a snapshot    *)
(* (interest_growth_native/rag: exact.py, native.py; knowledge.py).  An    *)
(* upstream answers with hits that carry the identity of a source, or of   *)
(* something it should not have returned; rank, text and location do not   *)
(* matter here.  Chunks of a native index keep the source they were split  *)
(* from, so a native engine can only return sources of its index.          *)
(***************************************************************************)
CONSTANTS
  KSources,      \* source ids
  UnknownOrigin, \* an identity that is not a source of the host
  NativeEngines, \* native-lexical ...
  Rejected       \* the answer of an engine that raised

ExactEngines == {"llamaindex", "lightrag", "graphrag", "pageindex"}
Origins == KSources \cup {UnknownOrigin}

\* LlamaIndex carries source_id as metadata, LightRAG the collision-safe file name: one hit that does
\* not map to a source of the index refuses the whole answer.
mapped_or_rejected(index, hits) == IF hits \subseteq index THEN hits ELSE Rejected

\* GraphRAG skips text units whose document is not one of its sources, and refuses when none is left.
mapped_if_any(index, hits) ==
  IF hits # {} /\ hits \cap index = {} THEN Rejected ELSE hits \cap index

\* PageIndex asks about each document it has submitted: the source is known from the request.
asked_document(index, hits) == hits \cap index

adapter_retrieve(engine, index, hits) ==
  CASE engine \in {"llamaindex", "lightrag"} -> mapped_or_rejected(index, hits)
    [] engine = "graphrag" -> mapped_if_any(index, hits)
    [] OTHER -> asked_document(index, hits)

native_search(index, hits) == hits \cap index

\* NativeRetrievalEngine.retrieve maps every candidate to the snapshot the index was built from.
retrieve_from(engine, index, hits) ==
  IF engine \in NativeEngines THEN native_search(index, hits)
  ELSE LET answer == adapter_retrieve(engine, index, hits)
       IN IF answer = Rejected \/ answer \subseteq index THEN answer ELSE Rejected
=============================================================================
