---------------------------- MODULE InterestAreas -----------------------------
(***************************************************************************)
(* Interest areas (pg_api/domains.py, routes/areas.py), the binding of new *)
(* rows to the requester's area (pg_api/scoping.py), and questions and     *)
(* topics that live in one (pg_api/question_transitions.py,                *)
(* routes/questions.py).                                                   *)
(*                                                                         *)
(* A request names its area.  The area is looked up when the request       *)
(* checks what it is about and again, by the session's hook, when new rows *)
(* are flushed: an area archived meanwhile refuses the whole transaction.  *)
(* A commit writes only the columns whose value differs from the one read. *)
(***************************************************************************)
EXTENDS Naturals, FiniteSets

CONSTANTS
  Areas, DefaultArea,
  Questions, Topics,
  NoArea, NoQuestion,
  MaxReturns,     \* returns of one question (bound)
  AreaThreads

ASSUME AreaAssumption == /\ DefaultArea \in Areas /\ MaxReturns \in Nat
                         /\ NoArea \notin Areas /\ NoQuestion \notin Questions

VARIABLES
  area,      \* area -> its row, and its setting of the capability of questions
  question,  \* question -> its row and the area it is bound to
  topic,     \* topic -> its row and the area it is bound to
  areq       \* thread -> the request it handles

areavars == <<area, question, topic, areq>>

QuestionStates == {"captured", "exploring", "paused", "returned", "active_topic", "closed"}
NoQuestionRow == [state |-> "absent", active |-> FALSE, returned |-> 0, area |-> NoArea]
NoTopicRow == [at |-> "absent", question |-> NoQuestion, area |-> NoArea]
AtRest == [op |-> "idle"]
Question == [state : QuestionStates \cup {"absent"}, active : BOOLEAN, returned : 0 .. MaxReturns,
             area : Areas \cup {NoArea}]
AreaRequests ==
  {AtRest} \cup [op : {"transition"}, question : Questions, seen : Question, target : QuestionStates]
           \cup [op : {"promote"}, question : Questions, seen : Question, area : Areas]
           \cup [op : {"topic"}, question : Questions \cup {NoQuestion}, area : Areas]

AreaTypeOK ==
  /\ area \in [Areas -> [at : {"absent", "active", "archived"}, capability : {"unset", "on", "off"}]]
  /\ question \in [Questions -> Question]
  /\ topic \in [Topics -> [at : {"absent", "active", "archived"}, question : Questions \cup {NoQuestion},
                           area : Areas \cup {NoArea}]]
  /\ areq \in [AreaThreads -> AreaRequests]

\* The start seeds the default area and the settings it does not have yet.
AreaInit == /\ area = [a \in Areas |-> IF a = DefaultArea THEN [at |-> "active", capability |-> "on"]
                                       ELSE [at |-> "absent", capability |-> "unset"]]
            /\ question = [q \in Questions |-> NoQuestionRow] /\ topic = [k \in Topics |-> NoTopicRow]
            /\ areq = [t \in AreaThreads |-> AtRest]

resolve_area(a) == area[a].at = "active"
area_capability_enabled(a) == resolve_area(a) /\ area[a].capability # "off"
require_in_area(q, a) == area_capability_enabled(a) /\ question[q].area = a
Opens(t, r) == areq[t] = AtRest /\ areq' = [areq EXCEPT ![t] = r]
Closes(t) == areq' = [areq EXCEPT ![t] = AtRest]

-----------------------------------------------------------------------------
(* Areas. *)

create_interest_area(a) ==
  /\ area[a].at = "absent"
  /\ \E c \in {"unset", "on", "off"} : area' = [area EXCEPT ![a] = [at |-> "active", capability |-> c]] \* of its domain pack
  /\ UNCHANGED <<question, topic, areq>>

\* Not the default, nor the area of the client who asks; another client may be in it.
update_area(a, current) ==
  /\ area[a].at # "absent" /\ a # DefaultArea /\ (resolve_area(current) => a # current)
  /\ area' = [area EXCEPT ![a].at = "archived"]
  /\ UNCHANGED <<question, topic, areq>>

restore_area(a) == /\ area[a].at = "archived" /\ area' = [area EXCEPT ![a].at = "active"]
                   /\ UNCHANGED <<question, topic, areq>>

set_area_capability(a) == /\ area[a].at # "absent"
                          /\ \E c \in {"on", "off"} : area' = [area EXCEPT ![a].capability = c]
                          /\ UNCHANGED <<question, topic, areq>>

\* The process ends and starts again; what a user has set is kept.
seed_default_area ==
  /\ area' = [area EXCEPT ![DefaultArea].capability = IF @ = "unset" THEN "on" ELSE @]
  /\ areq' = [t \in AreaThreads |-> AtRest] /\ UNCHANGED <<question, topic>>

-----------------------------------------------------------------------------
(* Questions and topics. *)

Allowed == [captured |-> {"exploring", "paused", "returned", "active_topic", "closed"},
            exploring |-> {"paused", "returned", "active_topic", "closed"},
            paused |-> {"returned", "exploring", "closed"},
            returned |-> {"exploring", "paused", "active_topic", "closed"},
            active_topic |-> {"paused", "returned", "closed"},
            closed |-> {}, absent |-> {}]

create_question(q, a) ==
  /\ question[q].state = "absent" /\ area_capability_enabled(a)
  /\ question' = [question EXCEPT ![q] = [state |-> "captured", active |-> TRUE, returned |-> 0, area |-> a]]
  /\ UNCHANGED <<area, topic, areq>>

Shows(target) == target \notin {"paused", "closed"}

\* The columns that the handler has changed, against the row it had read.
Written(q, seen, target) ==
  LET row == question[q] IN
  [question EXCEPT ![q] =
     [row EXCEPT !.state = IF target = seen.state THEN row.state ELSE target,
                 !.active = IF Shows(target) = seen.active THEN row.active ELSE Shows(target),
                 !.returned = IF target = "returned" THEN seen.returned + 1 ELSE row.returned]]

transition_read(t, q, a, target) ==
  /\ require_in_area(q, a) /\ target \in Allowed[question[q].state] \ {"active_topic"}
  /\ (target = "returned" => question[q].returned < MaxReturns)
  /\ Opens(t, [op |-> "transition", question |-> q, seen |-> question[q], target |-> target])
  /\ UNCHANGED <<area, question, topic>>

transition_commit(t) ==
  /\ areq[t].op = "transition"
  /\ question' = Written(areq[t].question, areq[t].seen, areq[t].target)
  /\ Closes(t) /\ UNCHANGED <<area, topic>>

\* A question that has a topic is answered with it and keeps its state.
promote_read(t, q, a) ==
  /\ require_in_area(q, a) /\ \A k \in Topics : topic[k].question # q
  /\ "active_topic" \in Allowed[question[q].state]
  /\ Opens(t, [op |-> "promote", question |-> q, seen |-> question[q], area |-> a])
  /\ UNCHANGED <<area, question, topic>>

topic_read(t, q, a) ==
  /\ area_capability_enabled(a) /\ (q # NoQuestion => question[q].area = a)
  /\ Opens(t, [op |-> "topic", question |-> q, area |-> a])
  /\ UNCHANGED <<area, question, topic>>

\* The hook binds the new row to the area, if it still is one.
Bound(t, k) == /\ topic[k].at = "absent" /\ resolve_area(areq[t].area)
               /\ topic' = [topic EXCEPT ![k] = [at |-> "active", question |-> areq[t].question, area |-> areq[t].area]]

\* For a mutant: the transition stays when the topic is refused.
promote_torn(t) ==
  /\ areq[t].op = "promote" /\ question' = Written(areq[t].question, areq[t].seen, "active_topic")
  /\ \/ \E k \in Topics : Bound(t, k)
     \/ ~resolve_area(areq[t].area) /\ UNCHANGED topic
  /\ Closes(t) /\ UNCHANGED area

\* Topic and transition in one commit.
promote_to_topic(t) ==
  /\ areq[t].op = "promote" /\ question' = Written(areq[t].question, areq[t].seen, "active_topic")
  /\ \E k \in Topics : Bound(t, k)
  /\ Closes(t) /\ UNCHANGED area

\* The question's state does not follow.
create_topic(t) == /\ areq[t].op = "topic" /\ (\E k \in Topics : Bound(t, k))
                   /\ Closes(t) /\ UNCHANGED <<area, question>>

archive_topic(k, a) ==
  /\ topic[k].at # "absent" /\ topic[k].area = a /\ area_capability_enabled(a)
  /\ \E at \in {"active", "archived"} : topic' = [topic EXCEPT ![k].at = at]
  /\ UNCHANGED <<area, question, areq>>

area_refused(t) == areq[t] # AtRest /\ Closes(t) /\ UNCHANGED <<area, question, topic>>

AreaNext ==
  \/ \E a \in Areas : \/ create_interest_area(a) \/ restore_area(a) \/ set_area_capability(a)
                      \/ \E current \in Areas : update_area(a, current)
                      \/ \E q \in Questions : create_question(q, a)
                      \/ \E k \in Topics : archive_topic(k, a)
  \/ \E t \in AreaThreads :
       \/ \E a \in Areas : \/ \E q \in Questions : \/ promote_read(t, q, a)
                                                   \/ \E target \in QuestionStates : transition_read(t, q, a, target)
                           \/ \E q \in Questions \cup {NoQuestion} : topic_read(t, q, a)
       \/ transition_commit(t) \/ promote_to_topic(t) \/ create_topic(t) \/ area_refused(t)
  \/ seed_default_area

AreaSpec == AreaInit /\ [][AreaNext]_areavars

\* A question whose state says it became a topic has one, and a topic lies in the area of its question,
\* whatever transitions race and whichever area is archived meanwhile (routes/questions.py:
\* promote_to_topic; scoping.py).
PromotedHasTopic ==
  /\ \A q \in Questions : question[q].state = "active_topic" => \E k \in Topics : topic[k].question = q
  /\ \A k \in Topics : topic[k].question # NoQuestion => topic[k].area = question[topic[k].question].area
=============================================================================
