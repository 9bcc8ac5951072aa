--------------------------- MODULE RemoteAuth_proofs ---------------------------
(***************************************************************************)
(* One owner, one pair for one credential, and nothing for a revoked       *)
(* device, for any number of clients, devices and tokens.  The argument:   *)
(* a row of tokens is written once and from then on only loses; so what a  *)
(* request has read of it either still holds when it writes, or the        *)
(* conditional UPDATE finds nothing to consume.                            *)
(***************************************************************************)
EXTENDS RemoteAuth, TLAPS

-----------------------------------------------------------------------------
(* The invariant. *)

\* A pair that was not issued has nothing; the credential a pair replaces is consumed.
PairsOK ==
  \A n \in Pairs : /\ pair[n].dev = NoDevice => pair[n] = NoPairRow
                   /\ pair[n].parent # 0 => pair[pair[n].parent].refresh = "consumed"

\* What the request of thread t has found still holds, or the credential it presents is spent.
Found(t) ==
  LET c == call[t] IN
  /\ c.out \subseteq Gone
  /\ c.step # "answered" => c.answer = "none"
  /\ c.op = "refresh" => c.pair \in Pairs
  /\ c.op = "revoke" => c.dev \in Devices
  /\ At(t, "refresh", "write") => /\ c.dev \in Devices \ c.out /\ pair[c.pair].dev = c.dev
                                  /\ Active(c.dev) \/ pair[c.pair].refresh # "live"
  /\ At(t, "revoke", "write") => c.pair \in Pairs /\ pair[c.pair].dev \in Devices \ c.out
  /\ c.op \in {"use", "revoke", "refresh"} /\ c.answer = "ok"
       => c.pair \in Pairs /\ pair[c.pair].dev \in Devices \ c.out

AuthInv == /\ AuthTypeOK /\ OneOwner /\ PairsOK /\ ReplacedOnce
           /\ \A t \in AuthThreads : Found(t)

-----------------------------------------------------------------------------
(* Types. *)

LEMMA IdleType == Idle \in Call /\ Idle.op = "none" /\ Idle.answer = "none" /\ Idle.out = {}
<1>1. (CHOOSE x \in DeviceNames : TRUE) \in DeviceNames
  BY AuthAssumption
<1>2. QED
  BY <1>1, AuthAssumption DEF Idle, Call, Ops, Answers

LEMMA InitAuthInv == AuthInit => AuthInv
<1> SUFFICES ASSUME AuthInit PROVE AuthInv
  OBVIOUS
<1>1. AuthTypeOK
  BY IdleType, AuthAssumption
     DEF AuthInit, NoRows, AuthTypeOK, NoPairRow, PairRow, TokenStates, DeviceRow, Idle, Call
<1>2. OneOwner /\ PairsOK /\ ReplacedOnce
  BY DEF AuthInit, NoRows, OneOwner, PairsOK, ReplacedOnce, NoPairRow
<1>3. \A t \in AuthThreads : Found(t)
  BY IdleType DEF AuthInit, NoRows, Found, At
<1>4. QED
  BY <1>1, <1>2, <1>3 DEF AuthInv

\* Changes of a thread's request that keep its type.
LEMMA AnswerType ==
  ASSUME AuthTypeOK, NEW t \in AuthThreads, NEW a \in Answers, Answer(t, a)
  PROVE  call' \in [AuthThreads -> Call]
<1>1. call[t] \in Call
  BY DEF AuthTypeOK
<1>2. [call[t] EXCEPT !.step = "answered", !.answer = a] \in Call
  BY <1>1 DEF Call
<1>3. QED
  BY <1>2 DEF AuthTypeOK, Answer

LEMMA ProceedType ==
  ASSUME AuthTypeOK, NEW t \in AuthThreads, NEW d \in Devices \cup {NoDevice}, Proceed(t, d)
  PROVE  call' \in [AuthThreads -> Call]
<1>1. call[t] \in Call
  BY DEF AuthTypeOK
<1>2. [call[t] EXCEPT !.step = "write", !.dev = d] \in Call
  BY <1>1 DEF Call
<1>3. QED
  BY <1>2 DEF AuthTypeOK, Proceed

LEMMA AskType ==
  ASSUME AuthTypeOK, NEW t \in AuthThreads, NEW op \in Ops, NEW name \in DeviceNames,
         NEW d \in Devices \cup {NoDevice}, NEW n \in 0 .. MaxPairs, Ask(t, op, name, d, n)
  PROVE  call' \in [AuthThreads -> Call]
  BY DEF AuthTypeOK, Ask, Call, Ops, Answers, Gone

-----------------------------------------------------------------------------
(* Rows only lose. *)

\* No device comes back, no pair changes hands, no credential becomes live again, and a live one is
\* left only to a device that stays as it is.
RowsOnlyLose ==
  /\ Gone \subseteq Gone'
  /\ \A n \in Pairs :
       pair[n].dev # NoDevice =>
         /\ pair'[n].dev = pair[n].dev
         /\ pair'[n].refresh = "live" => /\ pair[n].refresh = "live"
                                         /\ Active(pair[n].dev) => Active(pair[n].dev)'

LEMMA FoundStays ==
  ASSUME AuthInv, NEW u \in AuthThreads, call'[u] = call[u], RowsOnlyLose
  PROVE  Found(u)'
<1>1. Found(u)
  BY DEF AuthInv
<1>2. QED
  BY <1>1, AuthAssumption DEF Found, RowsOnlyLose, At, Active

\* The rows after a pair was issued.
LEMMA IssueRows ==
  ASSUME AuthInv, NEW t \in AuthThreads, NEW d \in Devices, NEW old \in 0 .. MaxPairs,
         NEW rows, IssuePair(t, d, old, rows),
         \/ old = 0 /\ rows = pair
         \/ /\ old \in Pairs /\ pair[old].refresh = "live" /\ pair[old].dev # NoDevice
            /\ rows = [pair EXCEPT ![old].refresh = "consumed"],
         Gone \subseteq Gone', \A x \in Devices : Active(x) => Active(x)'
  PROVE  /\ pair' \in [Pairs -> PairRow] /\ PairsOK' /\ ReplacedOnce' /\ RowsOnlyLose
         /\ call' \in [AuthThreads -> Call]
         /\ \A u \in AuthThreads \ {t} : call'[u] = call[u]
         /\ call'[t].op = call[t].op /\ call'[t].step = "answered" /\ call'[t].out = call[t].out
         /\ call'[t].dev = d /\ call'[t].pair \in Pairs /\ pair'[call'[t].pair].dev = d
<1>1. PICK n \in Fresh :
        /\ pair' = [rows EXCEPT ![n] = [dev |-> d, access |-> "live", refresh |-> "live", parent |-> old]]
        /\ call' = [call EXCEPT ![t].step = "answered", ![t].answer = "ok", ![t].dev = d, ![t].pair = n]
  BY DEF IssuePair
<1>2. n \in Pairs /\ pair[n] = NoPairRow /\ pair[n].dev = NoDevice /\ n \in 0 .. MaxPairs
  BY DEF Fresh, AuthInv, PairsOK, Pairs
<1>3. AuthTypeOK /\ PairsOK /\ ReplacedOnce
  BY DEF AuthInv
<1>4. rows \in [Pairs -> PairRow]
  BY <1>3 DEF AuthTypeOK, PairRow, TokenStates
<1>5. \A m \in Pairs : /\ rows[m].dev = pair[m].dev /\ rows[m].parent = pair[m].parent
                       /\ rows[m].refresh = IF m = old THEN "consumed" ELSE pair[m].refresh
                       /\ m # old => rows[m] = pair[m]
  BY <1>3, AuthAssumption DEF AuthTypeOK, PairRow, Pairs
<1>6. old # n
  BY <1>2, AuthAssumption DEF Pairs
<1>7. /\ pair'[n] = [dev |-> d, access |-> "live", refresh |-> "live", parent |-> old]
      /\ \A m \in Pairs \ {n} : pair'[m] = rows[m]
  BY <1>1, <1>2, <1>4
<1>8. pair' \in [Pairs -> PairRow]
  BY <1>1, <1>2, <1>4 DEF PairRow, TokenStates
<1>9. \A m \in Pairs : /\ pair[m].parent \in 0 .. MaxPairs
                       /\ pair[m].parent # 0 => pair[m].parent # n /\ pair[m].parent # old
  <2>1. \A m \in Pairs : pair[m].parent # 0 => pair[pair[m].parent].refresh = "consumed"
    BY <1>3 DEF PairsOK
  <2>2. pair[n].refresh = "none" /\ (old # 0 => pair[old].refresh = "live")
    BY <1>2 DEF NoPairRow
  <2>3. \A m \in Pairs : pair[m].parent \in 0 .. MaxPairs
    BY <1>3 DEF AuthTypeOK, PairRow
  <2>4. QED
    BY <2>1, <2>2, <2>3
<1>10. ReplacedOnce'
  <2>1. \A m \in Pairs \ {n} : pair'[m].parent = pair[m].parent
    BY <1>5, <1>7
  <2>2. pair'[n].parent = old
    BY <1>7
  <2>3. QED
    BY <1>3, <1>9, <2>1, <2>2 DEF ReplacedOnce
<1>11. PairsOK'
  <2>1. ASSUME NEW m \in Pairs PROVE pair'[m].dev = NoDevice => pair'[m] = NoPairRow
    <3>1. CASE m = n
      BY <1>7, <3>1, AuthAssumption
    <3>2. CASE m # n /\ m # old
      <4>1. pair'[m] = pair[m]
        BY <1>5, <1>7, <3>2
      <4>2. QED
        BY <1>3, <4>1 DEF PairsOK
    <3>3. CASE m # n /\ m = old
      <4>1. old # 0
        BY <3>3, AuthAssumption DEF Pairs
      <4>2. pair'[m].dev = pair[old].dev /\ pair[old].dev # NoDevice
        BY <1>5, <1>7, <3>3, <4>1
      <4>3. QED
        BY <4>2
    <3>4. QED
      BY <3>1, <3>2, <3>3
  <2>2. ASSUME NEW m \in Pairs, pair'[m].parent # 0 PROVE pair'[pair'[m].parent].refresh = "consumed"
    <3>1. CASE m = n
      <4>1. pair'[m].parent = old /\ old \in Pairs
        BY <1>7, <2>2, <3>1
      <4>2. QED
        BY <1>5, <1>6, <1>7, <4>1
    <3>2. CASE m # n
      <4>1. pair'[m].parent = pair[m].parent
        BY <1>5, <1>7, <3>2
      <4>4. pair[m].parent \in Pairs
        BY <1>9, <2>2, <4>1, AuthAssumption DEF Pairs
      <4>2. pair[pair[m].parent].refresh = "consumed"
        BY <1>3, <2>2, <4>1, <4>4 DEF PairsOK
      <4>3. QED
        BY <1>5, <1>7, <1>9, <2>2, <4>1, <4>2, <4>4
    <3>3. QED
      BY <3>1, <3>2
  <2>3. QED
    BY <2>1, <2>2 DEF PairsOK
<1>12. RowsOnlyLose
  BY <1>2, <1>3, <1>5, <1>7 DEF RowsOnlyLose, AuthTypeOK, PairRow, Active
<1>13. /\ call' \in [AuthThreads -> Call]
       /\ \A u \in AuthThreads \ {t} : call'[u] = call[u]
       /\ call'[t].op = call[t].op /\ call'[t].step = "answered" /\ call'[t].out = call[t].out
       /\ call'[t].dev = d /\ call'[t].pair = n
  <2>1. call[t] \in Call
    BY <1>3 DEF AuthTypeOK
  <2>2. [call[t] EXCEPT !.step = "answered", !.answer = "ok", !.dev = d, !.pair = n] \in Call
    BY <1>2, <2>1 DEF Call, Answers
  <2>3. QED
    BY <1>1, <1>3, <2>1, <2>2 DEF AuthTypeOK, Call
<1>14. QED
  BY <1>2, <1>7, <1>8, <1>10, <1>11, <1>12, <1>13

-----------------------------------------------------------------------------
(* The steps. *)

\* A step of thread t that writes no row of a device or a pair.
LEMMA ReadingStep ==
  ASSUME AuthInv, NEW t \in AuthThreads, UNCHANGED <<device, pair>>, OneOwner', owners' \in Nat, welcomed' \in Nat,
         call' \in [AuthThreads -> Call], \A u \in AuthThreads \ {t} : call'[u] = call[u], Found(t)'
  PROVE  AuthInv'
<1>1. AuthTypeOK'
  BY DEF AuthInv, AuthTypeOK
<1>2. PairsOK' /\ ReplacedOnce'
  BY DEF AuthInv, PairsOK, ReplacedOnce
<1>3. RowsOnlyLose
  BY DEF RowsOnlyLose, Gone, Active
<1>4. \A u \in AuthThreads : Found(u)'
  BY <1>3, FoundStays
<1>5. QED
  BY <1>1, <1>2, <1>4 DEF AuthInv

\* A step that writes rows.
LEMMA WritingStep ==
  ASSUME AuthInv, NEW t \in AuthThreads, UNCHANGED <<owners, welcomed>>,
         device' \in [Devices -> DeviceRow], pair' \in [Pairs -> PairRow], PairsOK', ReplacedOnce', RowsOnlyLose,
         call' \in [AuthThreads -> Call], \A u \in AuthThreads \ {t} : call'[u] = call[u], Found(t)'
  PROVE  AuthInv'
<1>1. AuthTypeOK' /\ OneOwner'
  BY DEF AuthInv, AuthTypeOK, OneOwner
<1>2. \A u \in AuthThreads : Found(u)'
  BY FoundStays
<1>3. QED
  BY <1>1, <1>2 DEF AuthInv

LEMMA BootstrapStep ==
  ASSUME AuthInv, NEW t \in AuthThreads, BootstrapCheck(t) \/ BootstrapInsert(t)
  PROVE  AuthInv'
<1>1. AuthTypeOK /\ OneOwner /\ Found(t)
  BY DEF AuthInv
<1>2. \/ \E a \in Answers : Answer(t, a)
      \/ Proceed(t, NoDevice)
  BY DEF BootstrapCheck, BootstrapInsert, Answers
<1>3. call[t].op = "bootstrap" /\ call[t].step # "answered" /\ UNCHANGED <<device, pair>> /\ OneOwner' /\ owners' \in Nat /\ welcomed' \in Nat
  BY <1>1 DEF BootstrapCheck, BootstrapInsert, At, OneOwner, AuthTypeOK
<1>4. call' \in [AuthThreads -> Call]
  BY <1>1, <1>2, AnswerType, ProceedType
<1>5. /\ \A u \in AuthThreads \ {t} : call'[u] = call[u]
      /\ call'[t].op = "bootstrap" /\ call'[t].out = call[t].out
      /\ call'[t].step = "answered" \/ call'[t].answer = call[t].answer
  BY <1>1, <1>2, <1>3 DEF Answer, Proceed, AuthTypeOK, Call
<1>6. Found(t)'
  BY <1>1, <1>3, <1>5 DEF Found, At, Gone
<1>7. QED
  BY <1>3, <1>4, <1>5, <1>6, ReadingStep

LEMMA LoginStep ==
  ASSUME AuthInv, NEW t \in AuthThreads, LoginRead(t) \/ LoginIssue(t)
  PROVE  AuthInv'
<1>0. AuthTypeOK /\ OneOwner /\ Found(t)
  BY DEF AuthInv
<1>1. CASE LoginRead(t)
  <2>1. Answer(t, "401") \/ \E d \in Devices \cup {NoDevice} : Proceed(t, d)
    BY <1>1 DEF LoginRead
  <2>2. call' \in [AuthThreads -> Call]
    BY <1>0, <2>1, AnswerType, ProceedType DEF Answers
  <2>3. /\ \A u \in AuthThreads \ {t} : call'[u] = call[u]
        /\ call'[t].op = "login" /\ call'[t].out = call[t].out
        /\ call'[t].step = "answered" \/ call'[t].answer = call[t].answer
    BY <1>0, <1>1, <2>1 DEF LoginRead, At, Answer, Proceed, AuthTypeOK, Call
  <2>4. Found(t)'
    BY <1>0, <1>1, <2>3 DEF LoginRead, Found, At, Gone
  <2>5. QED
    BY <1>0, <1>1, <2>2, <2>3, <2>4, ReadingStep DEF LoginRead, OneOwner, AuthTypeOK
<1>2. CASE LoginIssue(t)
  <2>1. PICK d \in Devices : /\ \/ UNCHANGED device
                                \/ /\ device[d].state = "absent"
                                   /\ device' = [device EXCEPT ![d] = [state |-> "active", name |-> call[t].name]]
                             /\ IssuePair(t, d, 0, pair)
    BY <1>2 DEF LoginIssue
  <2>2. call[t].op = "login" /\ call[t].name \in DeviceNames /\ UNCHANGED <<owners, welcomed>>
    BY <1>0, <1>2 DEF LoginIssue, At, AuthTypeOK, Call
  <2>3. /\ device' \in [Devices -> DeviceRow] /\ Gone \subseteq Gone'
        /\ \A x \in Devices : Active(x) => Active(x)'
    BY <1>0, <2>1, <2>2 DEF AuthTypeOK, DeviceRow, Gone, Active
  <2>4. /\ pair' \in [Pairs -> PairRow] /\ PairsOK' /\ ReplacedOnce' /\ RowsOnlyLose
        /\ call' \in [AuthThreads -> Call]
        /\ \A u \in AuthThreads \ {t} : call'[u] = call[u]
        /\ call'[t].op = call[t].op /\ call'[t].step = "answered" /\ call'[t].out = call[t].out
    <3>1. 0 \in 0 .. MaxPairs
      BY AuthAssumption
    <3>2. QED
      BY <2>1, <2>3, <3>1, IssueRows
  <2>5. Found(t)'
    BY <1>0, <2>2, <2>3, <2>4 DEF Found, At
  <2>6. QED
    BY <2>2, <2>3, <2>4, <2>5, WritingStep
<1>3. QED
  BY <1>1, <1>2

LEMMA RefreshStep ==
  ASSUME AuthInv, NEW t \in AuthThreads, RefreshRead(t) \/ RefreshConsume(t)
  PROVE  AuthInv'
<1>a. PICK n : n = call[t].pair
  OBVIOUS
<1>b. PICK d : d = call[t].dev
  OBVIOUS
<1>0. AuthTypeOK /\ OneOwner /\ Found(t) /\ call[t] \in Call /\ n = call[t].pair /\ d = call[t].dev
  BY <1>a, <1>b DEF AuthInv, AuthTypeOK
<1>1. CASE RefreshRead(t)
  <2>1. call[t].op = "refresh" /\ call[t].step = "arrived" /\ n \in Pairs /\ UNCHANGED <<device, pair, owners, welcomed>>
    BY <1>0, <1>1 DEF RefreshRead, At, Found
  <2>2. CASE \E a \in {"429", "401"} : Answer(t, a)
    <3>1. call' \in [AuthThreads -> Call]
      BY <1>0, <2>2, AnswerType DEF Answers
    <3>2. /\ \A u \in AuthThreads \ {t} : call'[u] = call[u]
          /\ call'[t].op = "refresh" /\ call'[t].out = call[t].out /\ call'[t].pair = n
          /\ call'[t].step = "answered" /\ call'[t].answer # "ok"
      BY <1>0, <2>1, <2>2 DEF Answer, AuthTypeOK, Call
    <3>3. Found(t)'
      BY <1>0, <2>1, <3>2 DEF Found, At, Gone
    <3>4. QED
      BY <1>0, <2>1, <3>1, <3>2, <3>3, ReadingStep DEF OneOwner, AuthTypeOK
  <2>3. CASE Proceed(t, d) /\ pair[n].dev = d /\ Active(d)
    <3>1. call' \in [AuthThreads -> Call]
      BY <1>0, <2>3, ProceedType DEF Call
    <3>2. /\ \A u \in AuthThreads \ {t} : call'[u] = call[u]
          /\ call'[t] = [call[t] EXCEPT !.step = "write", !.dev = d]
      BY <1>0, <2>3 DEF Proceed, AuthTypeOK
    <3>3. /\ call'[t].op = "refresh" /\ call'[t].out = call[t].out /\ call'[t].pair = n
          /\ call'[t].dev = d /\ call'[t].answer = call[t].answer
      BY <1>0, <2>1, <3>2 DEF Call
    <3>4. d \in Devices \ call[t].out
      BY <1>0, <2>3 DEF Found, Gone, Active
    <3>5. Active(d)' /\ pair'[n].dev = d /\ Gone' = Gone
      BY <2>1, <2>3 DEF Active, Gone
    <3>6. Found(t)'
      BY <1>0, <2>1, <3>3, <3>4, <3>5 DEF Found, At
    <3>7. QED
      BY <1>0, <2>1, <3>1, <3>2, <3>6, ReadingStep DEF OneOwner, AuthTypeOK
  <2>4. QED
    BY <1>0, <1>1, <2>2, <2>3 DEF RefreshRead
<1>2. CASE RefreshConsume(t)
  <2>1. /\ call[t].op = "refresh" /\ n \in Pairs /\ UNCHANGED <<device, owners, welcomed>>
        /\ d \in Devices \ call[t].out /\ pair[n].dev = d
    BY <1>0, <1>2 DEF RefreshConsume, At, Found
  <2>2. CASE Answer(t, "401") /\ UNCHANGED pair
    <3>1. call' \in [AuthThreads -> Call]
      BY <1>0, <2>2, AnswerType DEF Answers
    <3>2. /\ \A u \in AuthThreads \ {t} : call'[u] = call[u]
          /\ call'[t].op = "refresh" /\ call'[t].out = call[t].out /\ call'[t].pair = n
          /\ call'[t].step = "answered" /\ call'[t].answer # "ok"
      BY <1>0, <2>1, <2>2 DEF Answer, AuthTypeOK, Call
    <3>3. Found(t)'
      BY <1>0, <2>1, <3>2 DEF Found, At, Gone
    <3>4. QED
      BY <1>0, <2>1, <2>2, <3>1, <3>2, <3>3, ReadingStep DEF OneOwner, AuthTypeOK
  <2>3. CASE pair[n].refresh = "live" /\ IssuePair(t, d, n, [pair EXCEPT ![n].refresh = "consumed"])
    <3>1. n # 0 /\ n \in 0 .. MaxPairs /\ pair[n].dev # NoDevice
      BY <2>1, AuthAssumption DEF Pairs
    <3>3. Gone \subseteq Gone' /\ \A x \in Devices : Active(x) => Active(x)'
      BY <2>1 DEF Gone, Active
    <3>4. /\ pair' \in [Pairs -> PairRow] /\ PairsOK' /\ ReplacedOnce' /\ RowsOnlyLose
          /\ call' \in [AuthThreads -> Call]
          /\ \A u \in AuthThreads \ {t} : call'[u] = call[u]
          /\ call'[t].op = call[t].op /\ call'[t].step = "answered" /\ call'[t].out = call[t].out
          /\ call'[t].pair \in Pairs /\ pair'[call'[t].pair].dev = d
      BY <2>1, <2>3, <3>1, <3>3, IssueRows
    <3>5. Found(t)'
      BY <1>0, <2>1, <3>3, <3>4 DEF Found, At
    <3>6. QED
      BY <1>0, <2>1, <3>4, <3>5, WritingStep DEF AuthTypeOK
  <2>4. QED
    BY <1>0, <1>2, <2>2, <2>3 DEF RefreshConsume
<1>3. QED
  BY <1>1, <1>2

LEMMA AuthenticateStep ==
  ASSUME AuthInv, NEW t \in AuthThreads, Authenticate(t)
  PROVE  AuthInv'
<1>a. PICK n : n = call[t].pair
  OBVIOUS
<1>b. PICK d : d = call[t].dev
  OBVIOUS
<1>1. AuthTypeOK /\ OneOwner /\ Found(t) /\ call[t] \in Call
  BY DEF AuthInv, AuthTypeOK
<1>2. /\ call[t].op \in {"use", "revoke"} /\ call[t].step = "arrived"
      /\ UNCHANGED <<device, pair, owners, welcomed>>
  BY DEF Authenticate
<1>3. CASE Answer(t, "401")
  <2>1. call' \in [AuthThreads -> Call]
    BY <1>1, <1>3, AnswerType DEF Answers
  <2>2. /\ \A u \in AuthThreads \ {t} : call'[u] = call[u]
        /\ call'[t].op = call[t].op /\ call'[t].out = call[t].out /\ call'[t].dev = d
        /\ call'[t].step = "answered" /\ call'[t].answer # "ok"
    BY <1>1, <1>3, <1>b DEF Answer, AuthTypeOK, Call
  <2>3. Found(t)'
    BY <1>1, <1>2, <1>b, <2>2 DEF Found, At, Gone
  <2>4. QED
    BY <1>1, <1>2, <2>1, <2>2, <2>3, ReadingStep DEF OneOwner, AuthTypeOK
<1>4. CASE /\ n # 0 /\ Active(pair[n].dev)
           /\ \/ call[t].op = "use" /\ Answer(t, "ok")
              \/ call[t].op = "revoke" /\ Proceed(t, d)
  <2>1. d \in Devices \cup {NoDevice} /\ n \in Pairs
    BY <1>1, <1>4, <1>a, <1>b, AuthAssumption DEF Call, Pairs
  <2>2. call' \in [AuthThreads -> Call]
    BY <1>1, <1>4, <2>1, AnswerType, ProceedType DEF Answers
  <2>3. /\ \A u \in AuthThreads \ {t} : call'[u] = call[u]
        /\ call'[t].op = call[t].op /\ call'[t].out = call[t].out
        /\ call'[t].dev = d /\ call'[t].pair = n
        /\ call'[t].step = "answered" \/ call'[t].answer = call[t].answer
    BY <1>1, <1>4, <1>a, <1>b DEF Answer, Proceed, AuthTypeOK, Call
  <2>4. pair[n].dev \in Devices \ call[t].out
    BY <1>1, <1>4 DEF Found, Gone, Active
  <2>5. Found(t)'
    BY <1>1, <1>2, <1>b, <2>1, <2>3, <2>4 DEF Found, At, Gone
  <2>6. QED
    BY <1>1, <1>2, <2>2, <2>3, <2>5, ReadingStep DEF OneOwner, AuthTypeOK
<1>5. CASE call[t].op = "use"
  BY <1>3, <1>4, <1>5, <1>a DEF Authenticate
<1>6. CASE call[t].op = "revoke"
  BY <1>3, <1>4, <1>6, <1>a, <1>b DEF Authenticate
<1>7. QED
  BY <1>2, <1>5, <1>6

\* What a revocation leaves of the rows.
LEMMA RevokedRows ==
  ASSUME AuthInv, NEW d \in Devices, RevokeRows(d)
  PROVE  /\ device' \in [Devices -> DeviceRow] /\ pair' \in [Pairs -> PairRow]
         /\ PairsOK' /\ ReplacedOnce' /\ RowsOnlyLose
<1>1. AuthTypeOK /\ PairsOK /\ ReplacedOnce
  BY DEF AuthInv
<1>2. /\ device' = [device EXCEPT ![d].state = "revoked"]
      /\ \A n \in Pairs :
           /\ pair[n].dev # d => pair'[n] = pair[n]
           /\ pair'[n] \in PairRow
           /\ pair'[n].dev = pair[n].dev /\ pair'[n].parent = pair[n].parent
           /\ pair[n].refresh = "consumed" => pair'[n].refresh = "consumed"
           /\ pair'[n].refresh = "live" => pair[n].dev # d /\ pair[n].refresh = "live"
  BY <1>1 DEF RevokeRows, AuthTypeOK, PairRow, TokenStates
<1>3. pair' \in [Pairs -> PairRow]
  BY <1>2 DEF RevokeRows
<1>4. /\ device' \in [Devices -> DeviceRow] /\ device'[d].state = "revoked"
      /\ \A x \in Devices \ {d} : device'[x] = device[x]
  BY <1>1, <1>2 DEF AuthTypeOK, DeviceRow
<1>5. PairsOK'
  <2>1. ASSUME NEW n \in Pairs, pair'[n].dev = NoDevice PROVE pair'[n] = NoPairRow
    BY <1>1, <1>2, <2>1, AuthAssumption DEF PairsOK
  <2>2. ASSUME NEW n \in Pairs, pair'[n].parent # 0 PROVE pair'[pair'[n].parent].refresh = "consumed"
    <3>1. pair[n].parent \in Pairs /\ pair[pair[n].parent].refresh = "consumed"
      BY <1>1, <1>2, <2>2, AuthAssumption DEF AuthTypeOK, PairRow, Pairs, PairsOK
    <3>2. QED
      BY <1>2, <3>1
  <2>3. QED
    BY <2>1, <2>2 DEF PairsOK
<1>6. ReplacedOnce'
  BY <1>1, <1>2 DEF ReplacedOnce
<1>7. RowsOnlyLose
  BY <1>2, <1>4 DEF RowsOnlyLose, Gone, Active
<1>8. QED
  BY <1>3, <1>4, <1>5, <1>6, <1>7

LEMMA RevokeStep ==
  ASSUME AuthInv, NEW t \in AuthThreads, Revoke(t)
  PROVE  AuthInv'
<1>a. PICK n : n = call[t].pair
  OBVIOUS
<1>b. PICK d : d = call[t].dev
  OBVIOUS
<1>1. AuthTypeOK /\ OneOwner /\ Found(t) /\ call[t] \in Call
  BY DEF AuthInv, AuthTypeOK
<1>2. /\ call[t].op = "revoke" /\ UNCHANGED <<owners, welcomed>>
      /\ d \in Devices /\ n \in Pairs /\ pair[n].dev \in Devices \ call[t].out
  BY <1>1, <1>a, <1>b DEF Revoke, At, Found
<1>3. PICK a \in Answers : Answer(t, a)
  BY DEF Revoke, Answers
<1>4. call' \in [AuthThreads -> Call]
  BY <1>1, <1>3, AnswerType
<1>5. /\ \A u \in AuthThreads \ {t} : call'[u] = call[u]
      /\ call'[t].op = "revoke" /\ call'[t].step = "answered" /\ call'[t].out = call[t].out
      /\ call'[t].dev = d /\ call'[t].pair = n
  BY <1>1, <1>2, <1>3, <1>a, <1>b DEF Answer, AuthTypeOK, Call
<1>6. /\ device' \in [Devices -> DeviceRow] /\ pair' \in [Pairs -> PairRow]
      /\ PairsOK' /\ ReplacedOnce' /\ RowsOnlyLose
  <2>1. CASE RevokeRows(d)
    BY <1>2, <2>1, RevokedRows
  <2>2. CASE UNCHANGED <<device, pair>>
    BY <2>2 DEF AuthInv, AuthTypeOK, PairsOK, ReplacedOnce, RowsOnlyLose, Gone, Active
  <2>3. QED
    BY <1>b, <2>1, <2>2 DEF Revoke
<1>7. Gone \subseteq Gone' /\ pair'[n].dev = pair[n].dev
  BY <1>2, <1>6, AuthAssumption DEF RowsOnlyLose
<1>8. Found(t)'
  BY <1>1, <1>2, <1>5, <1>7 DEF Found, At
<1>9. QED
  BY <1>2, <1>4, <1>5, <1>6, <1>8, WritingStep

LEMMA ClientStep ==
  ASSUME AuthInv, NEW t \in AuthThreads, Arrive(t) \/ Respond(t)
  PROVE  AuthInv'
<1>1. AuthTypeOK /\ OneOwner /\ UNCHANGED <<owners, device, pair, welcomed>> /\ Gone' = Gone
  BY DEF AuthInv, Arrive, Respond, Gone
<1>2. PICK c \in Call :
        /\ call' = [call EXCEPT ![t] = c]
        /\ c.out \subseteq Gone /\ c.answer = "none" /\ c.step # "write"
        /\ c.op = "refresh" => c.pair \in Pairs
        /\ c.op = "revoke" => c.dev \in Devices
  <2>1. CASE Respond(t)
    BY <2>1, IdleType DEF Respond, Idle
  <2>2. CASE Arrive(t)
    <3>1. Idle.name \in DeviceNames
      BY IdleType DEF Call
    <3>2. PICK op \in Ops, name \in DeviceNames, d \in Devices \cup {NoDevice}, n \in 0 .. MaxPairs :
            /\ Ask(t, op, name, d, n)
            /\ op = "refresh" => n \in Pairs
            /\ op = "revoke" => d \in Devices
      <4>1. \A n \in Pairs : n \in 0 .. MaxPairs /\ pair[n].dev \in Devices \cup {NoDevice}
        BY <1>1, AuthAssumption DEF AuthTypeOK, PairRow, Pairs
      <4>2. 0 \in 0 .. MaxPairs
        BY AuthAssumption
      <4>3. CASE Ask(t, "bootstrap", Idle.name, NoDevice, 0)
        BY <3>1, <4>2, <4>3 DEF Ops
      <4>4. CASE \E name \in DeviceNames : Ask(t, "login", name, NoDevice, 0)
        BY <4>2, <4>4 DEF Ops
      <4>5. CASE \E n \in Pairs : \/ Ask(t, "refresh", Idle.name, pair[n].dev, n)
                                  \/ Ask(t, "use", Idle.name, NoDevice, n)
                                  \/ \E d \in Devices : Ask(t, "revoke", Idle.name, d, n)
        BY <3>1, <4>1, <4>5 DEF Ops
      <4>6. QED
        BY <2>2, <4>3, <4>4, <4>5 DEF Arrive
    <3>3. [op |-> op, step |-> "arrived", name |-> name, dev |-> d, pair |-> n,
           answer |-> "none", out |-> Gone] \in Call
      BY DEF Call, Answers, Gone
    <3>4. QED
      BY <3>2, <3>3 DEF Ask
  <2>3. QED
    BY <2>1, <2>2
<1>3. call'[t] = c /\ call' \in [AuthThreads -> Call] /\ \A u \in AuthThreads \ {t} : call'[u] = call[u]
  BY <1>1, <1>2 DEF AuthTypeOK
<1>4. Found(t)'
  BY <1>1, <1>2, <1>3 DEF Found, At
<1>5. QED
  BY <1>1, <1>3, <1>4, ReadingStep DEF OneOwner, AuthTypeOK

LEMMA ExpiryStep ==
  ASSUME AuthInv, NEW n \in Pairs, AccessExpires(n) \/ RefreshExpires(n)
  PROVE  AuthInv'
<1>1. AuthTypeOK /\ PairsOK /\ ReplacedOnce
  BY DEF AuthInv
<1>2. UNCHANGED <<owners, device, call, welcomed>>
  BY DEF AccessExpires, RefreshExpires
<1>3. /\ pair' \in [Pairs -> PairRow]
      /\ \A m \in Pairs : /\ pair'[m].dev = pair[m].dev /\ pair'[m].parent = pair[m].parent
                          /\ pair[m].refresh = "consumed" => pair'[m].refresh = "consumed"
                          /\ pair'[m].refresh = "live" => pair[m].refresh = "live"
                          /\ m # n => pair'[m] = pair[m]
  <2>1. pair[n] \in PairRow
    BY <1>1 DEF AuthTypeOK
  <2>2. PICK row \in PairRow : /\ pair' = [pair EXCEPT ![n] = row]
                               /\ row.dev = pair[n].dev /\ row.parent = pair[n].parent
                               /\ pair[n].refresh = "consumed" => row.refresh = "consumed"
                               /\ row.refresh = "live" => pair[n].refresh = "live"
    <3>1. CASE AccessExpires(n)
      <4>1. [pair[n] EXCEPT !.access = "expired"] \in PairRow
        BY <2>1 DEF PairRow, TokenStates
      <4>2. QED
        BY <2>1, <3>1, <4>1 DEF AccessExpires, PairRow
    <3>2. CASE RefreshExpires(n)
      <4>1. [pair[n] EXCEPT !.refresh = "expired"] \in PairRow
        BY <2>1 DEF PairRow, TokenStates
      <4>2. QED
        BY <2>1, <3>2, <4>1 DEF RefreshExpires, PairRow
    <3>3. QED
      BY <3>1, <3>2
  <2>3. QED
    BY <1>1, <2>2 DEF AuthTypeOK
<1>4. pair[n].dev # NoDevice
  BY <1>1 DEF AccessExpires, RefreshExpires, PairsOK, NoPairRow
<1>5. PairsOK' /\ ReplacedOnce'
  <2>1. \A m \in Pairs : pair[m].parent # 0 => pair[m].parent \in Pairs
    BY <1>1, AuthAssumption DEF AuthTypeOK, PairRow, Pairs
  <2>2. QED
    BY <1>1, <1>3, <1>4, <2>1 DEF PairsOK, ReplacedOnce
<1>6. RowsOnlyLose
  BY <1>2, <1>3 DEF RowsOnlyLose, Gone, Active
<1>7. \A u \in AuthThreads : Found(u)'
  BY <1>2, <1>6, FoundStays
<1>8. QED
  BY <1>2, <1>3, <1>5, <1>7 DEF AuthInv, AuthTypeOK, OneOwner

\* A step of one thread leaves the requests of the others.
LEMMA OthersStay ==
  ASSUME AuthTypeOK, NEW u \in AuthThreads, Arrive(u) \/ Handle(u) \/ Respond(u),
         NEW t \in AuthThreads \ {u}
  PROVE  call'[t] = call[t]
<1>1. \A a : Answer(u, a) => call'[t] = call[t]
  BY DEF Answer, AuthTypeOK
<1>2. \A d : Proceed(u, d) => call'[t] = call[t]
  BY DEF Proceed, AuthTypeOK
<1>3. \A d, old, rows : IssuePair(u, d, old, rows) => call'[t] = call[t]
  BY DEF IssuePair, AuthTypeOK
<1>4. CASE Arrive(u) \/ Respond(u)
  BY <1>4 DEF Arrive, Ask, Respond, AuthTypeOK
<1>5. CASE BootstrapCheck(u) \/ BootstrapInsert(u)
  BY <1>1, <1>2, <1>5 DEF BootstrapCheck, BootstrapInsert
<1>6. CASE LoginRead(u) \/ LoginIssue(u)
  BY <1>1, <1>2, <1>3, <1>6 DEF LoginRead, LoginIssue
<1>7. CASE RefreshRead(u) \/ RefreshConsume(u)
  BY <1>1, <1>2, <1>3, <1>7 DEF RefreshRead, RefreshConsume
<1>8. CASE Authenticate(u) \/ Revoke(u)
  BY <1>1, <1>2, <1>8 DEF Authenticate, Revoke
<1>9. QED
  BY <1>4, <1>5, <1>6, <1>7, <1>8 DEF Handle

LEMMA StepAuthInv == AuthInv /\ [AuthNext]_authvars => AuthInv'
<1> SUFFICES ASSUME AuthInv, [AuthNext]_authvars PROVE AuthInv'
  OBVIOUS
<1>1. ASSUME NEW t \in AuthThreads, Arrive(t) \/ Respond(t) PROVE AuthInv'
  BY <1>1, ClientStep
<1>2. ASSUME NEW t \in AuthThreads, Handle(t) PROVE AuthInv'
  BY <1>2, BootstrapStep, LoginStep, RefreshStep, AuthenticateStep, RevokeStep DEF Handle
<1>3. ASSUME NEW n \in Pairs, AccessExpires(n) \/ RefreshExpires(n) PROVE AuthInv'
  BY <1>3, ExpiryStep
<1>4. CASE UNCHANGED authvars
  <2>1. UNCHANGED <<owners, device, pair, call, welcomed>>
    BY <1>4 DEF authvars
  <2>2. RowsOnlyLose
    BY <2>1 DEF RowsOnlyLose, Gone, Active
  <2>3. \A u \in AuthThreads : Found(u)'
    BY <2>1, <2>2, FoundStays
  <2>4. QED
    BY <2>1, <2>3 DEF AuthInv, AuthTypeOK, OneOwner, PairsOK, ReplacedOnce
<1>5. QED
  BY <1>1, <1>2, <1>3, <1>4 DEF AuthNext

-----------------------------------------------------------------------------
(* The theorems. *)

\* The rows and the requests keep their invariant: one owner however many
\* bootstraps race, one replacement for one credential, and every request knows
\* its device as it is or finds its credential spent (remote_auth.py:353-361, 431-460).
THEOREM AuthInvariant == AuthSpec => []AuthInv
  BY InitAuthInv, StepAuthInv, PTL DEF AuthSpec

\* One bootstrap is answered with success and one owner exists (remote_auth.py:353-361).
THEOREM OwnerIsOne == AuthSpec => []OneOwner
<1>1. AuthInv => OneOwner
  BY DEF AuthInv
<1>2. QED
  BY <1>1, AuthInvariant, PTL

\* A refresh credential is replaced at most once (remote_auth.py:438-452).
THEOREM CredentialReplacedOnce == AuthSpec => []ReplacedOnce
<1>1. AuthInv => ReplacedOnce
  BY DEF AuthInv
<1>2. QED
  BY <1>1, AuthInvariant, PTL

\* A request that arrives after the revocation of a device was committed is never
\* let in as that device (remote_auth.py:177, 379).
THEOREM RevokedDeviceStaysOut == AuthSpec => []RevokedStaysOut
<1>1. AuthInv => RevokedStaysOut
  BY DEF AuthInv, Found, RevokedStaysOut
<1>2. QED
  BY <1>1, AuthInvariant, PTL

\* No refresh issues a pair to a device that is no longer active when the pair is
\* committed (remote_auth.py:431-460).
THEOREM RefreshNeedsActive == AuthSpec => NoPairForRevoked
<1>1. ASSUME AuthInv, [AuthNext]_authvars, NEW t \in AuthThreads,
             At(t, "refresh", "write"), call'[t].answer = "ok"
      PROVE  device[call[t].dev].state = "active"
  <2>1. /\ AuthTypeOK /\ Found(t) /\ call[t].op = "refresh" /\ call[t].step = "write"
        /\ call[t].answer = "none"
    BY <1>1 DEF AuthInv, At, Found
  <2>2. CASE RefreshConsume(t)
    <3>1. pair[call[t].pair].refresh = "live"
      BY <1>1, <2>1, <2>2 DEF RefreshConsume, Answer, AuthTypeOK, Call
    <3>2. QED
      BY <1>1, <2>1, <3>1 DEF Found, Active
  <2>3. call'[t] # call[t] /\ call[t].step \notin {"free", "arrived", "answered"}
    BY <1>1, <2>1
  <2>4. PICK u \in AuthThreads : Arrive(u) \/ Handle(u) \/ Respond(u)
    BY <1>1, <2>3 DEF AuthNext, authvars, AccessExpires, RefreshExpires
  <2>5. u = t
    BY <2>1, <2>3, <2>4, OthersStay
  <2>6. ~ Arrive(t) /\ ~ Respond(t)
    BY <2>3 DEF Arrive, Ask, Respond
  <2>7. Handle(t) => RefreshConsume(t)
    BY <2>1, <2>3
       DEF Handle, At, BootstrapCheck, BootstrapInsert, LoginRead, LoginIssue, RefreshRead, Authenticate, Revoke
  <2>8. QED
    BY <2>2, <2>4, <2>5, <2>6, <2>7
<1>2. AuthInv /\ [AuthNext]_authvars
        => [\A t \in AuthThreads : At(t, "refresh", "write") /\ call'[t].answer = "ok"
                                    => device[call[t].dev].state = "active"]_authvars
  BY <1>1
<1>3. QED
  BY <1>2, AuthInvariant, PTL DEF AuthSpec, NoPairForRevoked
=============================================================================
