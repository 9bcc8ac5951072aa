--------------------------- MODULE RemoteBroker_proofs ---------------------------
(***************************************************************************)
(* The desktop client's session, for any number of tasks, devices, tokens  *)
(* and faults.                                                             *)
(***************************************************************************)
EXTENDS RemoteBroker, RemoteAuth_proofs, FiniteSetTheorems

-----------------------------------------------------------------------------
(* Where a task stands. *)

Requesting == {"token", "snapshot", "sent", "lock"}

\* A request that issued a pair to the client, for the client to pick up.
Issued(c) == call[c].op \in {"login", "refresh"} /\ call[c].answer = "ok"

\* A task knows its device, and waits for the request it has made.
Where(c) ==
  LET t == task[c] IN
  /\ t.op = "revoke" => t.dev \in Devices
  /\ t.pc \in Requesting \cup InRotation => t.op \in {"use", "revoke"} /\ t.dev \in Devices
  /\ t.pc \in {"store", "enroll", "welcome"} \cup InLogout => t.dev \in Devices
  /\ t.pc = "rotating" => call[c].op = "refresh" /\ call[c].dev = t.dev
  /\ t.pc = "login" => call[c].op = "login"
  /\ Issued(c) => call[c].pair \in Pairs /\ call[c].dev \in Devices /\ call[c].step = "answered"

BaseInv == AuthInv /\ BrokerTypeOK /\ \A c \in Tasks : Where(c)

LEMMA NoTaskType ==
  /\ NoTask \in Task /\ NoTask.pc = "idle" /\ NoTask.op = "none" /\ NoTask.dev = NoDevice
  /\ NoTask.sent = 0 /\ NoTask.rejected = 0 /\ NoTask.new = 0
  BY AuthAssumption DEF NoTask, Task

LEMMA EmptyType == Empty \in Slot /\ Empty.pair = 0 /\ Empty.gen = 0
  BY AuthAssumption DEF Empty, Slot

LEMMA NoSessionType ==
  /\ NoSession \in [pair : 0 .. MaxPairs, gen : Nat, old : BOOLEAN]
  /\ NoSession.pair = 0 /\ NoSession.gen = 0
  BY AuthAssumption DEF NoSession

\* A step of task c.
Moved(c) == task' \in [Tasks -> Task] /\ \A u \in Tasks \ {c} : task'[u] = task[u]

LEMMA SetTask ==
  ASSUME BrokerTypeOK, NEW c \in Tasks, NEW t \in Task, task' = [task EXCEPT ![c] = t]
  PROVE  Moved(c) /\ task'[c] = t
  BY DEF BrokerTypeOK, Moved

LEMMA ToTask ==
  ASSUME BrokerTypeOK, NEW c \in Tasks, NEW p,
         p \in {"idle", "token", "snapshot", "sent", "lock"} \cup InRotation \cup InLogin \cup InLogout, To(c, p)
  PROVE  /\ Moved(c) /\ task'[c] = [task[c] EXCEPT !.pc = p]
         /\ task'[c].pc = p /\ task'[c].op = task[c].op /\ task'[c].dev = task[c].dev
         /\ task'[c].sent = task[c].sent /\ task'[c].gen = task[c].gen /\ task'[c].rejected = task[c].rejected
         /\ task'[c].new = task[c].new /\ task'[c].stamp = task[c].stamp /\ task'[c].kept = task[c].kept
<1>1. task[c] \in Task
  BY DEF BrokerTypeOK
<1>2. [task[c] EXCEPT !.pc = p] \in Task
  BY <1>1 DEF Task
<1>3. task' = [task EXCEPT ![c] = [task[c] EXCEPT !.pc = p]]
  BY DEF To
<1>4. Moved(c) /\ task'[c] = [task[c] EXCEPT !.pc = p]
  BY <1>2, <1>3, SetTask
<1>5. QED
  BY <1>1, <1>4 DEF Task

LEMMA OverTask ==
  ASSUME BrokerTypeOK, NEW c \in Tasks, Over(c)
  PROVE  /\ Moved(c) /\ task'[c].pc \in {"idle", "erase"}
         /\ task'[c].pc = "erase" => task[c].op = "revoke" /\ task'[c].dev = task[c].dev
         /\ task'[c].op = "none"
         /\ task'[c].sent = 0 /\ task'[c].rejected = 0 /\ task'[c].new = 0
<1>1. task[c] \in Task
  BY DEF BrokerTypeOK
<1>2. CASE task[c].op = "revoke"
  <2>1. [NoTask EXCEPT !.pc = "erase", !.dev = task[c].dev] \in Task
    BY <1>1, NoTaskType DEF Task, InLogout
  <2>2. task' = [task EXCEPT ![c] = [NoTask EXCEPT !.pc = "erase", !.dev = task[c].dev]]
    BY <1>2 DEF Over
  <2>3. Moved(c) /\ task'[c] = [NoTask EXCEPT !.pc = "erase", !.dev = task[c].dev]
    BY <2>1, <2>2, SetTask
  <2>4. QED
    BY <1>2, <2>3, NoTaskType DEF Task
<1>3. CASE task[c].op # "revoke"
  <2>1. task' = [task EXCEPT ![c] = NoTask]
    BY <1>3 DEF Over
  <2>2. Moved(c) /\ task'[c] = NoTask
    BY <2>1, SetTask, NoTaskType
  <2>3. QED
    BY <2>2, NoTaskType
<1>4. QED
  BY <1>2, <1>3

\* Task c goes to p with these locals, in the same request.
Goes(c, p, s, g, r, n) ==
  /\ Moved(c)
  /\ task'[c].pc = p /\ task'[c].sent = s /\ task'[c].gen = g /\ task'[c].rejected = r
  /\ task'[c].new = n /\ task'[c].op = task[c].op /\ task'[c].dev = task[c].dev

\* Task c goes to p with its locals.
GoesOn(c, p) == /\ Goes(c, p, task[c].sent, task[c].gen, task[c].rejected, task[c].new)
                /\ task'[c].stamp = task[c].stamp /\ task'[c].kept = task[c].kept

Places == {"idle", "token", "snapshot", "sent", "lock"} \cup InRotation \cup InLogin \cup InLogout

LEMMA GoesOnTask ==
  ASSUME BrokerTypeOK, NEW c \in Tasks, NEW p \in Places, To(c, p)
  PROVE  GoesOn(c, p)
  BY ToTask DEF Places, Goes, GoesOn

LEMMA BeginTask ==
  ASSUME BrokerTypeOK, NEW c \in Tasks, Begin(c)
  PROVE  /\ Moved(c) /\ task'[c].pc \in {"token", "erase"} /\ task'[c].dev = enrolled
         /\ task'[c].op \in {"use", "revoke"} \/ (task'[c].pc = "erase" /\ task'[c].op = "none")
         /\ task'[c].sent = 0 /\ task'[c].rejected = 0 /\ task'[c].new = 0
<1>1. ASSUME NEW op \in {"use", "revoke"},
             task' = [task EXCEPT ![c] = [NoTask EXCEPT !.pc = "token", !.op = op, !.dev = enrolled]]
      PROVE  /\ Moved(c) /\ task'[c].pc = "token" /\ task'[c].dev = enrolled /\ task'[c].op = op
             /\ task'[c].sent = 0 /\ task'[c].rejected = 0 /\ task'[c].new = 0
  <2>1. [NoTask EXCEPT !.pc = "token", !.op = op, !.dev = enrolled] \in Task
    BY NoTaskType DEF Task, BrokerTypeOK
  <2>2. Moved(c) /\ task'[c] = [NoTask EXCEPT !.pc = "token", !.op = op, !.dev = enrolled]
    BY <1>1, <2>1, SetTask
  <2>3. QED
    BY <2>2, NoTaskType DEF Task
<1>2. ASSUME task' = [task EXCEPT ![c] = [NoTask EXCEPT !.pc = "erase", !.dev = enrolled]]
      PROVE  /\ Moved(c) /\ task'[c].pc = "erase" /\ task'[c].dev = enrolled /\ task'[c].op = "none"
             /\ task'[c].sent = 0 /\ task'[c].rejected = 0 /\ task'[c].new = 0
  <2>1. [NoTask EXCEPT !.pc = "erase", !.dev = enrolled] \in Task
    BY NoTaskType DEF Task, BrokerTypeOK, InLogout
  <2>2. Moved(c) /\ task'[c] = [NoTask EXCEPT !.pc = "erase", !.dev = enrolled]
    BY <1>2, <2>1, SetTask
  <2>3. QED
    BY <2>2, NoTaskType DEF Task
<1>3. QED
  BY <1>1, <1>2 DEF Begin

LEMMA GetTokenTask ==
  ASSUME BrokerTypeOK, NEW c \in Tasks, GetToken(c)
  PROVE  \/ /\ session.pair # 0
            /\ Goes(c, "snapshot", session.pair, task[c].gen, task[c].rejected, task[c].new)
         \/ Goes(c, "lock", 0, task[c].gen, task[c].rejected, task[c].new)
<1>1. task[c] \in Task /\ session.pair \in 0 .. MaxPairs /\ 0 \in 0 .. MaxPairs
  BY AuthAssumption DEF BrokerTypeOK
<1>2. PICK p \in {"snapshot", "lock"}, s \in 0 .. MaxPairs :
        /\ p = "snapshot" => s = session.pair /\ session.pair # 0
        /\ p = "lock" => s = 0
        /\ task' = [task EXCEPT ![c] = [task[c] EXCEPT !.pc = p, !.sent = s]]
  BY <1>1 DEF GetToken
<1>3. [task[c] EXCEPT !.pc = p, !.sent = s] \in Task
  BY <1>1 DEF Task
<1>4. Moved(c) /\ task'[c] = [task[c] EXCEPT !.pc = p, !.sent = s]
  BY <1>2, <1>3, SetTask
<1>5. Goes(c, p, s, task[c].gen, task[c].rejected, task[c].new)
  BY <1>1, <1>4 DEF Goes, Task
<1>6. QED
  BY <1>2, <1>5

LEMMA SendTask ==
  ASSUME BrokerTypeOK, NEW c \in Tasks, Send(c)
  PROVE  \/ /\ Ask(c, task[c].op, Idle.name, task[c].dev, task[c].sent)
            /\ Goes(c, "sent", task[c].sent, session.gen, task[c].rejected, task[c].new)
         \/ Over(c) /\ UNCHANGED call
<1>1. task[c] \in Task /\ session.gen \in Nat
  BY DEF BrokerTypeOK
<1>2. CASE task' = [task EXCEPT ![c].pc = "sent", ![c].gen = session.gen]
  <2>1. task' = [task EXCEPT ![c] = [task[c] EXCEPT !.pc = "sent", !.gen = session.gen]]
    BY <1>2
  <2>2. [task[c] EXCEPT !.pc = "sent", !.gen = session.gen] \in Task
    BY <1>1 DEF Task
  <2>3. Moved(c) /\ task'[c] = [task[c] EXCEPT !.pc = "sent", !.gen = session.gen]
    BY <2>1, <2>2, SetTask
  <2>4. QED
    BY <1>1, <2>3, <1>2 DEF Goes, Task, Send
<1>3. QED
  BY <1>2 DEF Send

LEMMA GetAnswerTask ==
  ASSUME BrokerTypeOK, NEW c \in Tasks, GetAnswer(c)
  PROVE  \/ /\ task[c].rejected = 0
            /\ Goes(c, "lock", task[c].sent, task[c].gen, task[c].sent, task[c].new)
         \/ Over(c)
<1>1. task[c] \in Task
  BY DEF BrokerTypeOK
<1>2. CASE task[c].rejected = 0 /\ task' = [task EXCEPT ![c].pc = "lock", ![c].rejected = task[c].sent]
  <2>1. task' = [task EXCEPT ![c] = [task[c] EXCEPT !.pc = "lock", !.rejected = task[c].sent]]
    BY <1>2
  <2>2. [task[c] EXCEPT !.pc = "lock", !.rejected = task[c].sent] \in Task
    BY <1>1 DEF Task
  <2>3. Moved(c) /\ task'[c] = [task[c] EXCEPT !.pc = "lock", !.rejected = task[c].sent]
    BY <2>1, <2>2, SetTask
  <2>4. QED
    BY <1>1, <2>3, <1>2 DEF Goes, Task
<1>3. QED
  BY <1>2 DEF GetAnswer

LEMMA TakeLockTask ==
  ASSUME BrokerTypeOK, NEW c \in Tasks, TakeLock(c)
  PROVE  \/ /\ Retrying(c) /\ session.gen > task[c].gen
            /\ Goes(c, "token", task[c].sent, 0, task[c].rejected, task[c].new)
         \/ /\ ~Retrying(c) /\ session.pair # 0
            /\ Goes(c, "snapshot", session.pair, task[c].gen, task[c].rejected, task[c].new)
         \/ GoesOn(c, "present")
<1>1. task[c] \in Task /\ session.pair \in 0 .. MaxPairs
  BY DEF BrokerTypeOK
<1>2. CASE /\ Retrying(c) /\ session.gen > task[c].gen
           /\ task' = [task EXCEPT ![c].pc = "token", ![c].gen = 0]
  <2>1. task' = [task EXCEPT ![c] = [task[c] EXCEPT !.pc = "token", !.gen = 0]]
    BY <1>2
  <2>2. [task[c] EXCEPT !.pc = "token", !.gen = 0] \in Task
    BY <1>1 DEF Task
  <2>3. Moved(c) /\ task'[c] = [task[c] EXCEPT !.pc = "token", !.gen = 0]
    BY <2>1, <2>2, SetTask
  <2>4. QED
    BY <1>1, <2>3, <1>2 DEF Goes, Task
<1>3. CASE /\ ~Retrying(c) /\ session.pair # 0
           /\ task' = [task EXCEPT ![c].pc = "snapshot", ![c].sent = session.pair]
  <2>1. task' = [task EXCEPT ![c] = [task[c] EXCEPT !.pc = "snapshot", !.sent = session.pair]]
    BY <1>3
  <2>2. [task[c] EXCEPT !.pc = "snapshot", !.sent = session.pair] \in Task
    BY <1>1 DEF Task
  <2>3. Moved(c) /\ task'[c] = [task[c] EXCEPT !.pc = "snapshot", !.sent = session.pair]
    BY <2>1, <2>2, SetTask
  <2>4. QED
    BY <1>1, <2>3, <1>3 DEF Goes, Task
<1>4. CASE To(c, "present")
  BY <1>4, GoesOnTask DEF Places, InRotation
<1>5. QED
  BY <1>2, <1>3, <1>4 DEF TakeLock, To

LEMMA RotatedTask ==
  ASSUME BrokerTypeOK, NEW c \in Tasks, Rotated(c)
  PROVE  \/ /\ call[c].answer = "ok"
            /\ Goes(c, "pending", task[c].sent, task[c].gen, task[c].rejected, call[c].pair)
         \/ call[c].answer # "ok" /\ Over(c)
<1>1. task[c] \in Task /\ call[c].pair \in 0 .. MaxPairs
  BY DEF BrokerTypeOK, AuthTypeOK, Call, Tasks
<1>2. CASE call[c].answer = "ok" /\ task' = [task EXCEPT ![c].pc = "pending", ![c].new = call[c].pair]
  <2>1. task' = [task EXCEPT ![c] = [task[c] EXCEPT !.pc = "pending", !.new = call[c].pair]]
    BY <1>2
  <2>2. [task[c] EXCEPT !.pc = "pending", !.new = call[c].pair] \in Task
    BY <1>1 DEF Task, InRotation
  <2>3. Moved(c) /\ task'[c] = [task[c] EXCEPT !.pc = "pending", !.new = call[c].pair]
    BY <2>1, <2>2, SetTask
  <2>4. QED
    BY <1>1, <2>3, <1>2 DEF Goes, Task
<1>3. QED
  BY <1>2 DEF Rotated

LEMMA SetSessionTask ==
  ASSUME BrokerTypeOK, NEW c \in Tasks, SetSession(c)
  PROVE  \/ Over(c)
         \/ \E p \in {"token", "snapshot"} :
              /\ p = "token" <=> Retrying(c)
              /\ Goes(c, p, task[c].new, 0, task[c].rejected, 0)
<1>1. task[c] \in Task /\ 0 \in 0 .. MaxPairs
  BY AuthAssumption DEF BrokerTypeOK
<1>2. ASSUME NEW p \in {"token", "snapshot"},
             task' = [task EXCEPT ![c] = [task[c] EXCEPT !.pc = p, !.sent = task[c].new, !.gen = 0, !.new = 0,
                                                         !.stamp = 0, !.kept = FALSE]]
      PROVE  Goes(c, p, task[c].new, 0, task[c].rejected, 0)
  <2>1. [task[c] EXCEPT !.pc = p, !.sent = task[c].new, !.gen = 0, !.new = 0,
                        !.stamp = 0, !.kept = FALSE] \in Task
    BY <1>1 DEF Task
  <2>2. /\ Moved(c)
        /\ task'[c] = [task[c] EXCEPT !.pc = p, !.sent = task[c].new, !.gen = 0, !.new = 0,
                                      !.stamp = 0, !.kept = FALSE]
    BY <1>2, <2>1, SetTask
  <2>3. QED
    BY <1>1, <2>2 DEF Goes, Task
<1>3. PICK p \in {"token", "snapshot"} : p = IF Retrying(c) THEN "token" ELSE "snapshot"
  OBVIOUS
<1>4. CASE ~ Over(c)
  <2>1. task' = [task EXCEPT ![c] = [task[c] EXCEPT !.pc = p, !.sent = task[c].new, !.gen = 0, !.new = 0,
                                                    !.stamp = 0, !.kept = FALSE]]
    BY <1>3, <1>4 DEF SetSession
  <2>2. QED
    BY <1>2, <1>3, <2>1
<1>5. QED
  BY <1>4

LEMMA LoginTask ==
  ASSUME BrokerTypeOK, NEW c \in Tasks, BeginLogin(c)
  PROVE  /\ Moved(c) /\ task'[c].pc = "login" /\ task'[c].op = "login"
         /\ task'[c].sent = 0 /\ task'[c].rejected = 0 /\ task'[c].new = 0
<1>1. [NoTask EXCEPT !.pc = "login", !.op = "login"] \in Task
  BY NoTaskType DEF Task, InLogin
<1>2. Moved(c) /\ task'[c] = [NoTask EXCEPT !.pc = "login", !.op = "login"]
  BY <1>1, SetTask DEF BeginLogin
<1>3. QED
  BY <1>2, NoTaskType DEF Task

LEMMA LoggedInTask ==
  ASSUME BrokerTypeOK, NEW c \in Tasks, LoggedIn(c)
  PROVE  \/ Over(c)
         \/ /\ call[c].answer = "ok" /\ Moved(c)
            /\ task'[c].pc = "store" /\ task'[c].dev = call[c].dev /\ task'[c].new = call[c].pair
            /\ task'[c].op = task[c].op /\ task'[c].sent = task[c].sent
            /\ task'[c].rejected = task[c].rejected
<1>1. task[c] \in Task /\ call[c].pair \in 0 .. MaxPairs /\ call[c].dev \in Devices \cup {NoDevice}
  BY DEF BrokerTypeOK, AuthTypeOK, Call, Tasks
<1>2. CASE /\ call[c].answer = "ok"
           /\ task' = [task EXCEPT ![c].pc = "store", ![c].dev = call[c].dev, ![c].new = call[c].pair]
  <2>1. task' = [task EXCEPT ![c] = [task[c] EXCEPT !.pc = "store", !.dev = call[c].dev, !.new = call[c].pair]]
    BY <1>2
  <2>2. [task[c] EXCEPT !.pc = "store", !.dev = call[c].dev, !.new = call[c].pair] \in Task
    BY <1>1 DEF Task, InLogin
  <2>3. Moved(c) /\ task'[c] = [task[c] EXCEPT !.pc = "store", !.dev = call[c].dev, !.new = call[c].pair]
    BY <2>1, <2>2, SetTask
  <2>4. QED
    BY <1>1, <2>3, <1>2 DEF Task
<1>3. QED
  BY <1>2 DEF LoggedIn

-----------------------------------------------------------------------------
(* Requests of the client, and what the server does with them. *)

\* The request of task c leaves; the server's invariant holds.
LEMMA AskStep ==
  ASSUME AuthInv, NEW c \in Tasks, NEW op \in Ops, NEW d \in Devices \cup {NoDevice}, NEW n \in 0 .. MaxPairs,
         Ask(c, op, Idle.name, d, n), UNCHANGED Server,
         op = "refresh" => n \in Pairs, op = "revoke" => d \in Devices
  PROVE  /\ AuthInv' /\ \A u \in Tasks \ {c} : call'[u] = call[u]
         /\ call'[c].op = op /\ call'[c].step = "arrived" /\ call'[c].answer = "none"
         /\ call'[c].dev = d /\ call'[c].pair = n
<1>1. AuthTypeOK /\ OneOwner /\ UNCHANGED <<owners, device, pair, welcomed>> /\ Gone' = Gone /\ c \in AuthThreads
  BY DEF AuthInv, Gone, Server, Tasks
<1>2. Idle.name \in DeviceNames
  BY IdleType DEF Call
<1>3. call' \in [AuthThreads -> Call]
  BY <1>1, <1>2, AskType
<1>4. /\ \A u \in Tasks \ {c} : call'[u] = call[u]
      /\ call'[c] = [op |-> op, step |-> "arrived", name |-> Idle.name, dev |-> d, pair |-> n,
                     answer |-> "none", out |-> Gone]
  BY <1>1 DEF Ask, AuthTypeOK, Tasks
<1>5. Found(c)'
  BY <1>1, <1>4 DEF Found, At
<1>6. AuthInv'
  BY <1>1, <1>3, <1>4, <1>5, ReadingStep DEF OneOwner, AuthTypeOK, Tasks
<1>7. QED
  BY <1>4, <1>6

LEMMA HearStep ==
  ASSUME AuthInv, NEW c \in Tasks, Hear(c), UNCHANGED Server
  PROVE  /\ AuthInv' /\ \A u \in Tasks \ {c} : call'[u] = call[u]
         /\ call'[c] = Idle /\ call'[c].op = "none" /\ call'[c].answer = "none"
<1>1. Respond(c) /\ c \in AuthThreads
  BY DEF Hear, Server, Respond, Tasks
<1>2. QED
  BY <1>1, ClientStep, IdleType DEF Hear, AuthInv, AuthTypeOK, Tasks

LEMMA SameServer ==
  ASSUME AuthInv, UNCHANGED authvars
  PROVE  AuthInv' /\ UNCHANGED <<owners, device, pair, call, welcomed>>
  BY StepAuthInv DEF authvars

\* A step of the server that writes no row of a device or a token.
LEMMA ReadCall ==
  ASSUME AuthInv, NEW t \in Tasks,
         \/ BootstrapCheck(t) \/ BootstrapInsert(t) \/ LoginRead(t) \/ RefreshRead(t) \/ Authenticate(t)
         \/ RefreshConsume(t) /\ pair[call[t].pair].refresh # "live"
  PROVE  /\ UNCHANGED <<device, pair>> /\ \A u \in Tasks \ {t} : call'[u] = call[u]
         /\ call[t].step \in {"arrived", "write"} /\ call'[t].op = call[t].op /\ call'[t].pair = call[t].pair
         /\ call[t].op = "refresh" => call'[t].dev = call[t].dev
         /\ call[t].op \in {"login", "refresh"} => call'[t].answer # "ok"
         /\ call[t].op = "login" /\ call'[t].dev # call[t].dev
              => call'[t].dev = NoDevice \/ device[call'[t].dev].state # "absent"
         /\ call[t].op = "refresh" /\ call'[t].answer = "401"
              => LET n == call[t].pair IN \/ pair[n].refresh # "live" \/ pair[n].dev # call[t].dev
                                         \/ ~Active(call[t].dev)
<1>1. AuthTypeOK /\ Found(t) /\ call[t] \in Call /\ t \in AuthThreads
  BY DEF AuthInv, AuthTypeOK, Tasks
<1>2. ASSUME NEW a \in Answers, Answer(t, a)
      PROVE  /\ \A u \in Tasks \ {t} : call'[u] = call[u]
             /\ call'[t].op = call[t].op /\ call'[t].pair = call[t].pair /\ call'[t].dev = call[t].dev
             /\ call'[t].answer = a
  BY <1>1, <1>2 DEF Answer, AuthTypeOK, Call, Tasks
<1>3. ASSUME NEW d \in Devices \cup {NoDevice}, Proceed(t, d)
      PROVE  /\ \A u \in Tasks \ {t} : call'[u] = call[u]
             /\ call'[t].op = call[t].op /\ call'[t].pair = call[t].pair /\ call'[t].dev = d
             /\ call'[t].answer = call[t].answer
  BY <1>1, <1>3 DEF Proceed, AuthTypeOK, Call, Tasks
<1>4. call[t].step # "answered" => call[t].answer = "none"
  BY <1>1 DEF Found
<1>5. CASE BootstrapCheck(t) \/ BootstrapInsert(t)
  BY <1>2, <1>3, <1>5 DEF BootstrapCheck, BootstrapInsert, At, Answers
<1>6. CASE LoginRead(t)
  <2>1. /\ call[t].op = "login" /\ call[t].step = "arrived" /\ UNCHANGED <<device, pair>>
        /\ \/ Answer(t, "401")
           \/ Proceed(t, NoDevice)
           \/ \E d \in Devices : device[d].state = "active" /\ Proceed(t, d)
    BY <1>6 DEF LoginRead, At, Active
  <2>2. QED
    BY <1>2, <1>3, <1>4, <2>1 DEF Answers
<1>7. CASE RefreshRead(t)
  <2>1. /\ call[t].op = "refresh" /\ call[t].step = "arrived" /\ UNCHANGED <<device, pair>>
        /\ \/ Answer(t, "429")
           \/ /\ Answer(t, "401")
              /\ LET n == call[t].pair IN \/ pair[n].refresh # "live" \/ pair[n].dev # call[t].dev
                                         \/ ~Active(call[t].dev)
           \/ Proceed(t, call[t].dev)
    BY <1>7 DEF RefreshRead, At
  <2>2. call[t].dev \in Devices \cup {NoDevice}
    BY <1>1 DEF Call
  <2>3. QED
    BY <1>2, <1>3, <1>4, <2>1, <2>2 DEF Answers
<1>8. CASE Authenticate(t)
  <2>1. /\ call[t].op \in {"use", "revoke"} /\ call[t].step = "arrived" /\ UNCHANGED <<device, pair>>
        /\ Answer(t, "ok") \/ Answer(t, "401") \/ Proceed(t, call[t].dev)
    BY <1>8 DEF Authenticate
  <2>2. call[t].dev \in Devices \cup {NoDevice}
    BY <1>1 DEF Call
  <2>3. QED
    BY <1>2, <1>3, <1>4, <2>1, <2>2 DEF Answers
<1>9. CASE RefreshConsume(t) /\ pair[call[t].pair].refresh # "live"
  <2>1. call[t].op = "refresh" /\ call[t].step = "write" /\ UNCHANGED <<device, pair>> /\ Answer(t, "401")
    BY <1>9 DEF RefreshConsume, At
  <2>2. QED
    BY <1>2, <1>9, <2>1 DEF Answers
<1>10. QED
  BY <1>5, <1>6, <1>7, <1>8, <1>9

\* A step of the server that issues a pair.
LEMMA IssueCall ==
  ASSUME AuthInv, NEW t \in Tasks,
         LoginIssue(t) \/ (RefreshConsume(t) /\ pair[call[t].pair].refresh = "live")
  PROVE  \E n \in Pairs :
           /\ pair[n].dev = NoDevice /\ pair[n].refresh = "none"
           /\ pair'[n].refresh = "live" /\ pair'[n].dev = call'[t].dev /\ call'[t].dev \in Devices
           /\ \A m \in Pairs \ {n} :
                /\ pair'[m].dev = pair[m].dev
                /\ pair'[m].refresh = IF call[t].op = "refresh" /\ m = call[t].pair THEN "consumed" ELSE pair[m].refresh
           /\ \A u \in Tasks \ {t} : call'[u] = call[u]
           /\ call[t].step = "write" /\ call[t].op \in {"login", "refresh"} /\ call'[t].op = call[t].op
           /\ call'[t].step = "answered" /\ call'[t].answer = "ok" /\ call'[t].pair = n
           /\ call[t].op = "refresh" => call'[t].dev = call[t].dev /\ UNCHANGED device
           /\ call[t].op = "login" /\ call[t].dev # NoDevice => call'[t].dev = call[t].dev
           /\ call[t].op = "login" /\ call[t].dev = NoDevice => device'[call'[t].dev].state = "active"
           /\ \A d \in Devices : device[d].state # "absent" => device'[d] = device[d]
<1>1. AuthTypeOK /\ Found(t) /\ PairsOK /\ call[t] \in Call /\ t \in AuthThreads
  BY DEF AuthInv, AuthTypeOK, Tasks
<1>2. PICK d \in Devices, old \in 0 .. MaxPairs, rows \in [Pairs -> PairRow] :
        /\ IssuePair(t, d, old, rows)
        /\ \/ /\ call[t].op = "login" /\ old = 0 /\ rows = pair
              /\ \/ call[t].dev # NoDevice /\ d = call[t].dev /\ UNCHANGED device
                 \/ /\ call[t].dev = NoDevice /\ device[d].state = "absent"
                    /\ device' = [device EXCEPT ![d] = [state |-> "active", name |-> call[t].name]]
           \/ /\ call[t].op = "refresh" /\ old = call[t].pair /\ old \in Pairs /\ d = call[t].dev
              /\ rows = [pair EXCEPT ![old].refresh = "consumed"] /\ UNCHANGED device
              /\ pair[old].refresh = "live"
        /\ call[t].step = "write"
  <2>1. CASE LoginIssue(t)
    <3>1. 0 \in 0 .. MaxPairs
      BY AuthAssumption
    <3>3. pair \in [Pairs -> PairRow]
      BY <1>1 DEF AuthTypeOK
    <3>2. QED
      BY <2>1, <3>1, <3>3 DEF LoginIssue, At
  <2>2. CASE RefreshConsume(t) /\ pair[call[t].pair].refresh = "live"
    <3>1. call[t].op = "refresh" /\ call[t].step = "write" /\ call[t].dev \in Devices /\ call[t].pair \in Pairs
      BY <1>1, <2>2 DEF RefreshConsume, At, Found
    <3>2. call[t].pair \in 0 .. MaxPairs
      BY <1>1 DEF Call
    <3>3. \A old \in Pairs : [pair EXCEPT ![old].refresh = "consumed"] \in [Pairs -> PairRow]
      BY <1>1 DEF AuthTypeOK, PairRow, TokenStates
    <3>4. QED
      BY <2>2, <3>1, <3>2, <3>3 DEF RefreshConsume
  <2>3. QED
    BY <2>1, <2>2
<1>3. PICK n \in Fresh :
        /\ pair' = [rows EXCEPT ![n] = [dev |-> d, access |-> "live", refresh |-> "live", parent |-> old]]
        /\ call' = [call EXCEPT ![t].step = "answered", ![t].answer = "ok", ![t].dev = d, ![t].pair = n]
  BY <1>2 DEF IssuePair
<1>4. n \in Pairs /\ pair[n].dev = NoDevice /\ pair[n].refresh = "none" /\ (old \in Pairs => old # n \/ old = 0)
  <2>1. n \in Pairs /\ pair[n] = NoPairRow /\ pair[n].dev = NoDevice
    BY <1>1, <1>3 DEF Fresh, PairsOK
  <2>2. pair[n].refresh = "none"
    BY <2>1 DEF NoPairRow
  <2>3. QED
    BY <1>2, <2>1, <2>2, AuthAssumption DEF Pairs
<1>5. /\ rows \in [Pairs -> PairRow]
      /\ \A m \in Pairs : /\ rows[m].dev = pair[m].dev
                          /\ rows[m].refresh = IF call[t].op = "refresh" /\ m = call[t].pair THEN "consumed" ELSE pair[m].refresh
  BY <1>1, <1>2 DEF AuthTypeOK, PairRow, TokenStates
<1>6. /\ pair'[n] = [dev |-> d, access |-> "live", refresh |-> "live", parent |-> old]
      /\ \A m \in Pairs \ {n} : pair'[m] = rows[m]
  BY <1>3, <1>4, <1>5
<1>7. /\ \A u \in Tasks \ {t} : call'[u] = call[u]
      /\ call'[t].op = call[t].op /\ call'[t].step = "answered" /\ call'[t].answer = "ok"
      /\ call'[t].dev = d /\ call'[t].pair = n
  BY <1>1, <1>3 DEF AuthTypeOK, Call, Tasks
<1>8. /\ \A x \in Devices : device[x].state # "absent" => device'[x] = device[x]
      /\ call[t].op = "login" /\ call[t].dev = NoDevice => device'[d].state = "active"
  BY <1>1, <1>2 DEF AuthTypeOK
<1>9. QED
  BY <1>2, <1>4, <1>5, <1>6, <1>7, <1>8

\* A revocation, of the device a request names or by the owner.
LEMMA RevokeCall ==
  ASSUME AuthInv, NEW d \in Devices, RevokeRows(d)
  PROVE  /\ \A n \in Pairs : /\ pair'[n].dev = pair[n].dev
                             /\ pair'[n].refresh = "consumed" <=> pair[n].refresh = "consumed"
                             /\ pair[n].refresh # "live" => pair'[n].refresh # "live"
         /\ \A x \in Devices : /\ device'[x].state = "absent" => device[x].state = "absent"
                               /\ device[x].state = "revoked" => device'[x].state = "revoked"
  BY DEF AuthInv, AuthTypeOK, RevokeRows, PairRow, DeviceRow, TokenStates

LEMMA RevokeAnswer ==
  ASSUME AuthInv, NEW t \in Tasks, Revoke(t)
  PROVE  /\ \A u \in Tasks \ {t} : call'[u] = call[u]
         /\ call[t].op = "revoke" /\ call'[t].op = "revoke" /\ call[t].step = "write"
         /\ UNCHANGED <<device, pair>> \/ \E d \in Devices : RevokeRows(d)
<1>1. AuthTypeOK /\ Found(t) /\ call[t].op = "revoke" /\ call[t].step = "write" /\ t \in AuthThreads
  BY DEF AuthInv, Revoke, At, Tasks
<1>2. PICK a : Answer(t, a)
  BY DEF Revoke
<1>3. call[t].dev \in Devices
  BY <1>1 DEF Found
<1>4. UNCHANGED <<device, pair>> \/ RevokeRows(call[t].dev)
  BY DEF Revoke
<1>5. QED
  BY <1>1, <1>2, <1>3, <1>4 DEF Answer, AuthTypeOK, Call, Tasks

-----------------------------------------------------------------------------
(* Types, and where a task stands. *)

RestType ==
  /\ slots \in [Devices -> [pending : Slot, active : Slot]]
  /\ enrolled \in Devices \cup {NoDevice}
  /\ session \in [pair : 0 .. MaxPairs, gen : Nat, old : BOOLEAN]
  /\ staged \in 0 .. MaxPairs
  /\ denied \in BOOLEAN /\ spoiled \in BOOLEAN /\ muddled \in BOOLEAN
  /\ faults \in 0 .. MaxFaults

LEMMA WhereStays ==
  ASSUME NEW u \in Tasks, Where(u), task'[u] = task[u], call'[u] = call[u]
  PROVE  Where(u)'
  BY DEF Where, Issued

LEMMA CloseBase ==
  ASSUME BaseInv, NEW c \in Tasks, Moved(c), AuthInv', \A u \in Tasks \ {c} : call'[u] = call[u],
         Where(c)', RestType'
  PROVE  BaseInv'
<1>1. \A u \in Tasks \ {c} : Where(u)'
  BY WhereStays DEF BaseInv, Moved
<1>2. BrokerTypeOK'
  BY DEF RestType, BrokerTypeOK, Moved, AuthInv
<1>3. QED
  BY <1>1, <1>2 DEF BaseInv

LEMMA FaultType ==
  ASSUME RestType, NEW n \in Nat, Fault(n)
  PROVE  faults' \in 0 .. MaxFaults
  BY BrokerAssumption DEF RestType, Fault

LEMMA BaseFacts ==
  ASSUME BaseInv
  PROVE  /\ AuthInv /\ AuthTypeOK /\ BrokerTypeOK /\ RestType
         /\ \A c \in Tasks : Where(c) /\ task[c] \in Task /\ call[c] \in Call
  BY DEF BaseInv, BrokerTypeOK, RestType, AuthTypeOK, Tasks

\* A request that is over; its thread's call is as before, or answered and heard.
LEMMA OverWhere ==
  ASSUME BaseInv, NEW c \in Tasks, Over(c),
         call'[c] = call[c] \/ call'[c].op = "none"
  PROVE  Where(c)'
<1>1. Where(c) /\ BrokerTypeOK
  BY BaseFacts
<1>2. /\ task'[c].pc \in {"idle", "erase"} /\ task'[c].op = "none"
      /\ task'[c].pc = "erase" => task'[c].dev \in Devices
  BY <1>1, OverTask DEF Where
<1>3. Issued(c)' => Issued(c) /\ call'[c] = call[c]
  BY DEF Issued
<1>4. QED
  BY <1>1, <1>2, <1>3 DEF Where, InRotation, Requesting, InLogout

\* A task that goes on in its request, or begins a rotation, with its call as before.
LEMMA GoesWhere ==
  ASSUME BaseInv, NEW c \in Tasks, NEW p, NEW s, NEW g, NEW r, NEW n, Goes(c, p, s, g, r, n),
         p \in (Requesting \cup InRotation) \ {"rotating"}, task[c].pc \in Requesting \cup InRotation,
         call'[c] = call[c] \/ call'[c].op = "none" \/ call'[c].answer = "none"
  PROVE  Where(c)'
<1>1. Where(c) /\ BrokerTypeOK
  BY BaseFacts
<1>2. task'[c].pc = p /\ task'[c].op = task[c].op /\ task'[c].dev = task[c].dev
  BY DEF Goes
<1>3. Issued(c)' => Issued(c) /\ call'[c] = call[c]
  BY DEF Issued
<1>4. QED
  BY <1>1, <1>2, <1>3 DEF Where, InRotation, Requesting, InLogout

LEMMA RequestBase ==
  ASSUME BaseInv, NEW c \in Tasks, Begin(c) \/ GetToken(c) \/ TakeLock(c)
  PROVE  BaseInv'
<1>1. /\ AuthInv' /\ UNCHANGED <<call, slots, enrolled, session, staged, denied, faults, spoiled>>
      /\ muddled' \in BOOLEAN /\ BrokerTypeOK /\ Where(c) /\ RestType
  BY BaseFacts, SameServer DEF Begin, GetToken, TakeLock, Rotates, Durable, Memory, Ghosts, RestType
<1>2. RestType'
  BY <1>1 DEF RestType
<1>3. Moved(c) /\ Where(c)'
  <2>1. CASE Begin(c)
    <3>1. enrolled \in Devices
      BY <1>1, <2>1 DEF Begin, RestType
    <3>2. QED
      BY <1>1, <2>1, <3>1, BeginTask DEF Where, Issued, Requesting, InRotation
  <2>2. CASE GetToken(c)
    BY <1>1, <2>2, GetTokenTask, GoesWhere DEF GetToken, Requesting, Goes, InRotation
  <2>3. CASE TakeLock(c)
    BY <1>1, <2>3, TakeLockTask, GoesWhere DEF TakeLock, Requesting, Goes, GoesOn, InRotation
  <2>4. QED
    BY <2>1, <2>2, <2>3
<1>4. QED
  BY <1>1, <1>2, <1>3, CloseBase

LEMMA SendBase ==
  ASSUME BaseInv, NEW c \in Tasks, Send(c)
  PROVE  BaseInv'
<1>1. /\ AuthInv /\ AuthTypeOK /\ UNCHANGED <<slots, enrolled, session, staged, denied, faults, spoiled, muddled>>
      /\ BrokerTypeOK /\ Where(c) /\ RestType /\ UNCHANGED Server /\ task[c].pc = "snapshot" /\ task[c] \in Task
  BY BaseFacts DEF Send, Durable, Memory, Ghosts
<1>2. RestType'
  BY <1>1 DEF RestType
<1>3. CASE Over(c) /\ UNCHANGED call
  <2>1. AuthInv' /\ Moved(c)
    BY <1>1, <1>3, SameServer, OverTask DEF Server, authvars
  <2>2. Where(c)'
    BY <1>3, OverWhere
  <2>3. QED
    BY <1>2, <1>3, <2>1, <2>2, CloseBase
<1>4. CASE /\ Ask(c, task[c].op, Idle.name, task[c].dev, task[c].sent)
           /\ Goes(c, "sent", task[c].sent, session.gen, task[c].rejected, task[c].new)
  <2>1. task[c].op \in {"use", "revoke"} /\ task[c].dev \in Devices /\ task[c].sent \in 0 .. MaxPairs
    BY <1>1 DEF Where, Requesting, Task
  <2>2. /\ AuthInv' /\ \A u \in Tasks \ {c} : call'[u] = call[u]
        /\ call'[c].answer = "none"
    BY <1>1, <1>4, <2>1, AskStep DEF Ops
  <2>3. Moved(c) /\ Where(c)'
    BY <1>1, <1>4, <2>2, GoesWhere DEF Goes, Requesting, InRotation
  <2>4. QED
    BY <1>2, <2>2, <2>3, CloseBase
<1>5. QED
  BY <1>1, <1>3, <1>4, SendTask

LEMMA AnswerBase ==
  ASSUME BaseInv, NEW c \in Tasks, GetAnswer(c) \/ LoseAnswer(c) \/ Discard(c)
  PROVE  BaseInv'
<1>1. AuthInv /\ BrokerTypeOK /\ Where(c) /\ RestType
  BY BaseFacts
<1>2. CASE GetAnswer(c)
  <2>1. /\ RestType' /\ AuthInv' /\ \A u \in Tasks \ {c} : call'[u] = call[u]
        /\ call'[c].op = "none" /\ task[c].pc = "sent"
    BY <1>1, <1>2, HearStep DEF GetAnswer, Durable, Memory, Ghosts, RestType
  <2>2. Moved(c) /\ Where(c)'
    <3>1. CASE Over(c)
      BY <1>1, <2>1, <3>1, OverTask, OverWhere
    <3>2. CASE Goes(c, "lock", task[c].sent, task[c].gen, task[c].sent, task[c].new)
      BY <1>1, <2>1, <3>2, GoesWhere DEF Goes, Requesting, InRotation
    <3>3. QED
      BY <1>1, <1>2, <3>1, <3>2, GetAnswerTask
  <2>3. QED
    BY <2>1, <2>2, CloseBase
<1>3. CASE LoseAnswer(c)
  <2>1. faults' \in 0 .. MaxFaults
    BY <1>1, <1>3, FaultType DEF LoseAnswer
  <2>2. RestType' /\ AuthInv' /\ UNCHANGED call
    BY <1>1, <1>3, <2>1, SameServer DEF LoseAnswer, Durable, Memory, RestType
  <2>3. Moved(c) /\ Where(c)'
    BY <1>1, <1>3, <2>2, OverTask, OverWhere DEF LoseAnswer
  <2>4. QED
    BY <2>2, <2>3, CloseBase
<1>4. CASE Discard(c)
  <2>1. /\ RestType' /\ AuthInv' /\ \A u \in Tasks \ {c} : call'[u] = call[u]
        /\ call'[c].op = "none" /\ UNCHANGED task /\ task[c].pc \notin {"sent", "rotating", "login"}
    BY <1>1, <1>4, HearStep DEF Discard, brokervars, RestType
  <2>2. Moved(c)
    BY <1>1, <2>1 DEF Moved, BrokerTypeOK
  <2>3. Where(c)'
    BY <1>1, <2>1 DEF Where, Issued
  <2>4. QED
    BY <2>1, <2>2, <2>3, CloseBase
<1>5. QED
  BY <1>2, <1>3, <1>4

LEMMA PresentBase ==
  ASSUME BaseInv, NEW c \in Tasks, Present(c)
  PROVE  BaseInv'
<1>1. /\ AuthInv /\ BrokerTypeOK /\ Where(c) /\ RestType /\ task[c].pc = "present" /\ task[c].dev \in Devices
      /\ UNCHANGED <<Server, slots, enrolled, session, staged, denied, faults, spoiled>>
  BY BaseFacts DEF Present, Durable, Memory, Where, InRotation
<1>2. CASE Over(c) /\ UNCHANGED <<call, muddled>>
  <2>1. AuthInv' /\ Moved(c) /\ Where(c)'
    BY <1>1, <1>2, SameServer, OverTask, OverWhere DEF Server, authvars
  <2>2. RestType'
    BY <1>1, <1>2 DEF RestType
  <2>3. QED
    BY <1>2, <2>1, <2>2, CloseBase
<1>3. ASSUME NEW n, n = Effective(task[c].dev), n # 0, Ask(c, "refresh", Idle.name, task[c].dev, n),
             To(c, "rotating"), muddled' = (muddled \/ task[c].dev # enrolled)
      PROVE  BaseInv'
  <2>1. n \in 0 .. MaxPairs /\ n \in Pairs
    <3>1. slots[task[c].dev] \in [pending : Slot, active : Slot] /\ staged \in 0 .. MaxPairs
      BY <1>1 DEF RestType
    <3>2. n \in 0 .. MaxPairs
      BY <1>3, <3>1 DEF Effective, Slot
    <3>3. QED
      BY <1>3, <3>2, AuthAssumption DEF Pairs
  <2>2. /\ AuthInv' /\ \A u \in Tasks \ {c} : call'[u] = call[u]
        /\ call'[c].op = "refresh" /\ call'[c].answer = "none" /\ call'[c].dev = task[c].dev
    BY <1>1, <1>3, <2>1, AskStep DEF Ops
  <2>3. GoesOn(c, "rotating")
    BY <1>1, <1>3, GoesOnTask DEF Places, InRotation
  <2>4. Where(c)'
    BY <1>1, <2>2, <2>3 DEF Where, Issued, GoesOn, Goes, InRotation, Requesting, InLogout
  <2>5. RestType'
    BY <1>1, <1>3 DEF RestType
  <2>6. QED
    BY <2>2, <2>3, <2>4, <2>5, CloseBase DEF GoesOn, Goes
<1>4. QED
  BY <1>2, <1>3 DEF Present

LEMMA RotatedBase ==
  ASSUME BaseInv, NEW c \in Tasks, Rotated(c)
  PROVE  BaseInv'
<1>1. /\ AuthInv /\ BrokerTypeOK /\ Where(c) /\ RestType /\ task[c].pc = "rotating"
      /\ UNCHANGED <<slots, enrolled, session, staged, faults, spoiled, muddled>> /\ denied' \in BOOLEAN
  BY BaseFacts DEF Rotated, Durable, Ghosts
<1>2. /\ RestType' /\ AuthInv' /\ \A u \in Tasks \ {c} : call'[u] = call[u]
      /\ call'[c].op = "none"
  BY <1>1, HearStep DEF Rotated, RestType
<1>3. Moved(c) /\ Where(c)'
  <2>1. CASE Over(c)
    BY <1>1, <1>2, <2>1, OverTask, OverWhere
  <2>2. CASE Goes(c, "pending", task[c].sent, task[c].gen, task[c].rejected, call[c].pair)
    BY <1>1, <1>2, <2>2, GoesWhere DEF Goes, Requesting, InRotation
  <2>3. QED
    BY <1>1, <2>1, <2>2, RotatedTask
<1>4. QED
  BY <1>2, <1>3, CloseBase

\* The stamp of the next generation, and the faults of reading and writing.
LEMMA PendingTask ==
  ASSUME BaseInv, NEW c \in Tasks, WritePending(c)
  PROVE  \E p \in {slots[task[c].dev].pending.gen, 0}, a \in {slots[task[c].dev].active.gen, 0},
            ok \in BOOLEAN, stamp \in Nat \ {0} :
           /\ stamp = (IF p > a THEN p ELSE a) + 1
           /\ Moved(c) /\ Goes(c, "active", task[c].sent, task[c].gen, task[c].rejected, task[c].new)
           /\ task'[c].stamp = stamp /\ task'[c].kept = ok /\ faults' \in 0 .. MaxFaults
           /\ slots' = IF ok THEN [slots EXCEPT ![task[c].dev].pending = [gen |-> stamp, pair |-> task[c].new]]
                       ELSE slots
           /\ spoiled' <=> \/ spoiled \/ stamp <= slots[task[c].dev].active.gen
                           \/ ~ok /\ stamp <= slots[task[c].dev].pending.gen
<1>1. /\ BrokerTypeOK /\ RestType /\ task[c] \in Task /\ task[c].pc = "pending" /\ task[c].dev \in Devices
  BY BaseFacts DEF WritePending, Where, InRotation
<1> DEFINE d == task[c].dev
<1>2. slots[d].pending.gen \in Nat /\ slots[d].active.gen \in Nat
  BY <1>1 DEF RestType, Slot
<1>b. PICK p \in {slots[d].pending.gen, 0}, a \in {slots[d].active.gen, 0}, ok \in BOOLEAN :
        /\ Fault(Cardinality({x \in {<<"p", p, slots[d].pending.gen>>,
                                     <<"a", a, slots[d].active.gen>>,
                                     <<"w", ok, TRUE>>} : x[2] # x[3]}))
        /\ spoiled' = \/ spoiled \/ ((IF p > a THEN p ELSE a) + 1) <= slots[d].active.gen
                      \/ ~ok /\ ((IF p > a THEN p ELSE a) + 1) <= slots[d].pending.gen
        /\ slots' = IF ok THEN [slots EXCEPT ![d].pending = [gen |-> ((IF p > a THEN p ELSE a) + 1), pair |-> task[c].new]]
                    ELSE slots
        /\ task' = [task EXCEPT ![c].pc = "active", ![c].stamp = ((IF p > a THEN p ELSE a) + 1), ![c].kept = ok]
  BY Zenon DEF WritePending
<1>c. PICK stamp : stamp = (IF p > a THEN p ELSE a) + 1
  OBVIOUS
<1>3. stamp = (IF p > a THEN p ELSE a) + 1
  BY <1>c
<1>d. spoiled' = \/ spoiled \/ stamp <= slots[d].active.gen
                 \/ ~ok /\ stamp <= slots[d].pending.gen
  BY <1>b, <1>c
<1>e. slots' = IF ok THEN [slots EXCEPT ![d].pending = [gen |-> stamp, pair |-> task[c].new]] ELSE slots
  BY <1>b, <1>c
<1>f. task' = [task EXCEPT ![c].pc = "active", ![c].stamp = stamp, ![c].kept = ok]
  BY <1>b, <1>c
<1>4. stamp \in Nat \ {0}
  BY <1>2, <1>3
<1>5. Cardinality({x \in {<<"p", p, slots[d].pending.gen>>,
                         <<"a", a, slots[d].active.gen>>,
                         <<"w", ok, TRUE>>} : x[2] # x[3]}) \in Nat
  <2>1. ASSUME NEW x, NEW y, NEW z PROVE IsFiniteSet({x, y, z})
    <3>1. IsFiniteSet({} \cup {x}) /\ IsFiniteSet({}) 
      BY FS_EmptySet, FS_AddElement
    <3>2. IsFiniteSet(({} \cup {x}) \cup {y})
      BY <3>1, FS_AddElement
    <3>3. IsFiniteSet((({} \cup {x}) \cup {y}) \cup {z})
      BY <3>2, FS_AddElement
    <3>4. (({} \cup {x}) \cup {y}) \cup {z} = {x, y, z}
      OBVIOUS
    <3>5. QED
      BY <3>3, <3>4
  <2>2. \A S : IsFiniteSet(S) => Cardinality({x \in S : x[2] # x[3]}) \in Nat
    BY FS_Subset, FS_CardinalityType
  <2>3. QED
    BY <2>1, <2>2
<1>6. faults' \in 0 .. MaxFaults
  BY <1>1, <1>b, <1>5, FaultType
<1>7. Goes(c, "active", task[c].sent, task[c].gen, task[c].rejected, task[c].new) /\ task'[c].stamp = stamp /\ task'[c].kept = ok
  <2>1. task' = [task EXCEPT ![c] = [task[c] EXCEPT !.pc = "active", !.stamp = stamp, !.kept = ok]]
    BY <1>f
  <2>2. [task[c] EXCEPT !.pc = "active", !.stamp = stamp, !.kept = ok] \in Task
    BY <1>1, <1>4 DEF Task, InRotation
  <2>3. Moved(c) /\ task'[c] = [task[c] EXCEPT !.pc = "active", !.stamp = stamp, !.kept = ok]
    BY <1>1, <2>1, <2>2, SetTask
  <2>4. QED
    BY <1>1, <2>3 DEF Goes, Task
<1>8. QED
  BY <1>3, <1>4, <1>6, <1>7, <1>d, <1>e DEF Goes

LEMMA WriteBase ==
  ASSUME BaseInv, NEW c \in Tasks, WritePending(c) \/ WriteActive(c) \/ ClearPending(c)
  PROVE  BaseInv'
<1>1. /\ AuthInv /\ BrokerTypeOK /\ Where(c) /\ RestType /\ task[c] \in Task
      /\ task[c].pc \in {"pending", "active", "clear"} /\ task[c].dev \in Devices
      /\ UNCHANGED <<authvars, enrolled, session, denied, muddled>>
  BY BaseFacts DEF WritePending, WriteActive, ClearPending, Where, InRotation, Memory
<1>2. AuthInv' /\ UNCHANGED call
  BY <1>1, SameServer
<1>3. ASSUME NEW g \in Nat PROVE [gen |-> g, pair |-> task[c].new] \in Slot
  BY <1>1, <1>3 DEF Slot, Task
<1>4. task[c].stamp \in Nat /\ task[c].new \in 0 .. MaxPairs
  BY <1>1 DEF Task
<1>5. CASE WritePending(c)
  <2>1. PICK p, a, ok \in BOOLEAN, stamp \in Nat \ {0} :
          /\ Moved(c) /\ Goes(c, "active", task[c].sent, task[c].gen, task[c].rejected, task[c].new)
          /\ faults' \in 0 .. MaxFaults
          /\ slots' = IF ok THEN [slots EXCEPT ![task[c].dev].pending = [gen |-> stamp, pair |-> task[c].new]]
                      ELSE slots
    BY <1>5, PendingTask
  <2>2. slots' \in [Devices -> [pending : Slot, active : Slot]]
    BY <1>1, <1>3, <2>1 DEF RestType
  <2>3. spoiled' \in BOOLEAN /\ UNCHANGED staged
    BY <1>5 DEF WritePending, Memory
  <2>4. RestType'
    BY <1>1, <2>1, <2>2, <2>3 DEF RestType
  <2>5. Where(c)'
    BY <1>1, <1>2, <2>1, GoesWhere DEF InRotation
  <2>6. QED
    BY <1>2, <2>1, <2>4, <2>5, CloseBase
<1>6. CASE WriteActive(c)
  <2>1. GoesOn(c, "clear") \/ GoesOn(c, "session")
    BY <1>1, <1>6, GoesOnTask DEF WriteActive, Places, InRotation
  <2>2. slots' \in [Devices -> [pending : Slot, active : Slot]]
    BY <1>1, <1>3, <1>4, <1>6 DEF WriteActive, RestType
  <2>3. staged' \in 0 .. MaxPairs /\ spoiled' \in BOOLEAN
    BY <1>1, <1>4, <1>6 DEF WriteActive, RestType
  <2>4. faults' \in 0 .. MaxFaults
    BY <1>1, <1>6, FaultType DEF WriteActive, NoFault, RestType
  <2>5. RestType'
    BY <1>1, <2>2, <2>3, <2>4 DEF RestType
  <2>6. Moved(c) /\ Where(c)'
    BY <1>1, <1>2, <2>1, GoesWhere DEF InRotation, GoesOn, Goes
  <2>7. QED
    BY <1>2, <2>5, <2>6, CloseBase
<1>7. CASE ClearPending(c)
  <2>1. GoesOn(c, "session")
    BY <1>1, <1>7, GoesOnTask DEF ClearPending, Places, InRotation
  <2>2. slots' \in [Devices -> [pending : Slot, active : Slot]]
    BY <1>1, <1>3, <1>4, <1>7, EmptyType DEF ClearPending, RestType
  <2>3. staged' \in 0 .. MaxPairs /\ spoiled' \in BOOLEAN
    BY <1>1, <1>7, AuthAssumption DEF ClearPending, RestType
  <2>4. faults' \in 0 .. MaxFaults
    BY <1>1, <1>7, FaultType DEF ClearPending, NoFault, RestType
  <2>5. RestType'
    BY <1>1, <2>2, <2>3, <2>4 DEF RestType
  <2>6. Moved(c) /\ Where(c)'
    BY <1>1, <1>2, <2>1, GoesWhere DEF InRotation, GoesOn, Goes
  <2>7. QED
    BY <1>2, <2>5, <2>6, CloseBase
<1>8. QED
  BY <1>5, <1>6, <1>7

LEMMA SetSessionBase ==
  ASSUME BaseInv, NEW c \in Tasks, SetSession(c)
  PROVE  BaseInv'
<1>1. /\ AuthInv /\ BrokerTypeOK /\ Where(c) /\ RestType /\ task[c] \in Task /\ task[c].pc = "session"
      /\ UNCHANGED <<authvars, slots, enrolled, staged, denied, faults, spoiled, muddled>>
  BY BaseFacts DEF SetSession, Durable, Ghosts
<1>2. AuthInv' /\ UNCHANGED call
  BY <1>1, SameServer
<1>3. session' \in [pair : 0 .. MaxPairs, gen : Nat, old : BOOLEAN]
  <2>1. task[c].new \in 0 .. MaxPairs /\ session.gen + 1 \in Nat
    BY <1>1 DEF Task, RestType
  <2>2. QED
    BY <2>1 DEF SetSession
<1>4. RestType'
  BY <1>1, <1>3 DEF RestType
<1>5. Moved(c) /\ Where(c)'
  <2>1. CASE Over(c)
    BY <1>1, <1>2, <2>1, OverTask, OverWhere
  <2>2. CASE \E p \in {"token", "snapshot"} : Goes(c, p, task[c].new, 0, task[c].rejected, 0)
    BY <1>1, <1>2, <2>2, GoesWhere DEF Goes, Requesting, InRotation
  <2>3. QED
    BY <1>1, <2>1, <2>2, SetSessionTask
<1>6. QED
  BY <1>2, <1>4, <1>5, CloseBase

LEMMA LoginBase ==
  ASSUME BaseInv, NEW c \in Tasks, BeginLogin(c) \/ LoggedIn(c)
  PROVE  BaseInv'
<1>1. AuthInv /\ BrokerTypeOK /\ Where(c) /\ RestType /\ call[c] \in Call
  BY BaseFacts
<1>2. UNCHANGED <<Server, slots, enrolled, session, staged, denied, faults, spoiled, muddled>>
  BY DEF BeginLogin, LoggedIn, Durable, Memory, Ghosts
<1>3. RestType'
  BY <1>1, <1>2 DEF RestType
<1>4. CASE BeginLogin(c)
  <2>1. 0 \in 0 .. MaxPairs
    BY AuthAssumption
  <2>2. /\ AuthInv' /\ \A u \in Tasks \ {c} : call'[u] = call[u]
        /\ call'[c].op = "login" /\ call'[c].answer = "none"
    BY <1>1, <1>2, <1>4, <2>1, AskStep DEF BeginLogin, Ops
  <2>3. Moved(c) /\ Where(c)'
    BY <1>1, <1>4, <2>2, LoginTask DEF Where, Issued, Requesting, InRotation, InLogout
  <2>4. QED
    BY <1>3, <2>2, <2>3, CloseBase
<1>5. CASE LoggedIn(c)
  <2>1. /\ AuthInv' /\ \A u \in Tasks \ {c} : call'[u] = call[u]
        /\ call'[c].op = "none" /\ call[c].op = "login" /\ task[c].pc = "login"
    BY <1>1, <1>2, <1>5, HearStep DEF LoggedIn, Where
  <2>2. CASE Over(c)
    <3>1. Moved(c) /\ Where(c)'
      BY <1>1, <2>1, <2>2, OverTask, OverWhere
    <3>2. QED
      BY <1>3, <2>1, <3>1, CloseBase
  <2>3. CASE ~ Over(c)
    <3>1. /\ call[c].answer = "ok" /\ Moved(c) /\ task'[c].op = task[c].op
          /\ task'[c].pc = "store" /\ task'[c].dev = call[c].dev
      BY <1>1, <1>5, <2>3, LoggedInTask
    <3>2. call[c].dev \in Devices
      BY <1>1, <2>1, <3>1 DEF Where, Issued
    <3>3. Where(c)'
      BY <1>1, <2>1, <3>1, <3>2 DEF Where, Issued, Requesting, InRotation
    <3>4. QED
      BY <1>3, <2>1, <3>1, <3>3, CloseBase
  <2>4. QED
    BY <2>2, <2>3
<1>6. QED
  BY <1>4, <1>5

\* A task whose step calls nobody: a login that stores, a logout.
LEMMA LocalWhere ==
  ASSUME BaseInv, NEW c \in Tasks, UNCHANGED call, Moved(c),
         \/ Over(c)
         \/ /\ task'[c].pc \in {"enroll", "welcome", "forget", "leave"}
            /\ task'[c].op = task[c].op /\ task'[c].dev = task[c].dev /\ task[c].dev \in Devices
         \/ task'[c] = NoTask
  PROVE  Where(c)'
<1>1. Where(c)
  BY BaseFacts
<1>2. CASE Over(c)
  BY <1>2, OverWhere
<1>3. CASE /\ task'[c].pc \in {"enroll", "welcome", "forget", "leave"}
           /\ task'[c].op = task[c].op /\ task'[c].dev = task[c].dev /\ task[c].dev \in Devices
  BY <1>1, <1>3 DEF Where, Issued, Requesting, InRotation
<1>4. CASE task'[c] = NoTask
  BY <1>1, <1>4, NoTaskType DEF Where, Issued, Requesting, InRotation, InLogout
<1>5. QED
  BY <1>2, <1>3, <1>4

LEMMA StoreBase ==
  ASSUME BaseInv, NEW c \in Tasks, StoreLogin(c) \/ Enroll(c) \/ Welcome(c)
  PROVE  BaseInv'
<1>1. /\ AuthInv /\ BrokerTypeOK /\ Where(c) /\ RestType /\ task[c] \in Task /\ UNCHANGED authvars
      /\ task[c].dev \in Devices /\ task[c].new \in 0 .. MaxPairs
  BY BaseFacts DEF StoreLogin, Enroll, Welcome, Where, Task
<1>2. AuthInv' /\ UNCHANGED call
  BY <1>1, SameServer
<1>3. [gen |-> 1, pair |-> task[c].new] \in Slot /\ [pending |-> Empty, active |-> Empty] \in [pending : Slot, active : Slot]
  BY <1>1, EmptyType DEF Slot
<1>4. CASE StoreLogin(c)
  <2>1. Over(c) \/ GoesOn(c, "enroll")
    BY <1>1, <1>4, GoesOnTask DEF StoreLogin, Places, InLogin
  <2>2. slots' \in [Devices -> [pending : Slot, active : Slot]]
    BY <1>1, <1>3, <1>4 DEF StoreLogin, RestType
  <2>3. faults' \in 0 .. MaxFaults
    BY <1>1, <1>4, FaultType DEF StoreLogin, NoFault, RestType
  <2>4. /\ spoiled' \in BOOLEAN /\ muddled' \in BOOLEAN
        /\ UNCHANGED <<enrolled, session, staged, denied>>
    BY <1>1, <1>4 DEF StoreLogin, RestType, Memory
  <2>5. RestType'
    BY <1>1, <2>2, <2>3, <2>4 DEF RestType
  <2>6. Moved(c) /\ Where(c)'
    BY <1>1, <1>2, <2>1, OverTask, LocalWhere DEF GoesOn, Goes
  <2>7. QED
    BY <1>2, <2>5, <2>6, CloseBase
<1>5. CASE Enroll(c)
  <2>1. Over(c) \/ GoesOn(c, "welcome")
    BY <1>1, <1>5, GoesOnTask DEF Enroll, Places, InLogin
  <2>2. slots' \in [Devices -> [pending : Slot, active : Slot]]
    BY <1>1, <1>3, <1>5, EmptyType DEF Enroll, RestType
  <2>3. faults' \in 0 .. MaxFaults
    BY <1>1, <1>5, FaultType DEF Enroll, NoFault, RestType
  <2>4. /\ spoiled' \in BOOLEAN /\ muddled' \in BOOLEAN /\ enrolled' \in Devices \cup {NoDevice}
        /\ UNCHANGED <<session, staged, denied>>
    BY <1>1, <1>5 DEF Enroll, RestType, Memory
  <2>5. RestType'
    BY <1>1, <2>2, <2>3, <2>4 DEF RestType
  <2>6. Moved(c) /\ Where(c)'
    BY <1>1, <1>2, <2>1, OverTask, LocalWhere DEF GoesOn, Goes
  <2>7. QED
    BY <1>2, <2>5, <2>6, CloseBase
<1>6. CASE Welcome(c)
  <2>1. session' \in [pair : 0 .. MaxPairs, gen : Nat, old : BOOLEAN]
    <3>1. session.gen + 1 \in Nat
      BY <1>1 DEF RestType
    <3>2. QED
      BY <1>1, <1>6, <3>1 DEF Welcome
  <2>2. RestType'
    BY <1>1, <1>6, <2>1 DEF RestType, Welcome, Durable, Ghosts
  <2>3. Moved(c) /\ Where(c)'
    BY <1>1, <1>2, <1>6, OverTask, LocalWhere DEF Welcome
  <2>4. QED
    BY <1>2, <2>2, <2>3, CloseBase
<1>7. QED
  BY <1>4, <1>5, <1>6

LEMMA LogoutBase ==
  ASSUME BaseInv, NEW c \in Tasks, Erase(c) \/ Forget(c) \/ Leave(c)
  PROVE  BaseInv'
<1>1. /\ AuthInv /\ BrokerTypeOK /\ Where(c) /\ RestType /\ task[c] \in Task /\ UNCHANGED authvars
      /\ task[c].dev \in Devices
  BY BaseFacts DEF Erase, Forget, Leave, Where, InLogout
<1>2. AuthInv' /\ UNCHANGED call
  BY <1>1, SameServer
<1>3. [pending |-> Empty, active |-> Empty] \in [pending : Slot, active : Slot]
  BY EmptyType
<1>4. CASE Erase(c)
  <2>1. GoesOn(c, "forget")
    BY <1>1, <1>4, GoesOnTask DEF Erase, Places, InLogout
  <2>2. slots' \in [Devices -> [pending : Slot, active : Slot]]
    BY <1>1, <1>3, <1>4, EmptyType DEF Erase, RestType
  <2>3. faults' \in 0 .. MaxFaults
    BY <1>1, <1>4, FaultType DEF Erase, NoFault, RestType
  <2>4. RestType'
    BY <1>1, <1>4, <2>2, <2>3 DEF RestType, Erase, Memory
  <2>5. Moved(c) /\ Where(c)'
    BY <1>1, <1>2, <2>1, LocalWhere DEF GoesOn, Goes
  <2>6. QED
    BY <1>2, <2>4, <2>5, CloseBase
<1>5. CASE Forget(c)
  <2>1. GoesOn(c, "leave")
    BY <1>1, <1>5, GoesOnTask DEF Forget, Places, InLogout
  <2>2. RestType'
    BY <1>1, <1>5, NoSessionType, AuthAssumption DEF RestType, Forget, Durable, Ghosts
  <2>3. Moved(c) /\ Where(c)'
    BY <1>1, <1>2, <2>1, LocalWhere DEF GoesOn, Goes
  <2>4. QED
    BY <1>2, <2>2, <2>3, CloseBase
<1>6. CASE Leave(c)
  <2>1. Moved(c) /\ task'[c] = NoTask
    BY <1>1, <1>6, SetTask, NoTaskType DEF Leave
  <2>2. RestType'
    BY <1>1, <1>6 DEF RestType, Leave, Memory, Ghosts
  <2>3. Where(c)'
    BY <1>1, <1>2, <2>1, LocalWhere
  <2>4. QED
    BY <1>2, <2>1, <2>2, <2>3, CloseBase
<1>7. QED
  BY <1>4, <1>5, <1>6

LEMMA OwnBase ==
  ASSUME BaseInv, NEW c \in Tasks, BrokerStep(c)
  PROVE  BaseInv'
  BY RequestBase, SendBase, AnswerBase, PresentBase, RotatedBase, WriteBase, SetSessionBase, LoginBase, StoreBase,
     LogoutBase DEF BrokerStep

LEMMA ServeBase ==
  ASSUME BaseInv, NEW c \in Tasks, Handle(c), UNCHANGED brokervars
  PROVE  BaseInv'
<1>1. /\ AuthInv /\ BrokerTypeOK /\ RestType /\ c \in AuthThreads /\ call[c] \in Call
      /\ UNCHANGED <<slots, enrolled, session, staged, denied, task, faults, spoiled, muddled>>
  BY BaseFacts DEF brokervars, Tasks
<1>2. AuthInv'
  BY <1>1, StepAuthInv DEF AuthNext
<1>3. BrokerTypeOK'
  BY <1>1, <1>2 DEF BrokerTypeOK, AuthInv
<1>4. /\ \A u \in Tasks \ {c} : call'[u] = call[u]
      /\ call'[c].op = call[c].op
      /\ call[c].op = "refresh" => call'[c].dev = call[c].dev
      /\ Issued(c)' => call'[c].pair \in Pairs /\ call'[c].dev \in Devices /\ call'[c].step = "answered"
  <2>1. CASE \/ BootstrapCheck(c) \/ BootstrapInsert(c) \/ LoginRead(c) \/ RefreshRead(c) \/ Authenticate(c)
             \/ RefreshConsume(c) /\ pair[call[c].pair].refresh # "live"
    BY <1>1, <2>1, ReadCall DEF Issued
  <2>2. CASE LoginIssue(c) \/ (RefreshConsume(c) /\ pair[call[c].pair].refresh = "live")
    BY <1>1, <2>2, IssueCall DEF Issued
  <2>3. CASE Revoke(c)
    BY <1>1, <2>3, RevokeAnswer DEF Issued
  <2>4. QED
    BY <2>1, <2>2, <2>3 DEF Handle
<1>5. ASSUME NEW u \in Tasks PROVE Where(u)'
  <2>1. Where(u)
    BY BaseFacts
  <2>2. CASE u # c
    BY <1>1, <1>4, <2>1, <2>2, WhereStays
  <2>3. CASE u = c
    BY <1>1, <1>4, <2>1, <2>3 DEF Where
  <2>4. QED
    BY <2>2, <2>3
<1>6. QED
  BY <1>2, <1>3, <1>5 DEF BaseInv

LEMMA WorldBase ==
  ASSUME BaseInv, SessionAges \/ Crash \/ RevokedElsewhere \/ Expires \/ UNCHANGED remotevars
  PROVE  BaseInv'
<1>1. AuthInv /\ BrokerTypeOK /\ RestType /\ \A u \in Tasks : Where(u)
  BY BaseFacts
<1>2. CASE SessionAges
  <2>1. AuthInv' /\ UNCHANGED call
    BY <1>1, <1>2, SameServer DEF SessionAges
  <2>2. BrokerTypeOK'
    BY <1>1, <1>2, <2>1 DEF BrokerTypeOK, SessionAges, Durable, Ghosts, AuthInv
  <2>3. UNCHANGED task
    BY <1>2 DEF SessionAges
  <2>4. QED
    BY <1>1, <2>1, <2>2, <2>3, WhereStays DEF BaseInv
<1>3. CASE Crash
  <2>1. AuthInv' /\ UNCHANGED <<call, slots, enrolled>>
    BY <1>1, <1>3, SameServer DEF Crash, Durable
  <2>2. faults' \in 0 .. MaxFaults
    BY <1>1, <1>3, FaultType DEF Crash
  <2>3. task' \in [Tasks -> Task] /\ \A u \in Tasks : task'[u] = NoTask
    BY <1>3, NoTaskType DEF Crash
  <2>4. /\ staged' \in 0 .. MaxPairs /\ denied' \in BOOLEAN /\ spoiled' \in BOOLEAN /\ muddled' \in BOOLEAN
        /\ session' \in [pair : 0 .. MaxPairs, gen : Nat, old : BOOLEAN]
    BY <1>3, NoSessionType, AuthAssumption DEF Crash
  <2>5. BrokerTypeOK'
    BY <1>1, <2>1, <2>2, <2>3, <2>4 DEF BrokerTypeOK, AuthInv
  <2>6. ASSUME NEW u \in Tasks PROVE Where(u)'
    <3>1. task'[u].pc = "idle" /\ task'[u].op = "none" /\ (Issued(u)' <=> Issued(u)) /\ call'[u] = call[u]
      BY <2>1, <2>3, NoTaskType DEF Issued
    <3>2. Issued(u) => call[u].pair \in Pairs /\ call[u].dev \in Devices /\ call[u].step = "answered"
      BY <1>1 DEF Where
    <3>3. QED
      BY <3>1, <3>2 DEF Where, Requesting, InRotation, InLogout
  <2>7. QED
    BY <2>1, <2>5, <2>6 DEF BaseInv
<1>4. CASE RevokedElsewhere
  <2>1. PICK d \in Devices : RevokeRows(d) /\ UNCHANGED <<owners, call, welcomed, brokervars>>
    BY <1>4 DEF RevokedElsewhere
  <2>2. /\ device' \in [Devices -> DeviceRow] /\ pair' \in [Pairs -> PairRow]
        /\ PairsOK' /\ ReplacedOnce' /\ RowsOnlyLose
    BY <1>1, <2>1, RevokedRows
  <2>3. \A u \in AuthThreads : Found(u)'
    BY <1>1, <2>1, <2>2, FoundStays
  <2>4. AuthInv'
    BY <1>1, <2>1, <2>2, <2>3 DEF AuthInv, AuthTypeOK, OneOwner
  <2>5. BrokerTypeOK' /\ UNCHANGED task
    BY <1>1, <2>1, <2>4 DEF BrokerTypeOK, AuthInv, brokervars
  <2>6. QED
    BY <1>1, <2>1, <2>4, <2>5, WhereStays DEF BaseInv
<1>5. CASE Expires
  <2>1. UNCHANGED <<call, brokervars>> /\ AuthInv'
    BY <1>1, <1>5, ExpiryStep DEF Expires, AccessExpires
  <2>2. BrokerTypeOK' /\ UNCHANGED task
    BY <1>1, <2>1 DEF BrokerTypeOK, AuthInv, brokervars
  <2>3. QED
    BY <1>1, <2>1, <2>2, WhereStays DEF BaseInv
<1>6. CASE UNCHANGED remotevars
  <2>1. AuthInv' /\ UNCHANGED <<call, brokervars>>
    BY <1>1, <1>6, SameServer DEF remotevars, authvars
  <2>2. BrokerTypeOK' /\ UNCHANGED task
    BY <1>1, <2>1 DEF BrokerTypeOK, AuthInv, brokervars
  <2>3. QED
    BY <1>1, <2>1, <2>2, WhereStays DEF BaseInv
<1>7. QED
  BY <1>2, <1>3, <1>4, <1>5, <1>6

LEMMA StepBase == BaseInv /\ [BrokerNext]_remotevars => BaseInv'
  BY OwnBase, ServeBase, WorldBase DEF BrokerNext, ClientNext, Serve

LEMMA InitBase == BrokerInit => BaseInv
<1> SUFFICES ASSUME BrokerInit PROVE BaseInv
  OBVIOUS
<1>1. AuthTypeOK
  BY IdleType, AuthAssumption
     DEF BrokerInit, NoRows, AuthTypeOK, NoPairRow, PairRow, TokenStates, DeviceRow, Idle, Call
<1>2. OneOwner /\ PairsOK /\ ReplacedOnce
  BY DEF BrokerInit, NoRows, OneOwner, PairsOK, ReplacedOnce, NoPairRow
<1>3. \A t \in AuthThreads : Found(t)
  BY IdleType DEF BrokerInit, NoRows, Found, At
<1>4. BrokerTypeOK
  <2>1. task \in [Tasks -> Task]
    BY NoTaskType DEF BrokerInit
  <2>2. slots \in [Devices -> [pending : Slot, active : Slot]]
    BY EmptyType DEF BrokerInit
  <2>3. /\ enrolled \in Devices \cup {NoDevice} /\ session \in [pair : 0 .. MaxPairs, gen : Nat, old : BOOLEAN]
        /\ denied \in BOOLEAN /\ spoiled \in BOOLEAN /\ muddled \in BOOLEAN
    BY NoSessionType DEF BrokerInit
  <2>4. staged \in 0 .. MaxPairs /\ faults \in 0 .. MaxFaults
    BY AuthAssumption, BrokerAssumption DEF BrokerInit
  <2>5. QED
    BY <1>1, <2>1, <2>2, <2>3, <2>4 DEF BrokerTypeOK
<1>5. ASSUME NEW c \in Tasks PROVE Where(c)
  BY NoTaskType, IdleType DEF BrokerInit, NoRows, Where, Issued, Requesting, InRotation, InLogout, Tasks
<1>6. QED
  BY <1>1, <1>2, <1>3, <1>4, <1>5 DEF BaseInv, AuthInv

LEMMA BaseInvariant == BrokerSpec => []BaseInv
  BY InitBase, StepBase, PTL DEF BrokerSpec

-----------------------------------------------------------------------------
(* Rotations, logins and logouts do not overlap, or it is muddled. *)

Blank == [pending |-> Empty, active |-> Empty]

OneRotation == \A c, u \in Tasks : task[c].pc \in InRotation /\ task[u].pc \in InRotation => c = u

\* What a login or logout that is under way has done.
Stage(c) ==
  LET t == task[c] IN
  /\ t.pc \in Midway => \A u \in Tasks \ {c} : task[u].pc \notin InRotation \cup Midway
  /\ t.pc \in InRotation \ {"present"} => t.dev = enrolled
  /\ t.pc \in {"enroll", "welcome"} =>
       staged = 0 /\ slots[t.dev] = [pending |-> Empty, active |-> [gen |-> 1, pair |-> t.new]]
  /\ t.pc = "enroll" => enrolled \in {NoDevice, t.dev}
  /\ t.pc = "welcome" => enrolled = t.dev
  /\ t.pc \in {"forget", "leave"} => enrolled \in {NoDevice, t.dev} /\ slots[t.dev] = Blank
  /\ t.pc = "leave" => session = NoSession /\ staged = 0

\* Without an enrollment nothing is in memory, and only the enrolled device has
\* anything in the store.
Bounded ==
  /\ enrolled = NoDevice => session = NoSession /\ staged = 0
  /\ \A d \in Devices : \/ d = enrolled \/ slots[d] = Blank
                        \/ \E c \in Tasks : task[c].pc = "enroll" /\ task[c].dev = d

SectionInv == OneRotation /\ (~muddled => Bounded /\ \A c \in Tasks : Stage(c))

\* A step that stays out of logins and logouts and touches nothing they use.
LEMMA QuietSection ==
  ASSUME BaseInv, SectionInv, NEW c \in Tasks, Moved(c), UNCHANGED <<slots, enrolled, session, staged>>,
         muddled => muddled', task[c].pc \notin Midway, task'[c].pc \notin Midway,
         task'[c].pc \in InRotation =>
            /\ task[c].pc \in InRotation /\ task'[c].dev = task[c].dev
            /\ task[c].pc = "present" /\ task'[c].pc # "present" /\ ~muddled' => task[c].dev = enrolled
  PROVE  SectionInv'
<1>1. \A u \in Tasks \ {c} : task'[u] = task[u]
  BY DEF Moved
<1>2. OneRotation'
  <2>1. \A u \in Tasks : task'[u].pc \in InRotation => task[u].pc \in InRotation
    BY <1>1
  <2>2. QED
    BY <2>1 DEF SectionInv, OneRotation
<1>3. ASSUME ~muddled' PROVE Bounded'
  <2>1. Bounded
    BY <1>3 DEF SectionInv
  <2>2. \A u \in Tasks : task[u].pc = "enroll" => u # c /\ task'[u] = task[u]
    BY <1>1 DEF Midway
  <2>3. QED
    BY <2>1, <2>2 DEF Bounded
<1>4. ASSUME ~muddled', NEW u \in Tasks PROVE Stage(u)'
  <2>1. Stage(u) /\ Stage(c)
    BY <1>4 DEF SectionInv
  <2>2. CASE u # c
    <3>1. task'[u] = task[u]
      BY <1>1, <2>2
    <3>2. task[u].pc \in Midway => \A x \in Tasks \ {u} : task'[x].pc \notin InRotation \cup Midway
      BY <1>1, <2>1, <2>2 DEF Stage
    <3>3. QED
      BY <2>1, <3>1, <3>2 DEF Stage
  <2>3. CASE u = c
    <3>1. task'[c].pc \in InRotation \ {"present"} => task'[c].dev = enrolled'
      BY <1>4, <2>1 DEF Stage
    <3>2. task'[c].pc \notin {"enroll", "welcome", "forget", "leave"}
      BY DEF Midway
    <3>3. QED
      BY <2>3, <3>1, <3>2 DEF Stage, Midway
  <2>4. QED
    BY <2>2, <2>3
<1>5. QED
  BY <1>2, <1>3, <1>4 DEF SectionInv

\* A rotation writes what is the enrolled device's.
LEMMA RotationSection ==
  ASSUME BaseInv, SectionInv, NEW c \in Tasks, Moved(c), UNCHANGED <<enrolled, muddled>>,
         task[c].pc \in InRotation \ {"present"}, task'[c].pc \notin Midway \cup {"present"},
         task'[c].pc \in InRotation => task'[c].dev = task[c].dev,
         \A d \in Devices \ {task[c].dev} : slots'[d] = slots[d]
  PROVE  SectionInv'
<1>1. \A u \in Tasks \ {c} : task'[u] = task[u]
  BY DEF Moved
<1>2. OneRotation'
  <2>1. \A u \in Tasks : task'[u].pc \in InRotation => task[u].pc \in InRotation
    BY <1>1
  <2>2. QED
    BY <2>1 DEF SectionInv, OneRotation
<1>3. ASSUME ~muddled' PROVE Bounded' /\ \A u \in Tasks : Stage(u)'
  <2>1. Bounded /\ \A u \in Tasks : Stage(u)
    BY <1>3 DEF SectionInv
  <2>2. task[c].dev = enrolled /\ task[c].dev \in Devices
    BY <2>1, BaseFacts DEF Stage, Where
  <2>3. \A u \in Tasks : task'[u].pc \notin Midway
    BY <1>1, <2>1 DEF Stage
  <2>4. \A u \in Tasks : task[u].pc \notin Midway
    BY <2>1 DEF Stage, InRotation, Midway
  <2>5. Bounded'
    BY <2>1, <2>2, <2>4, AuthAssumption DEF Bounded, Midway
  <2>6. ASSUME NEW u \in Tasks PROVE Stage(u)'
    <3>1. task'[u].pc \in InRotation \ {"present"} => task'[u].dev = enrolled
      BY <1>1, <2>1, <2>2 DEF Stage
    <3>2. task'[u].pc \notin {"enroll", "welcome", "forget", "leave"}
      BY <2>3 DEF Midway
    <3>3. QED
      BY <3>1, <3>2 DEF Stage, Midway
  <2>7. QED
    BY <2>5, <2>6
<1>4. QED
  BY <1>2, <1>3 DEF SectionInv

LEMMA SameSection ==
  ASSUME SectionInv, UNCHANGED brokervars
  PROVE  SectionInv'
  BY DEF SectionInv, OneRotation, Bounded, Stage, brokervars

LEMMA OneRotationStays ==
  ASSUME SectionInv, NEW c \in Tasks, Moved(c), task'[c].pc \in InRotation => task[c].pc \in InRotation
  PROVE  OneRotation'
<1>1. \A u \in Tasks : task'[u].pc \in InRotation => task[u].pc \in InRotation
  BY DEF Moved
<1>2. QED
  BY <1>1 DEF SectionInv, OneRotation

LEMMA RequestSection ==
  ASSUME BaseInv, SectionInv, NEW c \in Tasks,
         \/ Begin(c) \/ GetToken(c) \/ Send(c) \/ GetAnswer(c) \/ LoseAnswer(c) \/ Present(c) \/ Rotated(c)
         \/ BeginLogin(c) \/ LoggedIn(c)
  PROVE  SectionInv'
<1>1. UNCHANGED <<slots, enrolled, session, staged>> /\ (muddled => muddled') /\ BrokerTypeOK
  <2>1. BrokerTypeOK
    BY BaseFacts
  <2>2. UNCHANGED <<slots, enrolled, session, staged>>
    BY DEF Begin, GetToken, Send, GetAnswer, LoseAnswer, Present, Rotated, BeginLogin, LoggedIn, Durable, Memory
  <2>3. muddled => muddled'
    <3>1. CASE Present(c)
      BY <3>1 DEF Present
    <3>2. CASE ~Present(c)
      BY <3>2 DEF Begin, GetToken, Send, GetAnswer, LoseAnswer, Rotated, BeginLogin, LoggedIn, Ghosts
    <3>3. QED
      BY <3>1, <3>2
  <2>4. QED
    BY <2>1, <2>2, <2>3
<1>2. task[c].pc \in {"idle", "token", "snapshot", "sent", "rotating", "login", "present"}
  BY DEF Begin, GetToken, Send, GetAnswer, LoseAnswer, Present, Rotated, BeginLogin, LoggedIn
<1>3. task[c].pc \notin Midway
  BY <1>2 DEF Midway
<1>4. CASE Over(c)
  BY <1>1, <1>3, <1>4, OverTask, QuietSection DEF Midway, InRotation
<1>5. CASE /\ Moved(c)
           /\ task'[c].pc \in {"token", "erase", "snapshot", "lock", "sent", "login", "store"}
  BY <1>1, <1>3, <1>5, QuietSection DEF Midway, InRotation
<1>6. CASE Present(c) /\ ~Over(c)
  <2>1. GoesOn(c, "rotating") /\ (~muddled' => task[c].dev = enrolled) /\ task[c].pc = "present"
    BY <1>1, <1>6, GoesOnTask DEF Present, Places, InRotation
  <2>2. QED
    BY <1>1, <1>3, <2>1, QuietSection DEF GoesOn, Goes, Midway, InRotation
<1>7. CASE Rotated(c) /\ ~Over(c)
  <2>1. /\ Goes(c, "pending", task[c].sent, task[c].gen, task[c].rejected, call[c].pair) /\ task[c].pc = "rotating"
        /\ UNCHANGED muddled
    BY <1>1, <1>7, RotatedTask DEF Rotated, Ghosts
  <2>2. QED
    BY <1>1, <2>1, RotationSection DEF Goes, Midway, InRotation
<1>8. QED
  BY <1>1, <1>4, <1>5, <1>6, <1>7, BeginTask, GetTokenTask, SendTask, GetAnswerTask, LoginTask, LoggedInTask
     DEF Goes, LoseAnswer

LEMMA TakeSection ==
  ASSUME BaseInv, SectionInv, NEW c \in Tasks, TakeLock(c)
  PROVE  SectionInv'
<1>1. /\ BrokerTypeOK /\ UNCHANGED <<slots, enrolled, session, staged>> /\ (muddled => muddled')
      /\ task[c].pc = "lock" /\ \A u \in Tasks : task[u].pc \notin InRotation
  BY BaseFacts DEF TakeLock, Durable, Memory, Rotates
<1>2. task[c].pc \notin Midway /\ "token" \notin Midway \cup InRotation /\ "snapshot" \notin Midway \cup InRotation
  BY <1>1 DEF Midway, InRotation
<1>3. CASE Moved(c) /\ task'[c].pc \in {"token", "snapshot"}
  BY <1>1, <1>2, <1>3, QuietSection
<1>4. CASE GoesOn(c, "present")
  <2>1. Moved(c) /\ task'[c].pc = "present" /\ \A u \in Tasks \ {c} : task'[u] = task[u]
    BY <1>4 DEF GoesOn, Goes, Moved
  <2>2. OneRotation'
    BY <1>1, <2>1 DEF OneRotation
  <2>3. ASSUME ~muddled' PROVE Bounded' /\ \A u \in Tasks : Stage(u)'
    <3>1. Bounded /\ (\A u \in Tasks : Stage(u)) /\ \A u \in Tasks : task[u].pc \notin Midway
      BY <1>1, <2>1, <2>3 DEF SectionInv, TakeLock, Rotates
    <3>2. \A u \in Tasks : task'[u].pc \notin Midway /\ task'[u].pc \notin InRotation \ {"present"}
      BY <1>1, <2>1, <3>1 DEF Midway
    <3>3. Bounded'
      BY <1>1, <3>1 DEF Bounded, Midway
    <3>4. QED
      BY <3>2, <3>3 DEF Stage, Midway
  <2>4. QED
    BY <2>2, <2>3 DEF SectionInv
<1>5. QED
  BY <1>1, <1>3, <1>4, TakeLockTask DEF Goes

LEMMA StoreSection ==
  ASSUME BaseInv, SectionInv, NEW c \in Tasks, StoreLogin(c)
  PROVE  SectionInv'
<1> DEFINE d == task[c].dev
<1>1. /\ BrokerTypeOK /\ UNCHANGED <<enrolled, session, staged>> /\ (muddled => muddled') /\ d \in Devices
      /\ task[c].pc = "store" /\ slots \in [Devices -> [pending : Slot, active : Slot]]
  BY BaseFacts DEF StoreLogin, Memory, Where, BrokerTypeOK
<1>2. CASE Over(c) /\ UNCHANGED slots
  BY <1>1, <1>2, OverTask, QuietSection DEF Midway, InRotation
<1>3. CASE To(c, "enroll") /\ slots' = [slots EXCEPT ![d].active = [gen |-> 1, pair |-> task[c].new]]
  <2>1. GoesOn(c, "enroll") /\ Moved(c) /\ task'[c].pc = "enroll" /\ task'[c].dev = d /\ task'[c].new = task[c].new
    BY <1>1, <1>3, GoesOnTask DEF Places, InLogin, GoesOn, Goes
  <2>2. OneRotation'
    BY <2>1, OneRotationStays DEF InRotation
  <2>3. /\ slots'[d] = [slots[d] EXCEPT !.active = [gen |-> 1, pair |-> task[c].new]]
        /\ \A x \in Devices \ {d} : slots'[x] = slots[x]
    BY <1>1, <1>3
  <2>4. ASSUME ~muddled' PROVE Bounded' /\ \A u \in Tasks : Stage(u)'
    <3>1. /\ Bounded /\ staged = 0 /\ slots[d].pending = Empty /\ enrolled \in {NoDevice, d}
          /\ \A u \in Tasks \ {c} : task[u].pc \notin InRotation \cup Midway /\ task'[u] = task[u]
      BY <2>1, <2>4 DEF SectionInv, StoreLogin, Beside, Moved
    <3>2. slots[d] \in [pending : Slot, active : Slot]
      BY <1>1
    <3>3. slots'[d] = [pending |-> Empty, active |-> [gen |-> 1, pair |-> task[c].new]]
      BY <2>3, <3>1, <3>2
    <3>4. Bounded'
      <4>1. ASSUME NEW x \in Devices, x # d, x # enrolled PROVE slots'[x] = Blank
        BY <1>1, <2>3, <3>1, <4>1 DEF Bounded, Midway
      <4>2. QED
        BY <1>1, <2>1, <3>1, <4>1 DEF Bounded
    <3>5. ASSUME NEW u \in Tasks PROVE Stage(u)'
      <4>1. CASE u = c
        BY <1>1, <2>1, <3>1, <3>3, <4>1 DEF Stage, InRotation
      <4>2. CASE u # c
        BY <3>1, <4>2 DEF Stage, Midway
      <4>3. QED
        BY <4>1, <4>2
    <3>6. QED
      BY <3>4, <3>5
  <2>5. QED
    BY <2>2, <2>4 DEF SectionInv
<1>4. QED
  BY <1>2, <1>3 DEF StoreLogin

LEMMA EnrollSection ==
  ASSUME BaseInv, SectionInv, NEW c \in Tasks, Enroll(c)
  PROVE  SectionInv'
<1> DEFINE d == task[c].dev
<1>1. /\ BrokerTypeOK /\ UNCHANGED <<session, staged>> /\ d \in Devices
      /\ task[c].pc = "enroll" /\ slots \in [Devices -> [pending : Slot, active : Slot]]
  BY BaseFacts DEF Enroll, Memory, Where, BrokerTypeOK
<1>2. ASSUME ~muddled
      PROVE  /\ Bounded /\ staged = 0 /\ enrolled \in {NoDevice, d}
             /\ slots[d] = [pending |-> Empty, active |-> [gen |-> 1, pair |-> task[c].new]]
             /\ \A u \in Tasks \ {c} : task[u].pc \notin InRotation \cup Midway
             /\ \A x \in Devices \ {d} : slots[x] = Blank
  <2>1. Bounded /\ Stage(c)
    BY <1>2 DEF SectionInv
  <2>2. QED
    BY <1>1, <2>1, AuthAssumption DEF Stage, Midway, Bounded
<1>3. CASE enrolled' = d /\ To(c, "welcome") /\ UNCHANGED <<slots, muddled>>
  <2>1. Moved(c) /\ task'[c].pc = "welcome" /\ task'[c].dev = d /\ task'[c].new = task[c].new
    BY <1>1, <1>3, GoesOnTask DEF Places, InLogin, GoesOn, Goes
  <2>2. OneRotation'
    BY <2>1, OneRotationStays DEF InRotation
  <2>3. ASSUME ~muddled' PROVE Bounded' /\ \A u \in Tasks : Stage(u)'
    <3>1. Bounded'
      BY <1>1, <1>2, <1>3, <2>3, AuthAssumption DEF Bounded
    <3>2. ASSUME NEW u \in Tasks PROVE Stage(u)'
      <4>1. CASE u = c
        BY <1>1, <1>2, <1>3, <2>1, <2>3, <4>1 DEF Stage, InRotation, Moved
      <4>2. CASE u # c
        <5>1. task'[u].pc \notin InRotation \cup Midway
          BY <1>2, <1>3, <2>1, <2>3, <4>2 DEF Moved
        <5>2. QED
          BY <5>1 DEF Stage, Midway
      <4>3. QED
        BY <4>1, <4>2
    <3>3. QED
      BY <3>1, <3>2
  <2>4. QED
    BY <2>2, <2>3 DEF SectionInv
<1>4. CASE /\ Over(c) /\ UNCHANGED enrolled
           /\ \/ UNCHANGED muddled /\ slots' = [slots EXCEPT ![d] = [pending |-> Empty, active |-> Empty]]
              \/ muddled'
  <2>1. Moved(c) /\ task'[c].pc \in {"idle", "erase"}
    BY <1>1, <1>4, OverTask
  <2>2. OneRotation'
    BY <2>1, OneRotationStays DEF InRotation
  <2>3. ASSUME ~muddled' PROVE Bounded' /\ \A u \in Tasks : Stage(u)'
    <3>1. ~muddled /\ slots'[d] = Blank /\ \A x \in Devices \ {d} : slots'[x] = slots[x]
      BY <1>1, <1>4, <2>3 DEF Blank
    <3>2. Bounded'
      BY <1>1, <1>2, <1>4, <3>1 DEF Bounded
    <3>3. ASSUME NEW u \in Tasks PROVE Stage(u)'
      <4>1. task'[u].pc \notin InRotation \cup Midway
        BY <1>2, <2>1, <3>1 DEF Moved, InRotation, Midway
      <4>2. QED
        BY <4>1 DEF Stage, Midway
    <3>4. QED
      BY <3>2, <3>3
  <2>4. QED
    BY <2>2, <2>3 DEF SectionInv
<1>5. QED
  BY <1>3, <1>4 DEF Enroll

LEMMA WriteSection ==
  ASSUME BaseInv, SectionInv, NEW c \in Tasks,
         WritePending(c) \/ WriteActive(c) \/ ClearPending(c) \/ SetSession(c)
  PROVE  SectionInv'
<1> DEFINE d == task[c].dev
<1>1. /\ BrokerTypeOK /\ UNCHANGED <<enrolled, muddled>> /\ d \in Devices
      /\ task[c].pc \in InRotation \ {"present"} /\ slots \in [Devices -> [pending : Slot, active : Slot]]
  BY BaseFacts DEF WritePending, WriteActive, ClearPending, SetSession, Durable, Memory, Ghosts, Where, InRotation,
                   BrokerTypeOK
<1>2. \A x \in Devices \ {d} : slots'[x] = slots[x]
  <2>1. CASE WritePending(c)
    <3>1. \E s : slots' = slots \/ slots' = [slots EXCEPT ![d].pending = s]
      BY <2>1, PendingTask
    <3>2. QED
      BY <1>1, <3>1
  <2>2. CASE WriteActive(c)
    <3>1. \/ slots' = slots
          \/ slots' = [slots EXCEPT ![d].active = [gen |-> task[c].stamp, pair |-> task[c].new]]
      BY <2>2 DEF WriteActive
    <3>2. QED
      BY <1>1, <3>1
  <2>3. CASE ClearPending(c)
    <3>1. PICK p : slots' = slots \/ slots' = [slots EXCEPT ![d].pending = p]
      BY <2>3 DEF ClearPending
    <3>2. QED
      BY <1>1, <3>1
  <2>4. CASE SetSession(c)
    BY <2>4 DEF SetSession, Durable
  <2>5. QED
    BY <2>1, <2>2, <2>3, <2>4
<1>3. /\ Moved(c) /\ task'[c].pc \notin Midway \cup {"present"}
      /\ task'[c].pc \in InRotation => task'[c].dev = d
  <2>1. CASE WritePending(c)
    BY <2>1, PendingTask DEF Goes, Midway
  <2>2. CASE WriteActive(c) \/ ClearPending(c)
    <3>1. GoesOn(c, "clear") \/ GoesOn(c, "session")
      BY <1>1, <2>2, GoesOnTask DEF WriteActive, ClearPending, Places, InRotation
    <3>2. QED
      BY <3>1 DEF GoesOn, Goes, Midway
  <2>3. CASE SetSession(c)
    <3>1. Over(c) \/ \E p \in {"token", "snapshot"} : Goes(c, p, task[c].new, 0, task[c].rejected, 0)
      BY <1>1, <2>3, SetSessionTask
    <3>2. QED
      BY <1>1, <3>1, OverTask DEF Goes, Midway, InRotation
  <2>4. QED
    BY <2>1, <2>2, <2>3
<1>4. QED
  BY <1>1, <1>2, <1>3, RotationSection

\* The parts of a login or logout that follow its first write: nobody else is at work.
LEMMA MidwaySection ==
  ASSUME BaseInv, SectionInv, NEW c \in Tasks, Welcome(c) \/ Forget(c) \/ Leave(c)
  PROVE  SectionInv'
<1> DEFINE d == task[c].dev
<1>1. /\ BrokerTypeOK /\ UNCHANGED <<slots, muddled>> /\ d \in Devices
      /\ task[c].pc \in {"welcome", "forget", "leave"}
  BY BaseFacts DEF Welcome, Forget, Leave, Durable, Ghosts, Where, InLogout
<1>2. Moved(c) /\ task'[c].pc \in {"idle", "erase", "leave"} /\ (task'[c].pc = "leave" => Forget(c) /\ task'[c].dev = d)
  <2>1. CASE Welcome(c)
    BY <1>1, <2>1, OverTask DEF Welcome
  <2>2. CASE Forget(c)
    BY <1>1, <2>2, GoesOnTask DEF Forget, Places, InLogout, GoesOn, Goes
  <2>3. CASE Leave(c)
    BY <1>1, <2>3, SetTask, NoTaskType DEF Leave
  <2>4. QED
    BY <2>1, <2>2, <2>3
<1>3. OneRotation'
  BY <1>2, OneRotationStays DEF InRotation
<1>4. ASSUME ~muddled' PROVE Bounded' /\ \A u \in Tasks : Stage(u)'
  <2>1. /\ Bounded /\ Stage(c)
        /\ \A u \in Tasks \ {c} : task[u].pc \notin InRotation \cup Midway /\ task'[u] = task[u]
    BY <1>1, <1>2, <1>4 DEF SectionInv, Stage, Midway, Moved
  <2>2. \A x \in Devices : x = enrolled \/ slots[x] = Blank
    BY <1>1, <2>1 DEF Bounded, Midway
  <2>3. Bounded'
    <3>1. CASE Welcome(c)
      BY <1>1, <2>1, <2>2, <3>1, AuthAssumption DEF Bounded, Stage, Welcome, Durable
    <3>2. CASE Forget(c)
      BY <1>1, <2>1, <2>2, <3>2 DEF Bounded, Forget, Durable
    <3>3. CASE Leave(c)
      BY <1>1, <2>1, <2>2, <3>3 DEF Bounded, Leave, Stage, Memory
    <3>4. QED
      BY <3>1, <3>2, <3>3
  <2>4. ASSUME NEW u \in Tasks PROVE Stage(u)'
    <3>1. CASE u = c /\ task'[c].pc = "leave"
      BY <1>1, <1>2, <2>1, <3>1 DEF Stage, Forget, Durable, InRotation
    <3>2. CASE u # c \/ task'[c].pc # "leave"
      <4>1. task'[u].pc \notin InRotation \cup Midway
        BY <1>2, <2>1, <3>2 DEF InRotation, Midway
      <4>2. QED
        BY <4>1 DEF Stage, Midway
    <3>3. QED
      BY <3>1, <3>2
  <2>5. QED
    BY <2>3, <2>4
<1>5. QED
  BY <1>3, <1>4 DEF SectionInv

LEMMA EraseSection ==
  ASSUME BaseInv, SectionInv, NEW c \in Tasks, Erase(c)
  PROVE  SectionInv'
<1> DEFINE d == task[c].dev
<1>1. /\ BrokerTypeOK /\ RestType /\ UNCHANGED <<enrolled, session, staged>> /\ (muddled => muddled') /\ d \in Devices
      /\ task[c].pc = "erase" /\ slots \in [Devices -> [pending : Slot, active : Slot]]
  BY BaseFacts DEF Erase, Memory, Where, BrokerTypeOK, InLogout
<1>2. Moved(c) /\ task'[c].pc = "forget" /\ task'[c].dev = d
  BY <1>1, GoesOnTask DEF Erase, Places, InLogout, GoesOn, Goes
<1>3. OneRotation'
  BY <1>2, OneRotationStays DEF InRotation
<1>4. ASSUME ~muddled' PROVE Bounded' /\ \A u \in Tasks : Stage(u)'
  <2>1. /\ Bounded /\ enrolled \in {NoDevice, d} /\ faults' = faults
        /\ \A u \in Tasks \ {c} : task[u].pc \notin InRotation \cup Midway /\ task'[u] = task[u]
    BY <1>1, <1>2, <1>4 DEF SectionInv, Erase, Beside, Moved
  <2>2. slots' = [slots EXCEPT ![d] = Blank]
    BY <1>1, <2>1 DEF Erase, Fault, RestType, Blank
  <2>3. slots'[d] = Blank /\ \A x \in Devices \ {d} : slots'[x] = slots[x]
    BY <1>1, <2>2
  <2>4. Bounded'
    BY <1>1, <2>1, <2>3 DEF Bounded, Midway
  <2>5. ASSUME NEW u \in Tasks PROVE Stage(u)'
    <3>1. CASE u = c
      BY <1>1, <1>2, <2>1, <2>3, <3>1 DEF Stage, InRotation
    <3>2. CASE u # c
      BY <2>1, <3>2 DEF Stage, Midway
    <3>3. QED
      BY <3>1, <3>2
  <2>6. QED
    BY <2>4, <2>5
<1>5. QED
  BY <1>3, <1>4 DEF SectionInv

LEMMA WorldSection ==
  ASSUME BaseInv, SectionInv, SessionAges \/ Crash
  PROVE  SectionInv'
<1>1. BrokerTypeOK
  BY BaseFacts
<1>2. CASE SessionAges
  <2>1. /\ UNCHANGED <<slots, enrolled, staged, task, muddled>> /\ session.pair # 0
    BY <1>2 DEF SessionAges, Durable, Ghosts
  <2>2. session # NoSession
    BY <2>1, NoSessionType
  <2>3. QED
    BY <2>1, <2>2 DEF SectionInv, OneRotation, Bounded, Stage
<1>3. CASE Crash
  <2>1. /\ UNCHANGED <<slots, enrolled>> /\ session' = NoSession /\ staged' = 0
        /\ \A u \in Tasks : task'[u].pc = "idle"
        /\ ~muddled' => ~muddled /\ \A u \in Tasks : task[u].pc # "enroll"
    BY <1>3, NoTaskType DEF Crash, Durable
  <2>2. OneRotation'
    BY <2>1 DEF OneRotation, InRotation
  <2>3. ~muddled' => Bounded'
    BY <2>1 DEF SectionInv, Bounded
  <2>4. \A u \in Tasks : Stage(u)'
    BY <2>1 DEF Stage, InRotation, Midway
  <2>5. QED
    BY <2>2, <2>3, <2>4 DEF SectionInv
<1>4. QED
  BY <1>2, <1>3

LEMMA StepSection == BaseInv /\ SectionInv /\ [BrokerNext]_remotevars => SectionInv'
<1> SUFFICES ASSUME BaseInv, SectionInv, [BrokerNext]_remotevars PROVE SectionInv'
  OBVIOUS
<1>1. ASSUME NEW c \in Tasks, BrokerStep(c) PROVE SectionInv'
  <2>1. CASE Discard(c)
    BY <2>1, SameSection DEF Discard
  <2>2. QED
    BY <1>1, <2>1, RequestSection, TakeSection, WriteSection, StoreSection, EnrollSection, MidwaySection,
       EraseSection DEF BrokerStep
<1>2. CASE SessionAges \/ Crash
  BY <1>2, WorldSection
<1>3. CASE Serve \/ RevokedElsewhere \/ Expires \/ UNCHANGED remotevars
  <2>1. UNCHANGED brokervars
    BY <1>3 DEF Serve, RevokedElsewhere, Expires, remotevars
  <2>2. QED
    BY <2>1, SameSection
<1>4. QED
  BY <1>1, <1>2, <1>3 DEF BrokerNext, ClientNext

LEMMA InitSection == BrokerInit => SectionInv
  BY NoTaskType DEF BrokerInit, SectionInv, OneRotation, Bounded, Stage, Blank, InRotation, Midway

LEMMA SectionInvariant == BrokerSpec => [](BaseInv /\ SectionInv)
<1>1. BrokerInit => BaseInv /\ SectionInv
  BY InitBase, InitSection
<1>2. BaseInv /\ SectionInv /\ [BrokerNext]_remotevars => (BaseInv /\ SectionInv)'
  BY StepBase, StepSection
<1>3. QED
  BY <1>1, <1>2, PTL DEF BrokerSpec

\* Every state of the client and the server has its type: a generation is a
\* number however often a slot was written, and a task waits for what it asked.
THEOREM BrokerTypes == BrokerSpec => []BrokerTypeOK
<1>1. BaseInv => BrokerTypeOK
  BY DEF BaseInv
<1>2. QED
  BY <1>1, BaseInvariant, PTL

\* A logout that no other login, logout or rotation ran beside leaves neither a
\* slot, nor a credential in memory, nor a session, with any number of tasks and
\* whenever the client died in it.
THEOREM LogoutLeavesNothing == BrokerSpec => []LogoutErases
<1>1. BaseInv /\ SectionInv => LogoutErases
  <2> SUFFICES ASSUME SectionInv, enrolled = NoDevice, Quiet, ~muddled
               PROVE  /\ session = NoSession /\ staged = 0
                      /\ \A d \in Devices : slots[d] = Blank
    BY DEF LogoutErases, Blank
  <2>1. Bounded
    BY DEF SectionInv
  <2>2. \A c \in Tasks : task[c].pc # "enroll"
    BY DEF Quiet, InLogin
  <2>3. QED
    BY <2>1, <2>2, AuthAssumption DEF Bounded
<1>2. QED
  BY <1>1, SectionInvariant, PTL

-----------------------------------------------------------------------------
(* What the client holds was issued, and to the device it is held for. *)

Seen == {d \in Devices : device[d].state # "absent"}
Of(d) == {n \in Pairs : pair[n].dev = d}
Known == {n \in Pairs : pair[n].dev \in Devices} \cup {0}

Holding == {"pending", "active", "clear", "session", "store", "enroll", "welcome"}

\* A task knows only tokens that were issued; the pair it has received belongs to its device.
Owns(c) ==
  LET t == task[c]
      r == call[c] IN
  /\ t.sent \in Known /\ t.rejected \in Known
  /\ t.pc \in Holding => t.new \in Of(t.dev)
  /\ Issued(c) => r.pair \in Of(r.dev)
  /\ r.op = "refresh" => r.pair \in Known \ {0}
  /\ r.op = "login" /\ r.step = "write" /\ r.dev # NoDevice => r.dev \in Seen

StoreOwned ==
  /\ enrolled # NoDevice => enrolled \in Seen
  /\ session.pair \in Known /\ staged \in Known
  /\ \A d \in Devices : slots[d].pending.pair \in Of(d) \cup {0} /\ slots[d].active.pair \in Of(d) \cup {0}
  /\ ~muddled /\ staged # 0 => staged \in Of(enrolled)

OwnedInv == /\ \A n \in Pairs : pair[n].dev # NoDevice => pair[n].dev \in Seen
            /\ StoreOwned /\ \A c \in Tasks : Owns(c)

\* Rows of devices and tokens fill up, and lose only what makes them good.
RowsGrow ==
  /\ \A n \in Pairs : pair[n].dev \in Devices =>
       /\ pair'[n].dev = pair[n].dev
       /\ pair[n].refresh # "live" => pair'[n].refresh # "live"
       /\ pair[n].refresh = "consumed" => pair'[n].refresh = "consumed"
  /\ Seen \subseteq Seen' /\ Gone \subseteq Gone'

LEMMA ServerGrows ==
  ASSUME BaseInv, NEW c \in Tasks, Handle(c)
  PROVE  RowsGrow
<1>1. AuthInv
  BY BaseFacts
<1>2. CASE \/ BootstrapCheck(c) \/ BootstrapInsert(c) \/ LoginRead(c) \/ RefreshRead(c) \/ Authenticate(c)
           \/ RefreshConsume(c) /\ pair[call[c].pair].refresh # "live"
  <2>1. UNCHANGED <<device, pair>>
    BY <1>1, <1>2, ReadCall
  <2>2. QED
    BY <2>1 DEF RowsGrow, Seen, Gone
<1>3. CASE LoginIssue(c) \/ (RefreshConsume(c) /\ pair[call[c].pair].refresh = "live")
  <2>1. PICK n \in Pairs :
           /\ pair[n].dev = NoDevice
           /\ \A m \in Pairs \ {n} :
                /\ pair'[m].dev = pair[m].dev
                /\ pair'[m].refresh = IF call[c].op = "refresh" /\ m = call[c].pair THEN "consumed" ELSE pair[m].refresh
           /\ \A d \in Devices : device[d].state # "absent" => device'[d] = device[d]
    BY <1>1, <1>3, IssueCall
  <2>2. \A m \in Pairs : pair[m].dev \in Devices => m # n
    BY <2>1, AuthAssumption
  <2>3. QED
    BY <2>1, <2>2 DEF RowsGrow, Seen, Gone
<1>4. CASE Revoke(c)
  <2>1. UNCHANGED <<device, pair>> \/ \E d \in Devices : RevokeRows(d)
    BY <1>1, <1>4, RevokeAnswer
  <2>2. CASE UNCHANGED <<device, pair>>
    BY <2>2 DEF RowsGrow, Seen, Gone
  <2>3. CASE \E d \in Devices : RevokeRows(d)
    BY <1>1, <2>3, RevokeCall DEF RowsGrow, Seen, Gone
  <2>4. QED
    BY <2>1, <2>2, <2>3
<1>5. QED
  BY <1>2, <1>3, <1>4 DEF Handle

\* A step of the client leaves the server's rows.
LEMMA ClientRows ==
  ASSUME NEW c \in Tasks, BrokerStep(c)
  PROVE  UNCHANGED Server
  BY DEF BrokerStep, Begin, GetToken, Send, GetAnswer, LoseAnswer, Discard, TakeLock, Present, Rotated, WritePending,
         WriteActive, ClearPending, SetSession, BeginLogin, LoggedIn, StoreLogin, Enroll, Welcome, Erase, Forget,
         Leave, authvars, Server

LEMMA Expired ==
  ASSUME BaseInv, Expires
  PROVE  /\ UNCHANGED <<owners, device, call, welcomed, brokervars>>
         /\ \A n \in Pairs : pair'[n].dev = pair[n].dev /\ pair'[n].refresh = pair[n].refresh
<1>1. pair \in [Pairs -> PairRow]
  BY BaseFacts DEF AuthTypeOK
<1>2. PICK n \in Pairs : AccessExpires(n)
  BY DEF Expires
<1>3. pair' = [pair EXCEPT ![n] = [pair[n] EXCEPT !.access = "expired"]]
  BY <1>2 DEF AccessExpires
<1>4. QED
  BY <1>1, <1>2, <1>3 DEF AccessExpires, PairRow, Expires

LEMMA WorldGrows ==
  ASSUME BaseInv, SessionAges \/ Crash \/ RevokedElsewhere \/ Expires \/ UNCHANGED remotevars
  PROVE  RowsGrow
<1>1. AuthInv
  BY BaseFacts
<1>2. CASE RevokedElsewhere
  BY <1>1, <1>2, RevokeCall DEF RevokedElsewhere, RowsGrow, Seen, Gone
<1>3. CASE Expires
  BY <1>3, Expired DEF RowsGrow, Seen, Gone
<1>4. CASE SessionAges \/ Crash \/ UNCHANGED remotevars
  <2>1. UNCHANGED <<device, pair>>
    BY <1>4 DEF SessionAges, Crash, remotevars, authvars
  <2>2. QED
    BY <2>1 DEF RowsGrow, Seen, Gone
<1>5. QED
  BY <1>2, <1>3, <1>4

LEMMA KnownGrows ==
  ASSUME RowsGrow
  PROVE  Known \subseteq Known' /\ \A d \in Devices : Of(d) \subseteq Of(d)'
  BY DEF RowsGrow, Known, Of

LEMMA OwnsStays ==
  ASSUME BaseInv, RowsGrow, NEW u \in Tasks, Owns(u), task'[u] = task[u], call'[u] = call[u]
  PROVE  Owns(u)'
<1>1. Known \subseteq Known' /\ (\A d \in Devices : Of(d) \subseteq Of(d)') /\ Seen \subseteq Seen'
  BY KnownGrows DEF RowsGrow
<1>2. (task[u].pc \in Holding => task[u].dev \in Devices) /\ (Issued(u) => call[u].dev \in Devices)
  BY BaseFacts DEF Where, Holding, InRotation
<1>3. Issued(u)' <=> Issued(u)
  BY DEF Issued
<1>4. QED
  BY <1>1, <1>2, <1>3 DEF Owns

LEMMA StoreOwnedStays ==
  ASSUME BaseInv, RowsGrow, StoreOwned, UNCHANGED <<slots, enrolled, session, staged>>, muddled => muddled'
  PROVE  StoreOwned'
<1>1. Known \subseteq Known' /\ (\A d \in Devices : Of(d) \subseteq Of(d)') /\ Seen \subseteq Seen'
  BY KnownGrows DEF RowsGrow
<1>2. enrolled # NoDevice => enrolled \in Devices
  BY BaseFacts DEF RestType
<1>3. staged # 0 /\ ~muddled' => enrolled # NoDevice
  BY AuthAssumption DEF StoreOwned, Of, Known
<1>4. QED
  BY <1>1, <1>2, <1>3 DEF StoreOwned

\* What a step of the client does to its requests ...
LEMMA StepCall ==
  ASSUME BaseInv, NEW c \in Tasks, BrokerStep(c)
  PROVE  /\ \A u \in Tasks \ {c} : call'[u] = call[u]
         /\ \/ call'[c] = call[c]
            \/ call'[c] = Idle
            \/ /\ call'[c].step = "arrived" /\ call'[c].answer = "none" /\ call[c].step = "free"
               /\ call'[c].op = "refresh" => /\ Present(c) /\ call'[c].dev = task[c].dev
                                             /\ call'[c].pair = Effective(task[c].dev)
                                             /\ call'[c].pair \in Pairs
<1>1. AuthInv /\ AuthTypeOK /\ UNCHANGED Server /\ call \in [Tasks -> Call] /\ BrokerTypeOK
  BY BaseFacts, ClientRows DEF AuthTypeOK, Tasks
<1>2. CASE Hear(c)
  BY <1>1, <1>2, HearStep
<1>3. CASE Send(c) /\ call' # call
  <2>1. Ask(c, task[c].op, Idle.name, task[c].dev, task[c].sent) /\ Where(c) /\ task[c] \in Task
        /\ task[c].pc = "snapshot"
    BY <1>1, <1>3, SendTask, BaseFacts DEF Send
  <2>2. task[c].op \in {"use", "revoke"} /\ task[c].dev \in Devices /\ task[c].sent \in 0 .. MaxPairs
    BY <2>1 DEF Where, Requesting, Task
  <2>3. QED
    BY <1>1, <2>1, <2>2, AskStep DEF Ops, Ask
<1>4. CASE Present(c) /\ call' # call
  <2>1. PICK n : n = Effective(task[c].dev)
    OBVIOUS
  <2>2. n # 0 /\ Ask(c, "refresh", Idle.name, task[c].dev, n) /\ Where(c) /\ RestType /\ task[c].pc = "present"
    BY <1>1, <1>4, <2>1, BaseFacts DEF Present
  <2>3. task[c].dev \in Devices
    BY <2>2 DEF Where, InRotation
  <2>4. n \in 0 .. MaxPairs /\ n \in Pairs
    <3>1. slots[task[c].dev] \in [pending : Slot, active : Slot] /\ staged \in 0 .. MaxPairs
      BY <2>2, <2>3 DEF RestType
    <3>2. n \in 0 .. MaxPairs
      BY <2>1, <3>1 DEF Effective, Slot
    <3>3. QED
      BY <2>2, <3>2, AuthAssumption DEF Pairs
  <2>5. QED
    BY <1>1, <1>4, <2>1, <2>2, <2>3, <2>4, AskStep DEF Ops, Ask
<1>5. CASE BeginLogin(c)
  <2>1. Ask(c, "login", Idle.name, NoDevice, 0) /\ 0 \in 0 .. MaxPairs
    BY <1>5, AuthAssumption DEF BeginLogin
  <2>2. QED
    BY <1>1, <2>1, AskStep DEF Ops, Ask
<1>6. CASE UNCHANGED call
  BY <1>6
<1>7. QED
  <2>1. Hear(c) \/ Send(c) \/ Present(c) \/ BeginLogin(c) \/ UNCHANGED call
    BY DEF BrokerStep, Begin, GetToken, GetAnswer, LoseAnswer, Discard, TakeLock, Rotated, WritePending, WriteActive,
           ClearPending, SetSession, LoggedIn, StoreLogin, Enroll, Welcome, Erase, Forget, Leave, authvars
  <2>2. QED
    BY <1>2, <1>3, <1>4, <1>5, <1>6, <2>1

\* ... and to its task: a token comes from the session, or with the pair that was received,
\* and that is the pair the request it waited for has issued.
LEMMA StepTask ==
  ASSUME BaseInv, NEW c \in Tasks, BrokerStep(c)
  PROVE  /\ Moved(c)
         /\ \A s \in {task'[c].sent, task'[c].rejected} :
              s \in {0, task[c].sent, task[c].rejected, session.pair} \/ (SetSession(c) /\ s = task[c].new)
         /\ task'[c].pc \in Holding =>
              \/ /\ task[c].pc \in Holding /\ task'[c].new = task[c].new /\ task'[c].dev = task[c].dev
                 /\ task'[c].pc \in {"pending", "store"} => Discard(c) /\ UNCHANGED task
              \/ /\ Issued(c) /\ call'[c] = Idle /\ task'[c].new = call[c].pair /\ task'[c].dev = call[c].dev
                 /\ task'[c].pc \in {"pending", "store"}
<1>1. AuthInv /\ BrokerTypeOK /\ Where(c)
  BY BaseFacts
<1>2. CASE Over(c)
  BY <1>1, <1>2, OverTask DEF Holding
<1>3. CASE Begin(c) \/ BeginLogin(c)
  BY <1>1, <1>3, BeginTask, LoginTask DEF Holding
<1>4. CASE GetToken(c)
  BY <1>1, <1>4, GetTokenTask DEF Goes, Holding
<1>5. CASE Send(c)
  BY <1>1, <1>2, <1>5, SendTask DEF Goes, Holding
<1>6. CASE GetAnswer(c)
  BY <1>1, <1>2, <1>6, GetAnswerTask DEF Goes, Holding
<1>7. CASE TakeLock(c)
  BY <1>1, <1>7, TakeLockTask DEF Goes, GoesOn, Holding
<1>8. CASE Discard(c)
  BY <1>1, <1>8 DEF Discard, brokervars, Moved, BrokerTypeOK
<1>9. CASE \/ To(c, "rotating") \/ To(c, "forget") \/ To(c, "leave")
           \/ /\ task[c].pc \in Holding
              /\ To(c, "clear") \/ To(c, "session") \/ To(c, "enroll") \/ To(c, "welcome")
  <2>1. \E p \in {"rotating", "clear", "session", "enroll", "welcome", "forget", "leave"} :
           GoesOn(c, p) /\ (p \in Holding => task[c].pc \in Holding)
    BY <1>1, <1>9, GoesOnTask DEF Places, InRotation, InLogin, InLogout, Holding
  <2>2. QED
    BY <2>1 DEF Goes, GoesOn, Holding
<1>10. CASE Rotated(c)
  <2>1. CASE /\ call[c].answer = "ok"
             /\ Goes(c, "pending", task[c].sent, task[c].gen, task[c].rejected, call[c].pair)
    <3>1. call[c].op = "refresh" /\ call[c].dev = task[c].dev /\ call'[c] = Idle
      BY <1>1, <1>10, HearStep DEF Rotated, Where
    <3>2. QED
      BY <2>1, <3>1 DEF Goes, Issued, Holding
  <2>2. QED
    BY <1>1, <1>2, <1>10, <2>1, RotatedTask
<1>11. CASE LoggedIn(c)
  <2>1. call[c].op = "login" /\ call'[c] = Idle
    BY <1>1, <1>11, HearStep DEF LoggedIn, Where
  <2>2. QED
    BY <1>1, <1>2, <1>11, <2>1, LoggedInTask DEF Issued, Holding
<1>12. CASE WritePending(c)
  BY <1>1, <1>12, PendingTask DEF Goes, Holding, WritePending
<1>13. CASE SetSession(c)
  BY <1>1, <1>2, <1>13, SetSessionTask DEF Goes, Holding
<1>14. CASE Leave(c)
  BY <1>1, <1>14, SetTask, NoTaskType DEF Leave, Holding
<1>15. CASE LoseAnswer(c) \/ Present(c) \/ WriteActive(c) \/ ClearPending(c) \/ StoreLogin(c) \/ Enroll(c) \/ Welcome(c)
            \/ Erase(c) \/ Forget(c)
  BY <1>2, <1>9, <1>15 DEF LoseAnswer, Present, WriteActive, ClearPending, StoreLogin, Enroll, Welcome, Erase, Forget,
                           Holding
<1>16. QED
  BY <1>3, <1>4, <1>5, <1>6, <1>7, <1>8, <1>10, <1>11, <1>12, <1>13, <1>14, <1>15 DEF BrokerStep

LEMMA SameRows ==
  ASSUME UNCHANGED Server
  PROVE  /\ UNCHANGED <<device, pair>> /\ RowsGrow /\ Known' = Known /\ Seen' = Seen /\ Gone' = Gone
         /\ \A d : Of(d)' = Of(d)
  BY DEF Server, RowsGrow, Known, Seen, Gone, Of

LEMMA OwnTask ==
  ASSUME BaseInv, OwnedInv, NEW c \in Tasks, BrokerStep(c)
  PROVE  \A u \in Tasks : Owns(u)'
<1>1. UNCHANGED Server /\ RowsGrow /\ Known' = Known /\ Seen' = Seen /\ \A d : Of(d)' = Of(d)
  BY ClientRows, SameRows
<1>2. ASSUME NEW u \in Tasks \ {c} PROVE Owns(u)'
  BY <1>1, OwnsStays, StepTask, StepCall DEF OwnedInv, Moved
<1>3. Owns(c)'
  <2>1. Owns(c) /\ Where(c) /\ session.pair \in Known /\ 0 \in Known
    BY BaseFacts DEF OwnedInv, StoreOwned, Known
  <2>2. SetSession(c) => task[c].new \in Known
    <3>1. task[c].pc = "session" => task[c].new \in Of(task[c].dev) /\ task[c].dev \in Devices
      BY <2>1 DEF Owns, Holding, Where, InRotation
    <3>2. QED
      BY <3>1 DEF SetSession, Of, Known
  <2>3. task'[c].sent \in Known' /\ task'[c].rejected \in Known'
    BY <1>1, <2>1, <2>2, StepTask DEF Owns
  <2>4. task'[c].pc \in Holding => task'[c].new \in Of(task'[c].dev)
    BY <2>1, StepTask DEF Owns
  <2>5. /\ Issued(c)' => call'[c].pair \in Of(call'[c].dev)
        /\ call'[c].op = "refresh" => call'[c].pair \in Known \ {0}
        /\ call'[c].op = "login" /\ call'[c].step = "write" /\ call'[c].dev # NoDevice => call'[c].dev \in Seen
    <3>1. CASE call'[c] = call[c]
      BY <2>1, <3>1 DEF Owns, Issued
    <3>2. CASE call'[c] = Idle
      BY <3>2, IdleType DEF Issued
    <3>3. CASE call'[c] # call[c] /\ call'[c] # Idle
      <4>1. /\ call'[c].step = "arrived" /\ call'[c].answer = "none"
            /\ call'[c].op = "refresh" => call'[c].pair = Effective(task[c].dev) /\ call'[c].pair \in Pairs /\ Present(c)
        BY <3>3, StepCall
      <4>2. Present(c) => task[c].dev \in Devices
        BY <2>1 DEF Present, Where, InRotation
      <4>3. Present(c) => Effective(task[c].dev) \in Known
        BY <2>1, <4>2 DEF OwnedInv, StoreOwned, Effective, Of, Known
      <4>4. QED
        BY <3>3, <4>1, <4>3, AuthAssumption DEF Issued, Pairs
    <3>4. QED
      BY <3>1, <3>2, <3>3, StepCall
  <2>6. Issued(c)' <=> (call'[c].op \in {"login", "refresh"} /\ call'[c].answer = "ok")
    BY DEF Issued
  <2>7. QED
    BY <1>1, <2>3, <2>4, <2>5, <2>6 DEF Owns
<1>4. QED
  BY <1>2, <1>3

LEMMA OwnStore ==
  ASSUME BaseInv, SectionInv, OwnedInv, NEW c \in Tasks, BrokerStep(c)
  PROVE  StoreOwned'
<1> DEFINE d == task[c].dev
<1> DEFINE n == task[c].new
<1>1. /\ RowsGrow /\ Known' = Known /\ Seen' = Seen /\ (\A x : Of(x)' = Of(x))
      /\ BrokerTypeOK /\ RestType /\ slots \in [Devices -> [pending : Slot, active : Slot]]
      /\ StoreOwned /\ Owns(c) /\ Where(c) /\ 0 \in Known
  BY BaseFacts, ClientRows, SameRows DEF OwnedInv, RestType, Known
<1>2. /\ task[c].pc \in {"pending", "active", "clear", "session", "store", "enroll", "welcome"} => n \in Of(d)
      /\ task[c].pc \in InRotation \cup {"store", "enroll", "welcome"} \cup InLogout => d \in Devices
  BY <1>1 DEF Owns, Holding, Where
<1>3. d \in Devices /\ n \in Of(d) => n \in Known /\ d # NoDevice /\ n # 0 /\ d \in Seen
  BY AuthAssumption DEF Of, Known, Pairs, OwnedInv
<1>4. CASE UNCHANGED <<slots, enrolled, session, staged>> /\ (muddled => muddled')
  BY <1>1, <1>4, StoreOwnedStays
<1>5. CASE WritePending(c)
  <2>1. /\ d \in Devices /\ n \in Of(d) /\ UNCHANGED <<enrolled, session, staged, muddled>>
    BY <1>2, <1>5 DEF WritePending, InRotation, Memory
  <2>a. PICK g \in Nat : slots' = slots \/ slots' = [slots EXCEPT ![d].pending = [gen |-> g, pair |-> n]]
    BY <1>5, PendingTask
  <2>2. \A x \in Devices : slots'[x].pending.pair \in {slots[x].pending.pair} \cup (IF x = d THEN {n} ELSE {})
                           /\ slots'[x].active = slots[x].active
    BY <1>1, <2>1, <2>a
  <2>3. QED
    BY <1>1, <2>1, <2>2 DEF StoreOwned
<1>6. CASE WriteActive(c)
  <2>1. /\ d \in Devices /\ n \in Of(d) /\ UNCHANGED <<enrolled, session, muddled>>
        /\ staged' \in {staged, n} /\ (~muddled => d = enrolled)
        /\ slots' = slots \/ slots' = [slots EXCEPT ![d].active = [gen |-> task[c].stamp, pair |-> n]]
    BY <1>2, <1>6 DEF WriteActive, InRotation, SectionInv, Stage
  <2>2. \A x \in Devices : slots'[x].active.pair \in {slots[x].active.pair} \cup (IF x = d THEN {n} ELSE {})
                           /\ slots'[x].pending = slots[x].pending
    BY <1>1, <2>1
  <2>3. QED
    BY <1>1, <1>3, <2>1, <2>2 DEF StoreOwned
<1>7. CASE ClearPending(c)
  <2>1. /\ d \in Devices /\ n \in Of(d) /\ UNCHANGED <<enrolled, session, muddled>> /\ staged' = 0
        /\ \/ slots' = slots \/ slots' = [slots EXCEPT ![d].pending = Empty]
           \/ slots' = [slots EXCEPT ![d].pending = [gen |-> task[c].stamp, pair |-> n]]
    BY <1>2, <1>7 DEF ClearPending, InRotation
  <2>2. \A x \in Devices : slots'[x].pending.pair \in {slots[x].pending.pair, 0} \cup (IF x = d THEN {n} ELSE {})
                           /\ slots'[x].active = slots[x].active
    BY <1>1, <2>1, EmptyType
  <2>3. QED
    BY <1>1, <2>1, <2>2 DEF StoreOwned
<1>8. CASE SetSession(c)
  <2>1. d \in Devices /\ n \in Of(d) /\ UNCHANGED <<slots, enrolled, staged, muddled>> /\ session'.pair = n
    BY <1>2, <1>8 DEF SetSession, InRotation, Durable, Ghosts
  <2>2. QED
    BY <1>1, <1>3, <2>1 DEF StoreOwned
<1>9. CASE StoreLogin(c)
  <2>1. /\ d \in Devices /\ n \in Of(d) /\ UNCHANGED <<enrolled, session, staged>> /\ (muddled => muddled')
        /\ slots' = slots \/ slots' = [slots EXCEPT ![d].active = [gen |-> 1, pair |-> n]]
    BY <1>2, <1>9 DEF StoreLogin, Memory
  <2>2. \A x \in Devices : slots'[x].active.pair \in {slots[x].active.pair} \cup (IF x = d THEN {n} ELSE {})
                           /\ slots'[x].pending = slots[x].pending
    BY <1>1, <2>1
  <2>3. QED
    BY <1>1, <2>1, <2>2 DEF StoreOwned
<1>10. CASE Enroll(c)
  <2>1. /\ d \in Devices /\ n \in Of(d) /\ UNCHANGED <<session, staged>> /\ (~muddled => staged = 0)
    BY <1>2, <1>10 DEF Enroll, Memory, SectionInv, Stage
  <2>a. /\ enrolled' \in {enrolled, d} /\ (muddled => muddled')
        /\ \/ slots' = slots \/ slots' = [slots EXCEPT ![d].active = Empty]
           \/ slots' = [slots EXCEPT ![d] = [pending |-> Empty, active |-> Empty]]
    BY <1>10 DEF Enroll
  <2>2. \A x \in Devices : slots'[x].active.pair \in {slots[x].active.pair, 0}
                           /\ slots'[x].pending.pair \in {slots[x].pending.pair, 0}
    BY <1>1, <2>1, <2>a, EmptyType
  <2>3. QED
    BY <1>1, <1>3, <2>1, <2>a, <2>2 DEF StoreOwned
<1>11. CASE Erase(c)
  <2>1. /\ d \in Devices /\ UNCHANGED <<enrolled, session, staged>> /\ (muddled => muddled')
        /\ \/ slots' = slots \/ slots' = [slots EXCEPT ![d].active = Empty]
           \/ slots' = [slots EXCEPT ![d] = [pending |-> Empty, active |-> Empty]]
    BY <1>2, <1>11 DEF Erase, Memory, InLogout
  <2>2. \A x \in Devices : slots'[x].active.pair \in {slots[x].active.pair, 0}
                           /\ slots'[x].pending.pair \in {slots[x].pending.pair, 0}
    BY <1>1, <2>1, EmptyType
  <2>3. QED
    BY <1>1, <2>1, <2>2 DEF StoreOwned
<1>12. CASE Welcome(c)
  <2>1. d \in Devices /\ n \in Of(d) /\ UNCHANGED <<slots, enrolled, staged, muddled>> /\ session'.pair = n
    BY <1>2, <1>12 DEF Welcome, Durable, Ghosts
  <2>2. QED
    BY <1>1, <1>3, <2>1 DEF StoreOwned
<1>13. CASE Forget(c)
  <2>1. UNCHANGED <<slots, enrolled, muddled>> /\ session'.pair = 0 /\ staged' = 0
    BY <1>13, NoSessionType DEF Forget, Durable, Ghosts
  <2>2. QED
    BY <1>1, <2>1 DEF StoreOwned
<1>14. CASE Leave(c)
  <2>1. UNCHANGED <<slots, session, staged, muddled>> /\ enrolled' = NoDevice /\ (~muddled => staged = 0)
    BY <1>14 DEF Leave, Memory, Ghosts, SectionInv, Stage
  <2>2. QED
    BY <1>1, <2>1 DEF StoreOwned
<1>15. QED
  <2>1. \/ WritePending(c) \/ WriteActive(c) \/ ClearPending(c) \/ SetSession(c) \/ StoreLogin(c) \/ Enroll(c)
        \/ Erase(c) \/ Welcome(c) \/ Forget(c) \/ Leave(c)
        \/ UNCHANGED <<slots, enrolled, session, staged>> /\ (muddled => muddled')
    <3>1. CASE \/ Begin(c) \/ GetToken(c) \/ Send(c) \/ GetAnswer(c) \/ LoseAnswer(c) \/ Rotated(c)
               \/ BeginLogin(c) \/ LoggedIn(c)
      BY <3>1 DEF Begin, GetToken, Send, GetAnswer, LoseAnswer, Rotated, BeginLogin, LoggedIn, Durable, Memory, Ghosts
    <3>2. CASE Discard(c)
      BY <3>2 DEF Discard, brokervars
    <3>3. CASE TakeLock(c)
      BY <3>3 DEF TakeLock, Durable, Memory, Rotates
    <3>4. CASE Present(c)
      BY <3>4 DEF Present, Durable, Memory
    <3>5. QED
      BY <3>1, <3>2, <3>3, <3>4 DEF BrokerStep
  <2>2. QED
    BY <1>4, <1>5, <1>6, <1>7, <1>8, <1>9, <1>10, <1>11, <1>12, <1>13, <1>14, <2>1

LEMMA OwnOwned ==
  ASSUME BaseInv, SectionInv, OwnedInv, NEW c \in Tasks, BrokerStep(c)
  PROVE  OwnedInv'
<1>1. \A n \in Pairs : pair'[n].dev # NoDevice => pair'[n].dev \in Seen'
  BY ClientRows, SameRows DEF OwnedInv
<1>2. QED
  BY <1>1, OwnTask, OwnStore DEF OwnedInv

LEMMA ServeOwned ==
  ASSUME BaseInv, OwnedInv, NEW c \in Tasks, Handle(c), UNCHANGED brokervars
  PROVE  OwnedInv'
<1>1. /\ AuthInv /\ RowsGrow /\ UNCHANGED <<slots, enrolled, session, staged, task, muddled>>
      /\ Known \subseteq Known' /\ (\A d \in Devices : Of(d) \subseteq Of(d)') /\ Seen \subseteq Seen'
      /\ Where(c) /\ Owns(c) /\ StoreOwned /\ call[c] \in Call
  BY BaseFacts, ServerGrows, KnownGrows DEF brokervars, OwnedInv, RowsGrow
<1>2. StoreOwned'
  BY <1>1, StoreOwnedStays
<1>3. CASE \/ BootstrapCheck(c) \/ BootstrapInsert(c) \/ LoginRead(c) \/ RefreshRead(c) \/ Authenticate(c)
           \/ RefreshConsume(c) /\ pair[call[c].pair].refresh # "live"
  <2>1. /\ UNCHANGED <<device, pair>> /\ \A u \in Tasks \ {c} : call'[u] = call[u]
        /\ call'[c].op = call[c].op /\ call'[c].pair = call[c].pair
        /\ call[c].op \in {"login", "refresh"} => call'[c].answer # "ok"
        /\ call[c].op = "login" /\ call'[c].dev # call[c].dev
              => call'[c].dev = NoDevice \/ device[call'[c].dev].state # "absent"
        /\ call[c].op # "login" \/ call[c].step = "arrived" \/ call'[c] = call[c] 
    BY <1>1, <1>3, ReadCall DEF LoginRead, At, BootstrapCheck, BootstrapInsert, RefreshRead, Authenticate, RefreshConsume
  <2>2. call'[c].op = "login" /\ call'[c].step = "write" /\ call'[c].dev # NoDevice => call'[c].dev \in Seen
    <3>1. LoginRead(c) /\ call'[c].step = "write" =>
             call'[c].dev = NoDevice \/ call'[c].dev \in {d \in Devices : Active(d)}
      BY <1>1 DEF LoginRead, Proceed, Answer, AuthInv, AuthTypeOK, Call, Tasks
    <3>2. call[c].op = "login" => LoginRead(c)
      BY <1>3 DEF LoginRead, At, BootstrapCheck, BootstrapInsert, RefreshRead, Authenticate, RefreshConsume
    <3>3. Seen' = Seen
      BY <2>1 DEF Seen
    <3>4. QED
      BY <2>1, <3>1, <3>2, <3>3 DEF Active, Seen
  <2>3. Known' = Known /\ Seen' = Seen /\ (\A d : Of(d)' = Of(d)) /\ ~Issued(c)'
    BY <2>1 DEF Known, Seen, Of, Issued
  <2>4. Owns(c)'
    BY <1>1, <2>1, <2>2, <2>3 DEF Owns
  <2>5. \A u \in Tasks \ {c} : Owns(u)'
    BY <1>1, <2>1, OwnsStays DEF OwnedInv
  <2>6. QED
    BY <1>2, <2>1, <2>3, <2>4, <2>5 DEF OwnedInv
<1>4. CASE LoginIssue(c) \/ (RefreshConsume(c) /\ pair[call[c].pair].refresh = "live")
  <2>1. PICK n \in Pairs :
           /\ pair'[n].dev = call'[c].dev /\ call'[c].dev \in Devices
           /\ \A m \in Pairs \ {n} : pair'[m].dev = pair[m].dev
           /\ \A u \in Tasks \ {c} : call'[u] = call[u]
           /\ call[c].op \in {"login", "refresh"} /\ call'[c].op = call[c].op /\ call[c].step = "write"
           /\ call'[c].step = "answered" /\ call'[c].answer = "ok" /\ call'[c].pair = n
           /\ call[c].op = "refresh" => call'[c].dev = call[c].dev
           /\ call[c].op = "login" /\ call[c].dev # NoDevice => call'[c].dev = call[c].dev
           /\ call[c].op = "login" /\ call[c].dev = NoDevice => device'[call'[c].dev].state = "active"
    BY <1>1, <1>4, IssueCall
  <2>2. call'[c].dev \in Seen'
    <3>1. CASE call[c].op = "refresh"
      <4>1. call[c].pair \in Pairs /\ pair[call[c].pair].dev = call[c].dev
        BY <1>1, <2>1, <3>1 DEF AuthInv, Found, At, Tasks
      <4>2. call[c].dev \in Seen
        BY <2>1, <3>1, <4>1, AuthAssumption DEF OwnedInv
      <4>3. QED
        BY <1>1, <2>1, <3>1, <4>2
    <3>2. CASE call[c].op = "login" /\ call[c].dev # NoDevice
      BY <1>1, <2>1, <3>2 DEF Owns
    <3>3. CASE call[c].op = "login" /\ call[c].dev = NoDevice
      BY <2>1, <3>3 DEF Seen
    <3>4. QED
      BY <2>1, <3>1, <3>2, <3>3
  <2>a. PICK d \in Devices : d = call'[c].dev
    BY <2>1
  <2>3. n \in Of(d)' /\ n \in Known' /\ n # 0 /\ d \in Seen'
    BY <2>1, <2>2, <2>a, AuthAssumption DEF Of, Known, Pairs
  <2>4. Owns(c)'
    <3>1. task'[c].sent \in Known' /\ task'[c].rejected \in Known'
      BY <1>1 DEF Owns
    <3>2. task[c].pc \in Holding => task[c].dev \in Devices /\ task[c].new \in Of(task[c].dev)
      BY <1>1 DEF Owns, Holding, Where, InRotation
    <3>3. \A x \in Devices : task[c].new \in Of(x) => task[c].new \in Of(x)'
      BY <1>1
    <3>4. QED
      BY <1>1, <2>1, <2>a, <2>3, <3>1, <3>2, <3>3 DEF Owns
  <2>5. \A u \in Tasks \ {c} : Owns(u)'
    BY <1>1, <2>1, OwnsStays DEF OwnedInv
  <2>6. \A m \in Pairs : pair'[m].dev # NoDevice => pair'[m].dev \in Seen'
    BY <1>1, <2>1, <2>2 DEF OwnedInv
  <2>7. QED
    BY <1>2, <2>4, <2>5, <2>6 DEF OwnedInv
<1>5. CASE Revoke(c)
  <2>1. /\ \A u \in Tasks \ {c} : call'[u] = call[u]
        /\ call'[c].op = "revoke"
        /\ UNCHANGED <<device, pair>> \/ \E d \in Devices : RevokeRows(d)
    BY <1>1, <1>5, RevokeAnswer
  <2>2. \A m \in Pairs : pair'[m].dev = pair[m].dev
    BY <1>1, <2>1, RevokeCall
  <2>3. Known' = Known /\ (\A d : Of(d)' = Of(d)) /\ ~Issued(c)'
    BY <2>1, <2>2 DEF Known, Of, Issued
  <2>4. Owns(c)'
    BY <1>1, <2>1, <2>3 DEF Owns
  <2>5. \A u \in Tasks \ {c} : Owns(u)'
    BY <1>1, <2>1, OwnsStays DEF OwnedInv
  <2>6. \A m \in Pairs : pair'[m].dev # NoDevice => pair'[m].dev \in Seen'
    BY <1>1, <2>2 DEF OwnedInv
  <2>7. QED
    BY <1>2, <2>4, <2>5, <2>6 DEF OwnedInv
<1>6. QED
  BY <1>3, <1>4, <1>5 DEF Handle

LEMMA WorldOwned ==
  ASSUME BaseInv, OwnedInv, SessionAges \/ Crash \/ RevokedElsewhere \/ Expires \/ UNCHANGED remotevars
  PROVE  OwnedInv'
<1>1. /\ AuthInv /\ RowsGrow /\ Known \subseteq Known' /\ (\A d \in Devices : Of(d) \subseteq Of(d)')
      /\ Seen \subseteq Seen' /\ StoreOwned /\ RestType /\ BrokerTypeOK
  BY BaseFacts, WorldGrows, KnownGrows DEF OwnedInv, RowsGrow
<1>2. UNCHANGED call /\ \A m \in Pairs : pair'[m].dev = pair[m].dev
  <2>1. CASE RevokedElsewhere
    BY <1>1, <2>1, RevokeCall DEF RevokedElsewhere
  <2>2. CASE Expires
    BY <2>2, Expired
  <2>3. CASE SessionAges \/ Crash \/ UNCHANGED remotevars
    BY <2>3 DEF SessionAges, Crash, remotevars, authvars
  <2>4. QED
    BY <2>1, <2>2, <2>3
<1>3. \A m \in Pairs : pair'[m].dev # NoDevice => pair'[m].dev \in Seen'
  BY <1>1, <1>2 DEF OwnedInv
<1>4. CASE Crash
  <2>1. /\ UNCHANGED <<slots, enrolled, pair, device>> /\ session'.pair = 0 /\ staged' = 0
        /\ \A u \in Tasks : task'[u] = NoTask
        /\ muddled => muddled'
    BY <1>4, NoSessionType DEF Crash, Durable, authvars
  <2>2. Known' = Known /\ Seen' = Seen /\ (\A d : Of(d)' = Of(d)) /\ 0 \in Known
    BY <2>1 DEF Known, Seen, Of
  <2>3. StoreOwned'
    BY <1>1, <2>1, <2>2 DEF StoreOwned
  <2>4. \A u \in Tasks : Owns(u)'
    BY <1>2, <2>1, <2>2, NoTaskType DEF Owns, OwnedInv, Holding, Issued
  <2>5. QED
    BY <1>3, <2>3, <2>4 DEF OwnedInv
<1>5. CASE ~Crash
  <2>1. /\ UNCHANGED <<slots, enrolled, staged, task, muddled>> /\ session'.pair = session.pair
    BY <1>1, <1>5, Expired DEF SessionAges, RevokedElsewhere, remotevars, Durable, Ghosts, brokervars, RestType
  <2>2. StoreOwned'
    <3>1. (enrolled # NoDevice => enrolled \in Devices) /\ (staged # 0 /\ ~muddled => enrolled # NoDevice)
      BY <1>1, AuthAssumption DEF RestType, StoreOwned, Of, Known
    <3>2. QED
      BY <1>1, <2>1, <3>1 DEF StoreOwned
  <2>3. \A u \in Tasks : Owns(u)'
    BY <1>1, <1>2, <2>1, OwnsStays DEF OwnedInv
  <2>4. QED
    BY <1>3, <2>2, <2>3 DEF OwnedInv
<1>6. QED
  BY <1>4, <1>5

LEMMA StepOwned == BaseInv /\ SectionInv /\ OwnedInv /\ [BrokerNext]_remotevars => OwnedInv'
  BY OwnOwned, ServeOwned, WorldOwned DEF BrokerNext, ClientNext, Serve

LEMMA InitOwned == BrokerInit => OwnedInv
<1> SUFFICES ASSUME BrokerInit PROVE OwnedInv
  OBVIOUS
<1>1. /\ \A n \in Pairs : pair[n].dev = NoDevice
      /\ \A d \in Devices : slots[d].pending.pair = 0 /\ slots[d].active.pair = 0
      /\ session.pair = 0 /\ 0 \in Known
  BY EmptyType, NoSessionType DEF BrokerInit, NoRows, NoPairRow, Known
<1>2. StoreOwned
  BY <1>1 DEF StoreOwned, BrokerInit
<1>3. \A c \in Tasks : Owns(c)
  BY <1>1, NoTaskType, IdleType DEF Owns, BrokerInit, NoRows, Holding, Issued, Tasks
<1>4. QED
  BY <1>1, <1>2, <1>3 DEF OwnedInv

-----------------------------------------------------------------------------
(* A pair that is on its way to the session is nobody else's. *)

\* Nobody has the access token of pair n yet.
Unused(n) == n # session.pair /\ \A u \in Tasks : n # task[u].sent /\ n # task[u].rejected

\* Each pair that was issued or received is on its way in one place.
OneWay ==
  \A c, u \in Tasks :
    /\ Issued(c) /\ Issued(u) /\ call[c].pair = call[u].pair => c = u
    /\ task[c].pc \in Holding /\ task[u].pc \in Holding /\ task[c].new = task[u].new => c = u
    /\ Issued(c) /\ task[u].pc \in Holding => call[c].pair # task[u].new

UnusedInv ==
  /\ OneWay
  /\ \A c \in Tasks : /\ Issued(c) => Unused(call[c].pair)
                      /\ task[c].pc \in Holding => Unused(task[c].new)

\* Where the session's token comes from.
LEMMA StepSession ==
  ASSUME BaseInv, NEW c \in Tasks, BrokerStep(c)
  PROVE  \/ UNCHANGED session
         \/ session'.pair = 0
         \/ /\ session'.pair = task[c].new /\ task[c].pc \in Holding /\ task'[c].pc \notin Holding
            /\ UNCHANGED call
<1>1. BrokerTypeOK /\ session \in [pair : 0 .. MaxPairs, gen : Nat, old : BOOLEAN]
  BY BaseFacts DEF BrokerTypeOK
<1>2. CASE SetSession(c)
  BY <1>1, <1>2, SetSessionTask, OverTask DEF SetSession, Goes, Holding, authvars
<1>3. CASE Welcome(c)
  BY <1>1, <1>3, OverTask DEF Welcome, Holding, authvars
<1>4. CASE Forget(c)
  BY <1>4, NoSessionType DEF Forget
<1>5. CASE UNCHANGED session
  BY <1>5
<1>6. QED
  <2>1. SetSession(c) \/ Welcome(c) \/ Forget(c) \/ UNCHANGED session
    BY DEF BrokerStep, Begin, GetToken, Send, GetAnswer, LoseAnswer, Discard, TakeLock, Present, Rotated, WritePending,
           WriteActive, ClearPending, BeginLogin, LoggedIn, StoreLogin, Enroll, Erase, Leave, Memory, brokervars
  <2>2. QED
    BY <1>2, <1>3, <1>4, <1>5, <2>1

\* What is on its way after a step of the client was before it.
LEMMA StepWay ==
  ASSUME BaseInv, NEW c \in Tasks, BrokerStep(c)
  PROVE  /\ \A u \in Tasks \ {c} : task'[u] = task[u] /\ call'[u] = call[u] /\ (Issued(u)' <=> Issued(u))
         /\ Issued(c)' => Issued(c) /\ call'[c] = call[c]
         /\ task'[c].pc \in Holding =>
              \/ task[c].pc \in Holding /\ task'[c].new = task[c].new
              \/ Issued(c) /\ ~Issued(c)' /\ task'[c].new = call[c].pair
<1>1. \A u \in Tasks \ {c} : task'[u] = task[u] /\ call'[u] = call[u]
  BY StepTask, StepCall DEF Moved
<1>2. Issued(c)' => Issued(c) /\ call'[c] = call[c]
  BY StepCall, IdleType DEF Issued
<1>3. call'[c] = Idle => ~Issued(c)'
  BY IdleType DEF Issued
<1>4. QED
  BY <1>1, <1>2, <1>3, StepTask DEF Issued

LEMMA OwnOneWay ==
  ASSUME BaseInv, OneWay, NEW c \in Tasks, BrokerStep(c)
  PROVE  OneWay'
<1> SUFFICES ASSUME NEW x \in Tasks, NEW y \in Tasks
             PROVE  /\ Issued(x)' /\ Issued(y)' /\ call'[x].pair = call'[y].pair => x = y
                    /\ task'[x].pc \in Holding /\ task'[y].pc \in Holding /\ task'[x].new = task'[y].new => x = y
                    /\ Issued(x)' /\ task'[y].pc \in Holding => call'[x].pair # task'[y].new
  BY DEF OneWay
<1>1. \A u \in Tasks : Issued(u)' => Issued(u) /\ call'[u] = call[u]
  BY StepWay
<1>2. \A u \in Tasks : task'[u].pc \in Holding =>
         \/ task[u].pc \in Holding /\ task'[u].new = task[u].new
         \/ u = c /\ Issued(u) /\ ~Issued(u)' /\ task'[u].new = call[u].pair
  BY StepWay
<1>3. Issued(x)' /\ Issued(y)' /\ call'[x].pair = call'[y].pair => x = y
  BY <1>1 DEF OneWay
<1>4. task'[x].pc \in Holding /\ task'[y].pc \in Holding /\ task'[x].new = task'[y].new => x = y
  BY <1>2 DEF OneWay
<1>5. Issued(x)' /\ task'[y].pc \in Holding => call'[x].pair # task'[y].new
  <2>1. CASE task[y].pc \in Holding /\ task'[y].new = task[y].new
    BY <1>1, <2>1 DEF OneWay
  <2>2. CASE y = c /\ Issued(y) /\ ~Issued(y)' /\ task'[y].new = call[y].pair
    BY <1>1, <2>2 DEF OneWay
  <2>3. QED
    BY <1>2, <2>1, <2>2
<1>6. QED
  BY <1>3, <1>4, <1>5

LEMMA OwnUnused ==
  ASSUME BaseInv, OwnedInv, UnusedInv, NEW c \in Tasks, BrokerStep(c)
  PROVE  UnusedInv'
<1>1. OneWay'
  BY OwnOneWay DEF UnusedInv
<1>2. \A n, d : d \in Devices /\ n \in Of(d) => n # 0
  BY AuthAssumption DEF Of, Pairs
<1>3. \A u \in Tasks : /\ Issued(u) => call[u].pair # 0
                       /\ task[u].pc \in Holding => task[u].new # 0
  <2>1. \A u \in Tasks : /\ Issued(u) => call[u].dev \in Devices
                         /\ task[u].pc \in Holding => task[u].dev \in Devices
    BY BaseFacts DEF Where, Holding, InRotation
  <2>2. QED
    BY <1>2, <2>1 DEF OwnedInv, Owns
\* n is on its way before and after, and is not the one that has just arrived in the session.
<1>4. ASSUME NEW n, n # 0, Unused(n), task[c].pc \in Holding /\ task'[c].pc \notin Holding => n # task[c].new
      PROVE  Unused(n)'
  <2>1. n # session'.pair
    BY <1>4, StepSession DEF Unused
  <2>2. \A u \in Tasks \ {c} : n # task'[u].sent /\ n # task'[u].rejected
    BY <1>4, StepWay DEF Unused
  <2>3. SetSession(c) => task[c].pc \in Holding /\ task'[c].pc \notin Holding
    <3>1. BrokerTypeOK
      BY BaseFacts
    <3>2. QED
      BY <3>1, SetSessionTask, OverTask DEF SetSession, Goes, Holding
  <2>4. n # task'[c].sent /\ n # task'[c].rejected
    BY <1>4, <2>3, StepTask DEF Unused
  <2>5. QED
    BY <2>1, <2>2, <2>4 DEF Unused
<1>5. ASSUME NEW u \in Tasks, Issued(u)' PROVE Unused(call[u].pair)'
  <2>1. Issued(u) /\ call'[u] = call[u]
    BY <1>5, StepWay
  <2>2. /\ call[u].pair # 0 /\ Unused(call[u].pair)
        /\ task[c].pc \in Holding => call[u].pair # task[c].new
    BY <1>3, <2>1 DEF UnusedInv, OneWay
  <2>a. PICK n : n = call[u].pair
    OBVIOUS
  <2>3. Unused(n)'
    BY <1>4, <2>2, <2>a
  <2>4. QED
    BY <2>1, <2>a, <2>3 DEF Unused
<1>6. ASSUME NEW u \in Tasks, task'[u].pc \in Holding PROVE Unused(task[u].new)'
  <2>a. PICK n : n = task'[u].new
    OBVIOUS
  <2>1. /\ n # 0 /\ Unused(n)
        /\ task[c].pc \in Holding /\ task'[c].pc \notin Holding => n # task[c].new
    <3>1. CASE task[u].pc \in Holding /\ n = task[u].new
      BY <1>3, <1>6, <3>1 DEF UnusedInv, OneWay
    <3>2. CASE Issued(u) /\ n = call[u].pair
      BY <1>3, <3>2 DEF UnusedInv, OneWay
    <3>3. QED
      BY <1>6, <2>a, <3>1, <3>2, StepWay
  <2>2. Unused(n)'
    BY <1>4, <2>1
  <2>3. QED
    BY <2>a, <2>2 DEF Unused
<1>7. QED
  BY <1>1, <1>5, <1>6 DEF UnusedInv

\* The server issues pairs nobody has.
LEMMA ServeUnused ==
  ASSUME BaseInv, OwnedInv, UnusedInv, NEW c \in Tasks, Handle(c), UNCHANGED brokervars
  PROVE  UnusedInv'
<1>1. /\ AuthInv /\ UNCHANGED <<session, task>>
      /\ \A u \in Tasks : Where(u) /\ Owns(u)
  BY BaseFacts DEF brokervars, OwnedInv
<1>2. \A n : Unused(n)' <=> Unused(n)
  BY <1>1 DEF Unused
<1>3. ASSUME \A u \in Tasks : Issued(u)' => Issued(u) /\ call'[u] = call[u] PROVE UnusedInv'
  <2>1. OneWay'
    BY <1>1, <1>3 DEF UnusedInv, OneWay
  <2>2. ASSUME NEW u \in Tasks
        PROVE  /\ Issued(u)' => Unused(call[u].pair)'
               /\ task'[u].pc \in Holding => Unused(task[u].new)'
    BY <1>1, <1>3 DEF UnusedInv, Unused
  <2>3. QED
    BY <2>1, <2>2 DEF UnusedInv
<1>4. CASE \/ BootstrapCheck(c) \/ BootstrapInsert(c) \/ LoginRead(c) \/ RefreshRead(c) \/ Authenticate(c)
           \/ RefreshConsume(c) /\ pair[call[c].pair].refresh # "live"
  <2>1. /\ \A u \in Tasks \ {c} : call'[u] = call[u]
        /\ call'[c].op = call[c].op
        /\ call[c].op \in {"login", "refresh"} => call'[c].answer # "ok"
    BY <1>1, <1>4, ReadCall
  <2>2. QED
    BY <1>3, <2>1 DEF Issued
<1>5. CASE Revoke(c)
  <2>1. (\A u \in Tasks \ {c} : call'[u] = call[u]) /\ call'[c].op = "revoke"
    BY <1>1, <1>5, RevokeAnswer
  <2>2. QED
    BY <1>3, <2>1 DEF Issued
<1>6. CASE LoginIssue(c) \/ (RefreshConsume(c) /\ pair[call[c].pair].refresh = "live")
  <2>1. PICK n \in Pairs :
           /\ pair[n].dev = NoDevice /\ call'[c].pair = n /\ call[c].step = "write"
           /\ \A u \in Tasks \ {c} : call'[u] = call[u]
    BY <1>1, <1>6, IssueCall
  <2>2. n \notin Known /\ \A d \in Devices : n \notin Of(d)
    BY <2>1, AuthAssumption DEF Known, Of, Pairs
  <2>3. ~Issued(c) /\ \A u \in Tasks \ {c} : Issued(u)' <=> Issued(u)
    BY <1>1, <2>1 DEF Issued, Where
  <2>4. \A u \in Tasks : /\ Issued(u) => call[u].pair # n
                         /\ task[u].pc \in Holding => task[u].new # n
    BY <1>1, <2>2 DEF Owns, Where, Holding, InRotation
  <2>5. Unused(n)
    BY <1>1, <2>2 DEF Unused, Owns, OwnedInv, StoreOwned
  <2>6. OneWay'
    BY <1>1, <2>1, <2>3, <2>4 DEF UnusedInv, OneWay
  <2>7. ASSUME NEW u \in Tasks
        PROVE  /\ Issued(u)' => Unused(call[u].pair)'
               /\ task'[u].pc \in Holding => Unused(task[u].new)'
    <3>1. task[u].pc \in Holding => Unused(task[u].new)
      BY DEF UnusedInv
    <3>2. Issued(u)' => \E m : m = call'[u].pair /\ Unused(m)
      BY <2>1, <2>3, <2>5 DEF UnusedInv
    <3>3. QED
      BY <1>1, <3>1, <3>2 DEF Unused
  <2>8. QED
    BY <2>6, <2>7 DEF UnusedInv
<1>7. QED
  BY <1>4, <1>5, <1>6 DEF Handle

LEMMA WorldUnused ==
  ASSUME BaseInv, OwnedInv, UnusedInv, SessionAges \/ Crash \/ RevokedElsewhere \/ Expires \/ UNCHANGED remotevars
  PROVE  UnusedInv'
<1>1. /\ UNCHANGED call /\ session'.pair \in {session.pair, 0}
      /\ \A u \in Tasks : task'[u] = task[u] \/ task'[u] = NoTask
      /\ session \in [pair : 0 .. MaxPairs, gen : Nat, old : BOOLEAN]
  <2>1. session \in [pair : 0 .. MaxPairs, gen : Nat, old : BOOLEAN] /\ BrokerTypeOK
    BY BaseFacts DEF RestType
  <2>2. CASE SessionAges
    BY <2>1, <2>2 DEF SessionAges, authvars
  <2>3. CASE Crash
    BY <2>1, <2>3, NoSessionType DEF Crash, authvars
  <2>4. CASE RevokedElsewhere \/ UNCHANGED remotevars
    BY <2>1, <2>4 DEF RevokedElsewhere, remotevars, authvars, brokervars
  <2>5. CASE Expires
    BY <2>1, <2>5, Expired DEF brokervars
  <2>6. QED
    BY <2>2, <2>3, <2>4, <2>5
<1>2. /\ \A u \in Tasks : Issued(u)' <=> Issued(u)
      /\ \A u \in Tasks : task'[u].pc \in Holding => task'[u] = task[u]
  BY <1>1, NoTaskType DEF Issued, Holding
<1>3. \A u \in Tasks : /\ Issued(u) => call[u].pair # 0
                       /\ task[u].pc \in Holding => task[u].new # 0
  <2>1. \A u \in Tasks : /\ Issued(u) => call[u].dev \in Devices
                         /\ task[u].pc \in Holding => task[u].dev \in Devices
    BY BaseFacts DEF Where, Holding, InRotation
  <2>2. QED
    BY <2>1, AuthAssumption DEF OwnedInv, Owns, Of, Pairs
<1>4. \A n : n # 0 /\ Unused(n) => Unused(n)'
  BY <1>1, NoTaskType DEF Unused
<1>5. OneWay'
  BY <1>1, <1>2 DEF UnusedInv, OneWay
<1>6. ASSUME NEW u \in Tasks
      PROVE  /\ Issued(u)' => Unused(call[u].pair)'
             /\ task'[u].pc \in Holding => Unused(task[u].new)'
  <2>1. Issued(u)' => \E n : n = call'[u].pair /\ Unused(n)'
    BY <1>1, <1>2, <1>3, <1>4 DEF UnusedInv
  <2>2. task'[u].pc \in Holding => \E n : n = task'[u].new /\ Unused(n)'
    BY <1>2, <1>3, <1>4 DEF UnusedInv
  <2>3. QED
    BY <2>1, <2>2 DEF Unused
<1>7. QED
  BY <1>5, <1>6 DEF UnusedInv

LEMMA StepUnused == BaseInv /\ OwnedInv /\ UnusedInv /\ [BrokerNext]_remotevars => UnusedInv'
  BY OwnUnused, ServeUnused, WorldUnused DEF BrokerNext, ClientNext, Serve

LEMMA InitUnused == BrokerInit => UnusedInv
  BY NoTaskType, IdleType DEF BrokerInit, NoRows, UnusedInv, OneWay, Issued, Holding, Tasks

-----------------------------------------------------------------------------
(* A retry does not send the token that was rejected. *)

\* A token that is sent is not the rejected one, which the session no longer holds once the
\* task has seen a newer one; and if it still holds what was sent, it is of that generation.
Retry(c) ==
  LET t == task[c] IN
  /\ t.pc \in {"snapshot", "sent"} => t.sent # 0 /\ t.sent # t.rejected
  /\ t.pc = "token" \/ (t.pc = "lock" /\ ~Retrying(c)) => t.rejected = 0 \/ session.pair # t.rejected
  /\ t.pc = "sent" \/ (t.pc = "lock" /\ Retrying(c)) => t.sent # 0 /\ (session.pair = t.sent => session.gen <= t.gen)

RetryInv == \A c \in Tasks : Retry(c)

\* The session changes under a task that stands still.
LEMMA RetryStays ==
  ASSUME NEW u \in Tasks, Retry(u), task'[u] = task[u],
         \/ session'.pair = session.pair /\ session'.gen = session.gen
         \/ session'.pair = 0
         \/ session'.pair # task[u].sent /\ session'.pair # task[u].rejected
  PROVE  Retry(u)'
  BY DEF Retry, Retrying

LEMMA OwnRetry ==
  ASSUME BaseInv, OwnedInv, UnusedInv, RetryInv, NEW c \in Tasks, BrokerStep(c)
  PROVE  RetryInv'
<1>1. /\ BrokerTypeOK /\ task[c] \in Task /\ Retry(c) /\ session \in [pair : 0 .. MaxPairs, gen : Nat, old : BOOLEAN]
      /\ Where(c)
  BY BaseFacts DEF RetryInv, RestType
<1>2. ASSUME NEW u \in Tasks \ {c} PROVE Retry(u)'
  <2>1. task'[u] = task[u] /\ Retry(u)
    BY <1>2, StepWay DEF RetryInv
  <2>2. task[c].pc \in Holding => task[c].new # task[u].sent /\ task[c].new # task[u].rejected
    BY DEF UnusedInv, Unused
  <2>3. QED
    BY <2>1, <2>2, StepSession, RetryStays
<1>3. Retry(c)'
  <2>1. CASE Over(c)
    BY <1>1, <2>1, OverTask DEF Retry
  <2>2. CASE Begin(c) \/ BeginLogin(c)
    BY <1>1, <2>2, BeginTask, LoginTask DEF Retry
  <2>3. CASE GetToken(c)
    <3>1. task[c].pc = "token" /\ UNCHANGED session
      BY <2>3 DEF GetToken, Memory
    <3>2. QED
      BY <1>1, <2>3, <3>1, GetTokenTask DEF Goes, Retry, Retrying
  <2>4. CASE Send(c) /\ ~Over(c)
    <3>1. /\ task[c].pc = "snapshot" /\ UNCHANGED session
          /\ Goes(c, "sent", task[c].sent, session.gen, task[c].rejected, task[c].new)
      BY <1>1, <2>4, SendTask DEF Send, Memory
    <3>2. QED
      BY <1>1, <3>1 DEF Goes, Retry
  <2>5. CASE GetAnswer(c) /\ ~Over(c)
    <3>1. /\ task[c].pc = "sent" /\ UNCHANGED session
          /\ Goes(c, "lock", task[c].sent, task[c].gen, task[c].sent, task[c].new)
      BY <1>1, <2>5, GetAnswerTask DEF GetAnswer, Memory
    <3>2. QED
      BY <1>1, <3>1 DEF Goes, Retry, Retrying
  <2>6. CASE TakeLock(c)
    <3>1. task[c].pc = "lock" /\ UNCHANGED session
      BY <2>6 DEF TakeLock, Memory
    <3>2. CASE /\ Retrying(c) /\ session.gen > task[c].gen
               /\ Goes(c, "token", task[c].sent, 0, task[c].rejected, task[c].new)
      <4>1. session.pair # task[c].sent
        BY <1>1, <3>1, <3>2 DEF Retry, Task
      <4>2. QED
        BY <3>1, <3>2, <4>1 DEF Goes, Retry, Retrying
    <3>3. CASE /\ ~Retrying(c) /\ session.pair # 0
               /\ Goes(c, "snapshot", session.pair, task[c].gen, task[c].rejected, task[c].new)
      BY <1>1, <3>1, <3>3 DEF Goes, Retry
    <3>4. CASE GoesOn(c, "present")
      BY <3>4 DEF GoesOn, Goes, Retry
    <3>5. QED
      BY <1>1, <2>6, <3>2, <3>3, <3>4, TakeLockTask
  <2>7. CASE SetSession(c) /\ ~Over(c)
    <3>1. /\ session'.pair = task[c].new /\ task[c].pc = "session"
          /\ Unused(task[c].new)
      BY <2>7 DEF SetSession, UnusedInv, Holding
    <3>2. task[c].new # 0
      BY <1>1, <3>1, AuthAssumption DEF OwnedInv, Owns, Holding, Of, Pairs
    <3>3. PICK p \in {"token", "snapshot"} : Goes(c, p, task[c].new, 0, task[c].rejected, 0)
      BY <1>1, <2>7, SetSessionTask
    <3>4. QED
      BY <3>1, <3>2, <3>3 DEF Goes, Retry, Unused
  <2>8. CASE Discard(c)
    BY <1>1, <2>8, RetryStays DEF Discard, brokervars
  <2>9. CASE Leave(c)
    BY <1>1, <2>9, SetTask, NoTaskType DEF Leave, Retry
  <2>10. CASE task'[c].pc \notin {"token", "snapshot", "sent", "lock"}
    BY <2>10 DEF Retry
  <2>11. QED
    <3>1. CASE \/ To(c, "rotating") \/ To(c, "clear") \/ To(c, "session") \/ To(c, "enroll") \/ To(c, "welcome")
               \/ To(c, "forget") \/ To(c, "leave")
      <4>1. \E p \in {"rotating", "clear", "session", "enroll", "welcome", "forget", "leave"} : GoesOn(c, p)
        BY <1>1, <3>1, GoesOnTask DEF Places, InRotation, InLogin, InLogout
      <4>2. QED
        BY <2>10, <4>1 DEF GoesOn, Goes
    <3>2. CASE Rotated(c) \/ LoggedIn(c) \/ WritePending(c)
      BY <1>1, <2>1, <2>10, <3>2, RotatedTask, LoggedInTask, PendingTask DEF Goes
    <3>3. CASE LoseAnswer(c) \/ Present(c) \/ WriteActive(c) \/ ClearPending(c) \/ StoreLogin(c) \/ Enroll(c)
               \/ Welcome(c) \/ Erase(c) \/ Forget(c)
      BY <2>1, <3>1, <3>3 DEF LoseAnswer, Present, WriteActive, ClearPending, StoreLogin, Enroll, Welcome, Erase, Forget
    <3>4. QED
      BY <2>1, <2>2, <2>3, <2>4, <2>5, <2>6, <2>7, <2>8, <2>9, <3>2, <3>3 DEF BrokerStep
<1>4. QED
  BY <1>2, <1>3 DEF RetryInv

LEMMA WorldRetry ==
  ASSUME BaseInv, RetryInv,
         SessionAges \/ Crash \/ Serve \/ RevokedElsewhere \/ Expires \/ UNCHANGED remotevars
  PROVE  RetryInv'
<1>1. CASE Crash
  BY <1>1, NoTaskType DEF Crash, RetryInv, Retry
<1>2. CASE ~Crash
  <2>1. UNCHANGED task /\ session'.pair = session.pair /\ session'.gen = session.gen
    <3>1. session \in [pair : 0 .. MaxPairs, gen : Nat, old : BOOLEAN]
      BY BaseFacts DEF RestType
    <3>2. CASE SessionAges
      BY <3>1, <3>2 DEF SessionAges
    <3>3. CASE Serve \/ RevokedElsewhere \/ Expires \/ UNCHANGED remotevars
      BY <3>3 DEF Serve, RevokedElsewhere, Expires, remotevars, brokervars
    <3>4. QED
      BY <1>2, <3>2, <3>3
  <2>2. QED
    BY <2>1, RetryStays DEF RetryInv
<1>3. QED
  BY <1>1, <1>2

LEMMA StepRetry == BaseInv /\ OwnedInv /\ UnusedInv /\ RetryInv /\ [BrokerNext]_remotevars => RetryInv'
  BY OwnRetry, WorldRetry DEF BrokerNext, ClientNext

LEMMA InitRetry == BrokerInit => RetryInv
  BY NoTaskType DEF BrokerInit, RetryInv, Retry

LEMMA RetryInvariant == BrokerSpec => [](BaseInv /\ SectionInv /\ OwnedInv /\ UnusedInv /\ RetryInv)
<1>1. BrokerInit => BaseInv /\ SectionInv /\ OwnedInv /\ UnusedInv /\ RetryInv
  BY InitBase, InitSection, InitOwned, InitUnused, InitRetry
<1>2. BaseInv /\ SectionInv /\ OwnedInv /\ UnusedInv /\ RetryInv /\ [BrokerNext]_remotevars
        => (BaseInv /\ SectionInv /\ OwnedInv /\ UnusedInv /\ RetryInv)'
  BY StepBase, StepSection, StepOwned, StepUnused, StepRetry
<1>3. QED
  BY <1>1, <1>2, PTL DEF BrokerSpec

\* A retry never sends the token that was rejected, however many tasks rotate,
\* log in or log out meanwhile and wherever the generation counter restarts.
THEOREM RetrySendsAnother == BrokerSpec => []RejectedNotResent
<1>1. RetryInv => RejectedNotResent
  BY DEF RetryInv, Retry, RejectedNotResent
<1>2. QED
  BY <1>1, RetryInvariant, PTL

-----------------------------------------------------------------------------
(* A login is reported as expired only when the server refuses it. *)

Refused(n) == n = 0 \/ pair[n].refresh # "live" \/ enrolled \in Gone

\* What is presented stays what is stored until the answer is heard, so an answer that
\* refuses it is about what is stored.
DeniedInv ==
  /\ \A c \in Tasks : task[c].pc \in {"pending", "active", "clear", "session"} => ~denied
  /\ ~muddled =>
       /\ \A c \in Tasks : task[c].pc = "rotating" =>
            /\ call[c].answer # "ok" => call[c].pair = Effective(enrolled)
            /\ call[c].answer = "401" => Refused(Effective(enrolled))
       /\ denied /\ enrolled # NoDevice => \/ Refused(Effective(enrolled))
                                           \/ \E c \in Tasks : task[c].pc \in {"enroll", "welcome"}

LEMMA EffectiveOwned ==
  ASSUME OwnedInv, enrolled \in Devices, ~muddled
  PROVE  Effective(enrolled) \in Of(enrolled) \cup {0}
  BY DEF OwnedInv, StoreOwned, Effective

LEMMA SameEffective ==
  ASSUME UNCHANGED <<slots, staged, enrolled>>
  PROVE  Effective(enrolled)' = Effective(enrolled)
  BY DEF Effective

LEMMA RefusedStays ==
  ASSUME RowsGrow, UNCHANGED enrolled, NEW n \in Known, Refused(n)
  PROVE  Refused(n)'
  BY DEF RowsGrow, Refused, Known

\* A step that leaves the store, and whether the login is denied.
LEMMA QuietDenied ==
  ASSUME BaseInv, SectionInv, OwnedInv, DeniedInv, RowsGrow, UNCHANGED <<slots, staged, enrolled, denied>>,
         muddled => muddled',
         \A u \in Tasks : task'[u].pc \in {"pending", "active", "clear", "session"}
                            => task[u].pc \in {"pending", "active", "clear", "session"},
         \A u \in Tasks : task[u].pc \in {"enroll", "welcome"} => task'[u].pc \in {"enroll", "welcome"},
         ~muddled' => \A u \in Tasks : task'[u].pc = "rotating" =>
             \/ /\ task[u].pc = "rotating"
                /\ call'[u].pair = call[u].pair \/ call'[u].answer = "ok"
                /\ call[u].answer = "ok" => call'[u].answer = "ok"
                /\ call'[u].answer = "401" => call[u].answer = "401" \/ Refused(Effective(enrolled))
             \/ /\ call'[u].answer = "none" /\ call'[u].pair = Effective(enrolled)
  PROVE  DeniedInv'
<1>1. \A u \in Tasks : task'[u].pc \in {"pending", "active", "clear", "session"} => ~denied'
  BY DEF DeniedInv
<1>2. ASSUME ~muddled'
      PROVE  /\ \A c \in Tasks : task'[c].pc = "rotating" =>
                  /\ call'[c].answer # "ok" => call'[c].pair = Effective(enrolled)'
                  /\ call'[c].answer = "401" => Refused(Effective(enrolled))'
             /\ denied' /\ enrolled' # NoDevice => \/ Refused(Effective(enrolled))'
                                                   \/ \E c \in Tasks : task'[c].pc \in {"enroll", "welcome"}
  <2>1. PICK n : n = Effective(enrolled)
    OBVIOUS
  <2>2. Effective(enrolled)' = n
    BY <2>1, SameEffective
  <2>3. enrolled # NoDevice /\ Refused(n) => Refused(n)'
    <3>1. enrolled # NoDevice => enrolled \in Devices
      BY BaseFacts DEF RestType
    <3>2. enrolled # NoDevice => n \in Known
      BY <1>2, <2>1, <3>1, EffectiveOwned DEF Of, Known
    <3>3. QED
      BY <3>2, RefusedStays
  <2>4. Refused(Effective(enrolled))' <=> Refused(n)'
    BY <2>2 DEF Refused
  <2>5. \A c \in Tasks : task[c].pc = "rotating" => enrolled # NoDevice
    <3>1. ~muddled
      BY <1>2
    <3>2. \A c \in Tasks : task[c].pc = "rotating" => task[c].dev = enrolled /\ task[c].dev \in Devices
      BY <3>1, BaseFacts DEF SectionInv, Stage, Where, InRotation
    <3>3. QED
      BY <3>2, AuthAssumption
  <2>6. ASSUME NEW c \in Tasks, task'[c].pc = "rotating"
        PROVE  /\ call'[c].answer # "ok" => call'[c].pair = n
               /\ call'[c].answer = "401" => Refused(n)'
    BY <1>2, <2>1, <2>3, <2>5, <2>6 DEF DeniedInv
  <2>7. denied' /\ enrolled' # NoDevice => \/ Refused(n)'
                                           \/ \E c \in Tasks : task'[c].pc \in {"enroll", "welcome"}
    BY <1>2, <2>1, <2>3 DEF DeniedInv
  <2>8. QED
    BY <2>2, <2>4, <2>6, <2>7
<1>3. QED
  BY <1>1, <1>2 DEF DeniedInv

LEMMA RequestDenied ==
  ASSUME BaseInv, SectionInv, OwnedInv, DeniedInv, NEW c \in Tasks,
         \/ Begin(c) \/ GetToken(c) \/ Send(c) \/ GetAnswer(c) \/ LoseAnswer(c) \/ Discard(c) \/ TakeLock(c)
         \/ Present(c) \/ BeginLogin(c) \/ LoggedIn(c) \/ SetSession(c) \/ (StoreLogin(c) /\ Over(c))
  PROVE  DeniedInv'
<1>1. BrokerTypeOK /\ RowsGrow /\ BrokerStep(c) /\ Where(c)
  <2>1. BrokerStep(c)
    BY DEF BrokerStep
  <2>2. QED
    BY <2>1, BaseFacts, ClientRows, SameRows
<1>2. UNCHANGED <<slots, staged, enrolled, denied>> /\ (muddled => muddled')
  <2>1. CASE Begin(c) \/ GetToken(c) \/ Send(c) \/ GetAnswer(c) \/ LoseAnswer(c) \/ BeginLogin(c) \/ LoggedIn(c) \/ SetSession(c)
    <3>1. CASE Begin(c) \/ GetToken(c)
      BY <3>1 DEF Begin, GetToken, Durable, Memory, Ghosts
    <3>2. CASE Send(c)
      BY <3>2 DEF Send, Durable, Memory, Ghosts
    <3>3. CASE GetAnswer(c)
      BY <3>3 DEF GetAnswer, Durable, Memory, Ghosts
    <3>4. CASE LoseAnswer(c) \/ BeginLogin(c)
      BY <3>4 DEF LoseAnswer, BeginLogin, Durable, Memory, Ghosts
    <3>5. CASE LoggedIn(c)
      BY <3>5 DEF LoggedIn, Durable, Memory, Ghosts
    <3>6. CASE SetSession(c)
      BY <3>6 DEF SetSession, Durable, Memory, Ghosts
    <3>7. QED
      BY <2>1, <3>1, <3>2, <3>3, <3>4, <3>5, <3>6
  <2>2. CASE Discard(c)
    BY <2>2 DEF Discard, brokervars
  <2>3. CASE TakeLock(c)
    BY <2>3 DEF TakeLock, Rotates, Durable, Memory
  <2>4. CASE Present(c)
    <3>1. UNCHANGED <<slots, staged, enrolled, denied>>
      BY <2>4 DEF Present, Durable, Memory
    <3>2. muddled => muddled'
      BY <2>4 DEF Present
    <3>3. QED
      BY <3>1, <3>2
  <2>5. CASE StoreLogin(c) /\ Over(c)
    <3>1. ~To(c, "enroll")
      BY <1>1, <2>5, OverTask, GoesOnTask DEF Places, InLogin, GoesOn, Goes
    <3>2. QED
      BY <2>5, <3>1 DEF StoreLogin, Memory
  <2>6. QED
    BY <2>1, <2>2, <2>3, <2>4, <2>5
<1>3. \A u \in Tasks \ {c} : task'[u] = task[u] /\ call'[u] = call[u]
  BY <1>1, StepWay
<1>4. \/ UNCHANGED task /\ Discard(c)
      \/ /\ task[c].pc \notin {"enroll", "welcome"}
         /\ task'[c].pc \notin {"pending", "active", "clear", "session", "rotating"}
      \/ Present(c) /\ GoesOn(c, "rotating") /\ ~Over(c)
  <2>1. CASE Discard(c)
    BY <2>1 DEF Discard, brokervars
  <2>2. CASE Over(c) /\ ~Discard(c)
    <3>1. task[c].pc \notin {"enroll", "welcome"}
      BY <2>2 DEF Begin, GetToken, Send, GetAnswer, LoseAnswer, TakeLock, Present, BeginLogin, LoggedIn, SetSession,
                  StoreLogin
    <3>2. QED
      BY <1>1, <2>2, <3>1, OverTask
  <2>3. CASE Begin(c) \/ BeginLogin(c)
    BY <1>1, <2>3, BeginTask, LoginTask DEF Begin, BeginLogin
  <2>4. CASE (GetToken(c) \/ Send(c) \/ GetAnswer(c)) /\ ~Over(c)
    <3>1. CASE GetToken(c)
      BY <1>1, <3>1, GetTokenTask DEF GetToken, Goes
    <3>2. CASE Send(c)
      BY <1>1, <2>4, <3>2, SendTask DEF Send, Goes
    <3>3. CASE GetAnswer(c)
      BY <1>1, <2>4, <3>3, GetAnswerTask DEF GetAnswer, Goes
    <3>4. QED
      BY <2>4, <3>1, <3>2, <3>3
  <2>5. CASE TakeLock(c)
    BY <1>1, <2>5, TakeLockTask DEF TakeLock, Goes, GoesOn
  <2>6. CASE Present(c) /\ ~Over(c)
    BY <1>1, <2>6, GoesOnTask DEF Present, Places, InRotation
  <2>7. CASE LoggedIn(c) /\ ~Over(c)
    BY <1>1, <2>7, LoggedInTask DEF LoggedIn
  <2>8. CASE SetSession(c) /\ ~Over(c)
    BY <1>1, <2>8, SetSessionTask DEF SetSession, Goes
  <2>9. QED
    BY <2>1, <2>2, <2>3, <2>4, <2>5, <2>6, <2>7, <2>8 DEF LoseAnswer
<1>5. ASSUME ~muddled', task'[c].pc = "rotating"
      PROVE  \/ task[c].pc = "rotating" /\ call'[c].pair = call[c].pair /\ call'[c].answer = call[c].answer
             \/ call'[c].answer = "none" /\ call'[c].pair = Effective(enrolled)
  <2>1. CASE UNCHANGED task /\ Discard(c)
    BY <1>5, <2>1 DEF Discard
  <2>2. CASE Present(c) /\ GoesOn(c, "rotating") /\ ~Over(c)
    <3>1. task[c].dev = enrolled /\ Ask(c, "refresh", Idle.name, task[c].dev, Effective(task[c].dev))
      BY <1>2, <1>5, <2>2 DEF Present
    <3>2. call'[c].answer = "none" /\ call'[c].pair = Effective(task[c].dev)
      BY <3>1, BaseFacts DEF Ask, AuthTypeOK, Tasks
    <3>3. QED
      BY <3>1, <3>2
  <2>3. QED
    BY <1>4, <1>5, <2>1, <2>2
<1>6. \A u \in Tasks : task[u].pc \in {"enroll", "welcome"} => task'[u].pc \in {"enroll", "welcome"}
  BY <1>3, <1>4 DEF Present
<1>7. \A u \in Tasks : task'[u].pc \in {"pending", "active", "clear", "session"}
                         => task[u].pc \in {"pending", "active", "clear", "session"}
  BY <1>3, <1>4 DEF GoesOn, Goes
<1>8. QED
  BY <1>1, <1>2, <1>3, <1>5, <1>6, <1>7, QuietDenied

\* The answer of a rotation, and its writes: nobody else rotates.
LEMMA RotationDenied ==
  ASSUME BaseInv, SectionInv, OwnedInv, DeniedInv, NEW c \in Tasks,
         Rotated(c) \/ WritePending(c) \/ WriteActive(c) \/ ClearPending(c)
  PROVE  DeniedInv'
<1>1. BrokerTypeOK /\ RowsGrow /\ BrokerStep(c) /\ task[c].pc \in InRotation /\ task[c].pc # "present"
  <2>1. BrokerStep(c)
    BY DEF BrokerStep
  <2>2. QED
    BY <2>1, BaseFacts, ClientRows, SameRows DEF Rotated, WritePending, WriteActive, ClearPending, InRotation
<1>2. \A u \in Tasks \ {c} : task'[u] = task[u] /\ task'[u].pc \notin InRotation
  BY <1>1, StepWay DEF SectionInv, OneRotation
<1>3. CASE WritePending(c) \/ WriteActive(c) \/ ClearPending(c)
  <2>1. task[c].pc \in {"pending", "active", "clear"} /\ UNCHANGED denied
    BY <1>3 DEF WritePending, WriteActive, ClearPending, Memory
  <2>2. ~denied'
    BY <2>1 DEF DeniedInv
  <2>3. task'[c].pc # "rotating"
    <3>1. CASE WritePending(c)
      BY <3>1, PendingTask DEF Goes
    <3>2. CASE WriteActive(c) \/ ClearPending(c)
      <4>1. GoesOn(c, "clear") \/ GoesOn(c, "session")
        BY <1>1, <3>2, GoesOnTask DEF WriteActive, ClearPending, Places, InRotation
      <4>2. QED
        BY <4>1 DEF GoesOn, Goes
    <3>3. QED
      BY <1>3, <3>1, <3>2
  <2>4. QED
    BY <1>2, <2>2, <2>3 DEF DeniedInv, InRotation
<1>4. CASE Rotated(c)
  <2>1. /\ denied' = (call[c].answer = "401") /\ UNCHANGED <<slots, staged, enrolled, muddled>> /\ task[c].pc = "rotating"
    BY <1>4 DEF Rotated, Durable, Ghosts
  <2>2. \/ call[c].answer = "ok" /\ task'[c].pc = "pending"
        \/ call[c].answer # "ok" /\ task'[c].pc \in {"idle", "erase"}
    BY <1>1, <1>4, RotatedTask, OverTask DEF Goes
  <2>3. \A u \in Tasks : task'[u].pc # "rotating"
    BY <1>2, <2>2 DEF InRotation
  <2>4. \A u \in Tasks : task'[u].pc \in {"pending", "active", "clear", "session"} => ~denied'
    BY <1>2, <2>1, <2>2 DEF InRotation
  <2>5. ASSUME ~muddled', denied', enrolled' # NoDevice PROVE Refused(Effective(enrolled))'
    <3>1. PICK n : n = Effective(enrolled)
      OBVIOUS
    <3>2. Refused(n) /\ ~muddled
      BY <2>1, <2>5, <3>1 DEF DeniedInv
    <3>3. enrolled \in Devices
      BY <2>1, <2>5, BaseFacts DEF RestType
    <3>4. n \in Known
      BY <3>1, <3>2, <3>3, EffectiveOwned DEF Of, Known
    <3>5. Effective(enrolled)' = n
      BY <2>1, <3>1, SameEffective
    <3>6. Refused(n)'
      BY <1>1, <2>1, <3>2, <3>4, RefusedStays
    <3>7. QED
      BY <3>5, <3>6 DEF Refused
  <2>6. QED
    BY <2>3, <2>4, <2>5 DEF DeniedInv
<1>5. QED
  BY <1>3, <1>4

\* A login or logout: nobody rotates, and what the store holds is emptied or the login's own.
LEMMA LoginDenied ==
  ASSUME BaseInv, SectionInv, OwnedInv, DeniedInv, NEW c \in Tasks,
         \/ StoreLogin(c) /\ ~Over(c)
         \/ Enroll(c) \/ Welcome(c) \/ Erase(c) \/ Forget(c) \/ Leave(c)
  PROVE  DeniedInv'
<1> DEFINE d == task[c].dev
<1>1. /\ BrokerTypeOK /\ RowsGrow /\ Where(c) /\ d \in Devices /\ StoreOwned /\ d # NoDevice
      /\ slots \in [Devices -> [pending : Slot, active : Slot]] /\ BrokerStep(c) /\ RestType
  <2>1. BrokerStep(c)
    BY DEF BrokerStep
  <2>2. Where(c) /\ BrokerTypeOK /\ RestType
    BY BaseFacts
  <2>3. d \in Devices
    BY <2>2 DEF StoreLogin, Enroll, Welcome, Erase, Forget, Leave, Where, InLogout
  <2>4. QED
    BY <2>1, <2>2, <2>3, ClientRows, SameRows, AuthAssumption DEF BrokerTypeOK, OwnedInv
<1>2. (\A u \in Tasks \ {c} : task'[u] = task[u]) /\ (muddled => muddled')
  <2>1. CASE StoreLogin(c) \/ Erase(c)
    BY <1>1, <2>1, StepWay DEF StoreLogin, Erase
  <2>2. CASE Enroll(c)
    BY <1>1, <2>2, StepWay DEF Enroll
  <2>3. CASE Welcome(c) \/ Forget(c) \/ Leave(c)
    BY <1>1, <2>3, StepWay DEF Welcome, Forget, Leave, Ghosts
  <2>4. QED
    BY <2>1, <2>2, <2>3
<1>3. /\ StoreLogin(c) => task'[c].pc = "enroll"
      /\ Enroll(c) => task'[c].pc \in {"welcome", "idle", "erase"}
      /\ Welcome(c) => task'[c].pc \in {"idle", "erase"}
      /\ Erase(c) => task'[c].pc = "forget"
      /\ Forget(c) => task'[c].pc = "leave"
      /\ Leave(c) => task'[c].pc = "idle"
  <2>1. \A p \in {"enroll", "welcome", "forget", "leave"} : To(c, p) => task'[c].pc = p
    BY <1>1, GoesOnTask DEF Places, InLogin, InLogout, GoesOn, Goes
  <2>2. Over(c) => task'[c].pc \in {"idle", "erase"}
    BY <1>1, OverTask
  <2>3. Leave(c) => task'[c].pc = "idle"
    BY <1>1, SetTask, NoTaskType DEF Leave
  <2>4. StoreLogin(c) => ~Over(c)
    BY DEF StoreLogin, Enroll, Welcome, Erase, Forget, Leave
  <2>5. QED
    BY <2>1, <2>2, <2>3, <2>4 DEF StoreLogin, Enroll, Welcome, Erase, Forget
<1>4. task'[c].pc \notin InRotation
  BY <1>3 DEF InRotation
<1>5. \A u \in Tasks : task'[u].pc \in {"pending", "active", "clear", "session"} => ~denied'
  <2>1. \A u \in Tasks : task'[u].pc \in {"pending", "active", "clear", "session"} => ~denied
    BY <1>2, <1>4 DEF DeniedInv, InRotation
  <2>2. denied' => denied
    BY DEF StoreLogin, Enroll, Welcome, Erase, Forget, Leave, Memory
  <2>3. QED
    BY <2>1, <2>2
<1>6. ASSUME ~muddled'
      PROVE  /\ \A u \in Tasks : task'[u].pc # "rotating"
             /\ \A u \in Tasks \ {c} : task[u].pc \notin {"enroll", "welcome"}
  <2>1. ~muddled
    BY <1>2, <1>6
  <2>2. \A u \in Tasks \ {c} : task[u].pc \notin InRotation \cup Midway
    <3>1. CASE StoreLogin(c) \/ Erase(c)
      BY <1>6, <3>1 DEF StoreLogin, Erase, Beside
    <3>2. CASE Enroll(c) \/ Welcome(c) \/ Forget(c) \/ Leave(c)
      <4>1. task[c].pc \in Midway
        BY <3>2 DEF Enroll, Welcome, Forget, Leave, Midway
      <4>2. QED
        BY <2>1, <4>1 DEF SectionInv, Stage
    <3>3. QED
      BY <3>1, <3>2
  <2>3. QED
    BY <1>2, <1>4, <2>2 DEF InRotation, Midway
<1>7. ASSUME ~muddled', denied', enrolled' # NoDevice
      PROVE  Refused(Effective(enrolled))' \/ \E u \in Tasks : task'[u].pc \in {"enroll", "welcome"}
  <2>1. CASE StoreLogin(c)
    BY <1>3, <2>1
  <2>2. CASE Welcome(c) \/ Forget(c) \/ Leave(c)
    BY <1>7, <2>2 DEF Welcome, Forget, Leave
  <2>3. CASE Enroll(c)
    <3>1. CASE To(c, "welcome")
      <4>1. task'[c].pc = "welcome"
        BY <1>1, <3>1, GoesOnTask DEF Places, InLogin, GoesOn, Goes
      <4>2. QED
        BY <4>1
    <3>2. CASE ~To(c, "welcome")
      <4>1. /\ slots' = [slots EXCEPT ![d] = [pending |-> Empty, active |-> Empty]]
            /\ UNCHANGED <<enrolled, staged>> /\ task[c].pc = "enroll" /\ ~muddled
        BY <1>2, <1>7, <2>3, <3>2 DEF Enroll, Memory
      <4>2. staged = 0 /\ enrolled = d
        BY <1>7, <4>1 DEF SectionInv, Stage
      <4>3. slots'[d] = [pending |-> Empty, active |-> Empty]
        BY <1>1, <4>1
      <4>4. Effective(enrolled)' = 0
        BY <4>1, <4>2, <4>3, EmptyType DEF Effective
      <4>5. QED
        BY <4>4 DEF Refused
    <3>3. QED
      BY <3>1, <3>2
  <2>4. CASE Erase(c)
    <3>a. /\ UNCHANGED <<enrolled, staged, denied, faults>> /\ ~muddled /\ enrolled = d
      BY <1>1, <1>2, <1>7, <2>4 DEF Erase, Memory
    <3>1. /\ slots' = [slots EXCEPT ![d] = [pending |-> Empty, active |-> Empty]]
          /\ UNCHANGED <<enrolled, staged, denied>> /\ ~muddled /\ enrolled = d
      BY <1>1, <2>4, <3>a DEF Erase, Fault, RestType
    <3>2. slots'[d] = [pending |-> Empty, active |-> Empty]
      BY <1>1, <3>1
    <3>3. CASE staged = 0
      <4>1. Effective(enrolled)' = 0
        BY <3>1, <3>2, <3>3, EmptyType DEF Effective
      <4>2. QED
        BY <4>1 DEF Refused
    <3>4. CASE staged # 0
      <4>1. PICK n : n = Effective(enrolled)
        OBVIOUS
      <4>2. n = staged /\ Effective(enrolled)' = n
        BY <3>1, <3>4, <4>1 DEF Effective
      <4>3. Refused(n)
        <5>1. task[c].pc = "erase" /\ denied /\ enrolled # NoDevice
          BY <1>7, <2>4, <3>1 DEF Erase
        <5>2. \A u \in Tasks : task[u].pc \notin {"enroll", "welcome"}
          BY <1>6, <1>7, <5>1
        <5>3. QED
          BY <3>1, <4>1, <5>1, <5>2 DEF DeniedInv
      <4>4. Refused(n)'
        BY <1>1, <3>1, <4>2, <4>3, RefusedStays DEF StoreOwned
      <4>5. QED
        BY <4>2, <4>4 DEF Refused
    <3>5. QED
      BY <3>3, <3>4
  <2>5. QED
    BY <2>1, <2>2, <2>3, <2>4
<1>8. QED
  BY <1>5, <1>6, <1>7 DEF DeniedInv

LEMMA ServeDenied ==
  ASSUME BaseInv, SectionInv, OwnedInv, DeniedInv, NEW c \in Tasks, Handle(c), UNCHANGED brokervars
  PROVE  DeniedInv'
<1>1. /\ UNCHANGED <<slots, staged, enrolled, denied, task, muddled>> /\ RowsGrow /\ AuthInv /\ Where(c) /\ Owns(c)
      /\ call[c].step # "answered" => call[c].answer = "none"
  BY BaseFacts, ServerGrows DEF brokervars, OwnedInv, AuthInv, Found, Tasks
<1>2. \A u \in Tasks \ {c} : call'[u] = call[u]
  BY <1>1, OthersStay DEF AuthInv, Tasks
<1>3. ASSUME ~muddled, task[c].pc = "rotating"
      PROVE  /\ call'[c].pair = call[c].pair \/ call'[c].answer = "ok"
             /\ call[c].answer = "ok" => call'[c].answer = "ok"
             /\ call'[c].answer = "401" => call[c].answer = "401" \/ Refused(Effective(enrolled))
  <2>1. call[c].op = "refresh" /\ call[c].dev = enrolled /\ enrolled \in Devices
    BY <1>1, <1>3 DEF SectionInv, Stage, Where, InRotation
  <2>2. CASE \/ BootstrapCheck(c) \/ BootstrapInsert(c) \/ LoginRead(c) \/ RefreshRead(c) \/ Authenticate(c)
             \/ RefreshConsume(c) /\ pair[call[c].pair].refresh # "live"
    <3>1. /\ call[c].step \in {"arrived", "write"} /\ call'[c].pair = call[c].pair
          /\ call'[c].answer = "401"
              => LET n == call[c].pair IN \/ pair[n].refresh # "live" \/ pair[n].dev # call[c].dev
                                         \/ ~Active(call[c].dev)
      BY <1>1, <2>1, <2>2, ReadCall
    <3>2. call[c].answer = "none"
      BY <1>1, <3>1
    <3>3. call[c].pair = Effective(enrolled)
      BY <1>3, <3>2 DEF DeniedInv
    <3>4. Effective(enrolled) \in Of(enrolled) \cup {0} /\ (enrolled \in Seen /\ ~Active(enrolled) => enrolled \in Gone)
      BY <1>1, <1>3, <2>1, EffectiveOwned DEF Seen, Active, Gone, AuthInv, AuthTypeOK, DeviceRow
    <3>5. enrolled \in Seen
      BY <2>1, AuthAssumption DEF OwnedInv, StoreOwned
    <3>6. QED
      BY <2>1, <3>1, <3>2, <3>3, <3>4, <3>5 DEF Refused, Of
  <2>3. CASE LoginIssue(c) \/ (RefreshConsume(c) /\ pair[call[c].pair].refresh = "live")
    <3>1. call'[c].answer = "ok"
      BY <1>1, <2>3, IssueCall
    <3>2. QED
      BY <3>1
  <2>4. CASE Revoke(c)
    BY <1>1, <2>1, <2>4, RevokeAnswer
  <2>5. QED
    BY <2>2, <2>3, <2>4 DEF Handle
<1>4. QED
  BY <1>1, <1>2, <1>3, QuietDenied

LEMMA WorldDenied ==
  ASSUME BaseInv, SectionInv, OwnedInv, DeniedInv,
         SessionAges \/ Crash \/ RevokedElsewhere \/ Expires \/ UNCHANGED remotevars
  PROVE  DeniedInv'
<1>1. RowsGrow
  BY WorldGrows
<1>2. CASE Crash
  BY <1>2, NoTaskType DEF Crash, DeniedInv
<1>3. CASE ~Crash
  <2>1. UNCHANGED <<slots, staged, enrolled, denied, task, muddled, call>>
    <3>1. CASE SessionAges
      BY <3>1 DEF SessionAges, Durable, Ghosts, authvars
    <3>2. CASE RevokedElsewhere \/ UNCHANGED remotevars
      BY <3>2 DEF RevokedElsewhere, remotevars, authvars, brokervars
    <3>3. CASE Expires
      BY <3>3, Expired DEF brokervars
    <3>4. QED
      BY <1>3, <3>1, <3>2, <3>3
  <2>2. QED
    BY <1>1, <2>1, QuietDenied
<1>4. QED
  BY <1>2, <1>3

LEMMA StepDenied == BaseInv /\ SectionInv /\ OwnedInv /\ DeniedInv /\ [BrokerNext]_remotevars => DeniedInv'
<1> SUFFICES ASSUME BaseInv, SectionInv, OwnedInv, DeniedInv, [BrokerNext]_remotevars PROVE DeniedInv'
  OBVIOUS
<1>1. ASSUME NEW c \in Tasks, BrokerStep(c) PROVE DeniedInv'
  BY <1>1, RequestDenied, RotationDenied, LoginDenied DEF BrokerStep
<1>2. QED
  BY <1>1, ServeDenied, WorldDenied DEF BrokerNext, ClientNext, Serve

LEMMA InitDenied == BrokerInit => DeniedInv
  BY NoTaskType DEF BrokerInit, DeniedInv

LEMMA DeniedInvariant == BrokerSpec => [](BaseInv /\ SectionInv /\ OwnedInv /\ DeniedInv)
<1>1. BrokerInit => BaseInv /\ SectionInv /\ OwnedInv /\ DeniedInv
  BY InitBase, InitSection, InitOwned, InitDenied
<1>2. BaseInv /\ SectionInv /\ OwnedInv /\ DeniedInv /\ [BrokerNext]_remotevars
        => (BaseInv /\ SectionInv /\ OwnedInv /\ DeniedInv)'
  BY StepBase, StepSection, StepOwned, StepDenied
<1>3. QED
  BY <1>1, <1>2, PTL DEF BrokerSpec

\* A login that is reported as expired is one the server refuses: what a task
\* presents cannot be replaced in the store, nor presented by another task, before
\* its answer is heard.
THEOREM ExpiredIsRefused == BrokerSpec => []DeniedIsReal
<1>1. BaseInv /\ OwnedInv /\ DeniedInv => DeniedIsReal
  <2> SUFFICES ASSUME BaseInv, OwnedInv, DeniedInv, enrolled # NoDevice, Quiet, ~muddled, denied,
                      NEW n, n = Effective(enrolled), n # 0
               PROVE  pair[n].refresh # "live" \/ ~Active(enrolled)
    BY DEF DeniedIsReal
  <2>1. \A c \in Tasks : task[c].pc \notin {"enroll", "welcome"}
    BY DEF Quiet, InLogin
  <2>2. Refused(n)
    BY <2>1 DEF DeniedInv
  <2>3. QED
    BY <2>2 DEF Refused, Gone, Active
<1>2. QED
  BY <1>1, DeniedInvariant, PTL

-----------------------------------------------------------------------------
(* A pair that was issued is presented only once it is stored. *)

InStore == {staged} \cup {slots[d].pending.pair : d \in Devices} \cup {slots[d].active.pair : d \in Devices}

\* A refresh request with credential n that the server has yet to decide.
Asks(u, n) == call[u].op = "refresh" /\ call[u].step \in {"arrived", "write"} /\ call[u].pair = n

Consumed(n) == n # 0 /\ pair[n].refresh = "consumed"

\* Nobody has presented credential n, nor can before it is stored.
Untouched(n) == n \notin InStore /\ ~Consumed(n) /\ \A u \in Tasks : ~Asks(u, n)

FreshInv == \A c \in Tasks : /\ Issued(c) => Untouched(call[c].pair)
                             /\ task[c].pc \in {"pending", "store"} => Untouched(task[c].new)

LEMMA EffectiveStored ==
  ASSUME NEW d \in Devices
  PROVE  Effective(d) \in InStore
  BY DEF Effective, InStore

\* The slots of device d are written.
LEMMA StoreGrows ==
  ASSUME BaseInv, NEW d \in Devices, NEW n, staged' \in {staged, 0, n},
         \A x \in Devices : /\ slots'[x].pending.pair \in {slots[x].pending.pair, 0, n}
                            /\ slots'[x].active.pair \in {slots[x].active.pair, 0, n}
  PROVE  InStore' \subseteq InStore \cup {0, n}
  BY DEF InStore

LEMMA StepStore ==
  ASSUME BaseInv, NEW c \in Tasks, BrokerStep(c)
  PROVE  \/ InStore' \subseteq InStore \cup {0}
         \/ /\ task[c].pc \in {"pending", "active", "clear", "store"} /\ task'[c].pc \notin {"pending", "store"}
            /\ InStore' \subseteq InStore \cup {0, task[c].new} /\ UNCHANGED call
<1> DEFINE d == task[c].dev
<1>n. PICK n : n = task[c].new
  OBVIOUS
<1>1. /\ BrokerTypeOK /\ Where(c) /\ slots \in [Devices -> [pending : Slot, active : Slot]]
  BY BaseFacts DEF BrokerTypeOK
<1>2. CASE WritePending(c)
  <2>1. d \in Devices /\ task[c].pc = "pending" /\ UNCHANGED <<staged, call>>
    BY <1>1, <1>2 DEF WritePending, Where, InRotation, Memory, authvars
  <2>2. PICK g \in Nat : slots' = slots \/ slots' = [slots EXCEPT ![d].pending = [gen |-> g, pair |-> n]]
    BY <1>2, PendingTask, <1>n
  <2>3. \A x \in Devices : /\ slots'[x].pending.pair \in {slots[x].pending.pair, 0, n}
                           /\ slots'[x].active.pair \in {slots[x].active.pair, 0, n}
    BY <1>1, <2>1, <2>2
  <2>4. task'[c].pc = "active"
    BY <1>2, PendingTask DEF Goes
  <2>5. InStore' \subseteq InStore \cup {0, n}
    BY <2>1, <2>3, StoreGrows
  <2>6. QED
    BY <2>1, <2>4, <2>5, <1>n
<1>3. CASE WriteActive(c) \/ ClearPending(c)
  <2>1. /\ d \in Devices /\ task[c].pc \in {"active", "clear"} /\ UNCHANGED call /\ staged' \in {staged, 0, n}
        /\ \/ slots' = slots \/ slots' = [slots EXCEPT ![d].pending = Empty]
           \/ slots' = [slots EXCEPT ![d].pending = [gen |-> task[c].stamp, pair |-> n]]
           \/ slots' = [slots EXCEPT ![d].active = [gen |-> task[c].stamp, pair |-> n]]
    BY <1>1, <1>3, <1>n DEF WriteActive, ClearPending, Where, InRotation, authvars
  <2>2. \A x \in Devices : /\ slots'[x].pending.pair \in {slots[x].pending.pair, 0, n}
                           /\ slots'[x].active.pair \in {slots[x].active.pair, 0, n}
    BY <1>1, <2>1, EmptyType
  <2>3. GoesOn(c, "clear") \/ GoesOn(c, "session")
    BY <1>1, <1>3, GoesOnTask DEF WriteActive, ClearPending, Places, InRotation
  <2>4. InStore' \subseteq InStore \cup {0, n}
    <3>1. d \in Devices /\ staged' \in {staged, 0, n}
      BY <2>1
    <3>2. QED
      BY <3>1, <2>2, StoreGrows
  <2>5. QED
    BY <2>1, <2>3, <2>4, <1>n DEF GoesOn, Goes
<1>4. CASE StoreLogin(c)
  <2>1. /\ d \in Devices /\ task[c].pc = "store" /\ UNCHANGED <<staged, call>>
        /\ slots' = slots \/ slots' = [slots EXCEPT ![d].active = [gen |-> 1, pair |-> n]]
        /\ Over(c) \/ To(c, "enroll")
    BY <1>1, <1>4, <1>n DEF StoreLogin, Where, Memory, authvars
  <2>2. \A x \in Devices : /\ slots'[x].pending.pair \in {slots[x].pending.pair, 0, n}
                           /\ slots'[x].active.pair \in {slots[x].active.pair, 0, n}
    BY <1>1, <2>1
  <2>3. task'[c].pc \in {"idle", "erase", "enroll"}
    BY <1>1, <2>1, OverTask, GoesOnTask DEF Places, InLogin, GoesOn, Goes
  <2>4. InStore' \subseteq InStore \cup {0, n}
    <3>1. d \in Devices /\ staged' \in {staged, 0, n}
      BY <2>1
    <3>2. QED
      BY <2>2, <3>1, StoreGrows
  <2>5. QED
    BY <2>1, <2>3, <2>4, <1>n
<1>5. CASE Enroll(c) \/ Erase(c)
  <2>1. /\ d \in Devices /\ UNCHANGED staged
        /\ \/ slots' = slots \/ slots' = [slots EXCEPT ![d].active = Empty]
           \/ slots' = [slots EXCEPT ![d] = [pending |-> Empty, active |-> Empty]]
    BY <1>1, <1>5 DEF Enroll, Erase, Where, InLogout, Memory
  <2>2. \A x \in Devices : /\ slots'[x].pending.pair \in {slots[x].pending.pair, 0}
                           /\ slots'[x].active.pair \in {slots[x].active.pair, 0}
    BY <1>1, <2>1, EmptyType
  <2>3. QED
    BY <2>1, <2>2 DEF InStore
<1>6. CASE UNCHANGED slots /\ staged' \in {staged, 0}
  BY <1>6 DEF InStore
<1>7. QED
  <2>1. \/ WritePending(c) \/ WriteActive(c) \/ ClearPending(c) \/ StoreLogin(c) \/ Enroll(c) \/ Erase(c)
        \/ UNCHANGED slots /\ staged' \in {staged, 0}
    BY DEF BrokerStep, Begin, GetToken, Send, GetAnswer, LoseAnswer, Discard, TakeLock, Present, Rotated, SetSession,
           BeginLogin, LoggedIn, Welcome, Forget, Leave, Memory, Durable, brokervars
  <2>2. QED
    BY <1>2, <1>3, <1>4, <1>5, <1>6, <2>1

\* A credential that is presented is one from the store.
LEMMA StepAsks ==
  ASSUME BaseInv, NEW c \in Tasks, BrokerStep(c), NEW u \in Tasks, NEW n, Asks(u, n)'
  PROVE  Asks(u, n) \/ (u = c /\ Present(c) /\ n = Effective(task[c].dev) /\ n \in InStore)
<1>1. CASE call'[u] = call[u]
  BY <1>1 DEF Asks
<1>2. CASE call'[u] # call[u]
  <2>1. u = c /\ call'[c] # Idle
    BY <1>2, StepCall, IdleType DEF Asks
  <2>2. Present(c) /\ n = Effective(task[c].dev)
    BY <1>2, <2>1, StepCall DEF Asks
  <2>3. task[c].dev \in Devices
    BY <2>2, BaseFacts DEF Present, Where, InRotation
  <2>4. QED
    BY <2>1, <2>2, <2>3, EffectiveStored
<1>3. QED
  BY <1>1, <1>2

LEMMA CarriedPairs ==
  ASSUME BaseInv, OwnedInv, NEW u \in Tasks
  PROVE  /\ Issued(u) => call[u].pair # 0 /\ call[u].pair \in Known
         /\ task[u].pc \in Holding => task[u].new # 0 /\ task[u].new \in Known
<1>1. (Issued(u) => call[u].dev \in Devices) /\ (task[u].pc \in Holding => task[u].dev \in Devices)
  BY BaseFacts DEF Where, Holding, InRotation
<1>2. QED
  BY <1>1, AuthAssumption DEF OwnedInv, Owns, Of, Known, Pairs

LEMMA OwnFresh ==
  ASSUME BaseInv, OwnedInv, UnusedInv, FreshInv, NEW c \in Tasks, BrokerStep(c)
  PROVE  FreshInv'
<1>1. UNCHANGED pair
  BY ClientRows, SameRows
\* n is on its way, and is not what c may be storing.
<1>2. ASSUME NEW n, n # 0, Untouched(n),
             \/ InStore' \subseteq InStore \cup {0}
             \/ n # task[c].new /\ InStore' \subseteq InStore \cup {0, task[c].new}
      PROVE  Untouched(n)'
  <2>1. n \notin InStore'
    BY <1>2 DEF Untouched
  <2>2. \A u \in Tasks : ~Asks(u, n)'
    BY <1>2, StepAsks DEF Untouched
  <2>3. ~Consumed(n)'
    BY <1>1, <1>2 DEF Untouched, Consumed
  <2>4. QED
    BY <2>1, <2>2, <2>3 DEF Untouched
<1>3. ASSUME NEW u \in Tasks, Issued(u)' PROVE Untouched(call[u].pair)'
  <2>1. Issued(u) /\ call'[u] = call[u]
    BY <1>3, StepWay
  <2>2. PICK n : n = call[u].pair
    OBVIOUS
  <2>3. n # 0 /\ Untouched(n) /\ (task[c].pc \in Holding => n # task[c].new)
    BY <2>1, <2>2, CarriedPairs DEF FreshInv, UnusedInv, OneWay
  <2>4. Untouched(n)'
    BY <1>2, <2>3, StepStore DEF Holding
  <2>5. QED
    BY <2>1, <2>2, <2>4 DEF Untouched, Consumed, Asks
<1>4. ASSUME NEW u \in Tasks, task'[u].pc \in {"pending", "store"} PROVE Untouched(task[u].new)'
  <2>1. PICK n : n = task'[u].new
    OBVIOUS
  <2>2. n # 0 /\ Untouched(n) /\ (n # task[c].new \/ InStore' \subseteq InStore \cup {0})
    <3>1. CASE u # c
      <4>1. task'[u] = task[u]
        BY <3>1, StepWay
      <4>2. task[c].pc \in Holding => n # task[c].new
        BY <1>4, <2>1, <3>1, <4>1 DEF UnusedInv, OneWay, Holding
      <4>3. QED
        BY <1>4, <2>1, <4>1, <4>2, CarriedPairs, StepStore DEF FreshInv, Holding
    <3>2. CASE u = c /\ Issued(c) /\ n = call[c].pair
      <4>1. task[c].pc \in Holding => n # task[c].new
        BY <3>2 DEF UnusedInv, OneWay
      <4>2. QED
        BY <3>2, <4>1, CarriedPairs, StepStore DEF FreshInv, Holding
    <3>3. CASE u = c /\ UNCHANGED task
      BY <1>4, <2>1, <3>3, CarriedPairs, StepStore DEF FreshInv, Holding
    <3>4. QED
      BY <1>4, <2>1, <3>1, <3>2, <3>3, StepTask DEF Holding
  <2>3. Untouched(n)'
    BY <1>2, <2>2, StepStore
  <2>4. QED
    BY <2>1, <2>3 DEF Untouched, Consumed, Asks
<1>5. QED
  BY <1>3, <1>4 DEF FreshInv

\* What a step of the server does to the credentials and to the requests that present them.
LEMMA ServeAsks ==
  ASSUME BaseInv, NEW c \in Tasks, Handle(c)
  PROVE  /\ \A u \in Tasks \ {c} : call'[u] = call[u]
         /\ \A n : Asks(c, n)' => Asks(c, n)
         /\ \A n \in Pairs : pair'[n].refresh = "consumed" =>
              \/ pair[n].refresh = "consumed"
              \/ Asks(c, n) /\ call'[c].op = "refresh" /\ call'[c].answer = "ok"
         /\ \/ Issued(c)' => Issued(c) /\ call'[c] = call[c]
            \/ /\ ~Issued(c) /\ call'[c].pair \in Pairs /\ pair[call'[c].pair].dev = NoDevice
               /\ pair'[call'[c].pair].refresh = "live"
<1>1. AuthInv /\ Where(c)
  BY BaseFacts
<1>2. CASE \/ BootstrapCheck(c) \/ BootstrapInsert(c) \/ LoginRead(c) \/ RefreshRead(c) \/ Authenticate(c)
           \/ RefreshConsume(c) /\ pair[call[c].pair].refresh # "live"
  BY <1>1, <1>2, ReadCall DEF Asks, Issued
<1>3. CASE LoginIssue(c) \/ (RefreshConsume(c) /\ pair[call[c].pair].refresh = "live")
  <2>1. PICK n \in Pairs :
           /\ pair[n].dev = NoDevice /\ pair'[n].refresh = "live"
           /\ \A m \in Pairs \ {n} :
                pair'[m].refresh = IF call[c].op = "refresh" /\ m = call[c].pair THEN "consumed" ELSE pair[m].refresh
           /\ \A u \in Tasks \ {c} : call'[u] = call[u]
           /\ call[c].step = "write" /\ call'[c].op = call[c].op
           /\ call'[c].step = "answered" /\ call'[c].answer = "ok" /\ call'[c].pair = n
    BY <1>1, <1>3, IssueCall
  <2>2. ~Issued(c)
    BY <1>1, <2>1 DEF Where, Issued
  <2>3. QED
    BY <2>1, <2>2 DEF Asks
<1>4. CASE Revoke(c)
  <2>1. /\ \A u \in Tasks \ {c} : call'[u] = call[u]
        /\ call'[c].op = "revoke"
        /\ UNCHANGED <<device, pair>> \/ \E d \in Devices : RevokeRows(d)
    BY <1>1, <1>4, RevokeAnswer
  <2>2. \A n \in Pairs : pair'[n].refresh = "consumed" => pair[n].refresh = "consumed"
    BY <1>1, <2>1, RevokeCall
  <2>3. QED
    BY <2>1, <2>2 DEF Asks, Issued
<1>5. QED
  BY <1>2, <1>3, <1>4 DEF Handle

LEMMA StoreKnown ==
  ASSUME BaseInv, OwnedInv
  PROVE  InStore \subseteq Known
<1>1. \A d \in Devices : Of(d) \subseteq Known
  BY DEF Of, Known
<1>2. QED
  BY <1>1 DEF OwnedInv, StoreOwned, InStore, Known

LEMMA ServeFresh ==
  ASSUME BaseInv, OwnedInv, FreshInv, NEW c \in Tasks, Handle(c), UNCHANGED brokervars
  PROVE  FreshInv'
<1>1. UNCHANGED task /\ InStore' = InStore
  BY DEF brokervars, InStore
<1>2. \A u \in Tasks : \A n : Asks(u, n)' => Asks(u, n)
  BY ServeAsks DEF Asks
<1>3. ASSUME NEW n \in Known, Untouched(n) PROVE Untouched(n)'
  BY <1>1, <1>2, <1>3, ServeAsks DEF Untouched, Consumed, Known
<1>4. ASSUME NEW u \in Tasks, Issued(u)' PROVE Untouched(call[u].pair)'
  <2>1. PICK n : n = call'[u].pair
    OBVIOUS
  <2>2. CASE Issued(u) /\ call'[u] = call[u]
    BY <1>3, <2>1, <2>2, CarriedPairs DEF FreshInv, Untouched, Consumed, Asks
  <2>3. CASE u = c /\ n \in Pairs /\ pair[n].dev = NoDevice /\ pair'[n].refresh = "live"
    <3>1. n \notin Known
      BY <2>3, AuthAssumption DEF Known, Pairs
    <3>2. n \notin InStore
      BY <3>1, StoreKnown
    <3>3. \A x \in Tasks : ~Asks(x, n)
      BY <3>1 DEF OwnedInv, Owns, Asks
    <3>4. Untouched(n)'
      BY <1>1, <1>2, <2>3, <3>2, <3>3 DEF Untouched, Consumed
    <3>5. QED
      BY <2>1, <3>4 DEF Untouched, Consumed, Asks
  <2>4. QED
    BY <1>4, <2>1, <2>2, <2>3, ServeAsks DEF Issued
<1>5. ASSUME NEW u \in Tasks, task'[u].pc \in {"pending", "store"} PROVE Untouched(task[u].new)'
  BY <1>1, <1>3, <1>5, CarriedPairs DEF FreshInv, Untouched, Consumed, Asks, Holding
<1>6. QED
  BY <1>4, <1>5 DEF FreshInv

\* A step that touches neither requests nor which credentials are consumed.
LEMMA WorldSame ==
  ASSUME BaseInv, SessionAges \/ Crash \/ RevokedElsewhere \/ Expires \/ UNCHANGED remotevars
  PROVE  /\ UNCHANGED call
         /\ \A n \in Pairs : pair'[n].refresh = "consumed" <=> pair[n].refresh = "consumed"
<1>1. AuthInv
  BY BaseFacts
<1>2. CASE RevokedElsewhere
  BY <1>1, <1>2, RevokeCall DEF RevokedElsewhere
<1>3. CASE Expires
  BY <1>3, Expired
<1>4. CASE SessionAges \/ Crash \/ UNCHANGED remotevars
  BY <1>4 DEF SessionAges, Crash, remotevars, authvars
<1>5. QED
  BY <1>2, <1>3, <1>4

LEMMA WorldFresh ==
  ASSUME BaseInv, OwnedInv, FreshInv, SessionAges \/ Crash \/ RevokedElsewhere \/ Expires \/ UNCHANGED remotevars
  PROVE  FreshInv'
<1>1. UNCHANGED call /\ \A n \in Pairs : pair'[n].refresh = "consumed" <=> pair[n].refresh = "consumed"
  BY WorldSame
<1>2. InStore' \subseteq InStore \cup {0} /\ \A u \in Tasks : task'[u] = task[u] \/ task'[u] = NoTask
  <2>1. CASE Crash
    BY <2>1 DEF Crash, Durable, InStore
  <2>2. CASE SessionAges
    BY <2>2 DEF SessionAges, Durable, InStore
  <2>3. CASE RevokedElsewhere \/ UNCHANGED remotevars
    BY <2>3 DEF RevokedElsewhere, remotevars, brokervars, InStore
  <2>4. CASE Expires
    BY <2>4, Expired DEF brokervars, InStore
  <2>5. QED
    BY <2>1, <2>2, <2>3, <2>4
<1>3. ASSUME NEW n \in Known, n # 0, Untouched(n) PROVE Untouched(n)'
  BY <1>1, <1>2, <1>3 DEF Untouched, Consumed, Asks, Known
<1>4. ASSUME NEW u \in Tasks, Issued(u)' PROVE Untouched(call[u].pair)'
  BY <1>1, <1>3, <1>4, CarriedPairs DEF FreshInv, Untouched, Consumed, Asks, Issued
<1>5. ASSUME NEW u \in Tasks, task'[u].pc \in {"pending", "store"} PROVE Untouched(task[u].new)'
  <2>1. task'[u] = task[u]
    BY <1>2, <1>5, NoTaskType
  <2>2. QED
    BY <1>3, <1>5, <2>1, CarriedPairs DEF FreshInv, Untouched, Consumed, Asks, Holding
<1>6. QED
  BY <1>4, <1>5 DEF FreshInv

LEMMA StepFresh == BaseInv /\ OwnedInv /\ UnusedInv /\ FreshInv /\ [BrokerNext]_remotevars => FreshInv'
  BY OwnFresh, ServeFresh, WorldFresh DEF BrokerNext, ClientNext, Serve

LEMMA InitFresh == BrokerInit => FreshInv
  BY NoTaskType, IdleType DEF BrokerInit, NoRows, FreshInv, Issued, Tasks

-----------------------------------------------------------------------------
(* A credential that was consumed does not stay in the store. *)

\* Credential n is good: not consumed, and not on its way to be.
Unspent(n) == ~Consumed(n) /\ \A u \in Tasks : ~Asks(u, n)

HeldInv == ~muddled => \A c \in Tasks : task[c].pc \in {"active", "clear", "enroll"} => Unspent(task[c].new)

\* Task c is about to replace what the store holds.
Replaces(c) == \/ task[c].pc = "rotating" /\ call[c].answer = "ok"
               \/ task[c].pc \in {"pending", "active", "clear"}

\* What is presented is presented by the rotation.
AskedInRotation == \A u \in Tasks : \A n \in InStore : n # 0 /\ Asks(u, n) => task[u].pc = "rotating"

\* A consumed credential is about to be replaced.
Replaced == enrolled # NoDevice /\ Consumed(Effective(enrolled)) => \E c \in Tasks : Replaces(c)

\* The slot that was written has the highest generation.
Newest(c) ==
  LET t == task[c]
      s == slots[t.dev] IN
  /\ t.pc \in {"active", "clear"} => IF t.kept THEN s.pending = [gen |-> t.stamp, pair |-> t.new]
                                     ELSE s.pending.gen < t.stamp
  /\ t.pc = "active" => s.active.gen < t.stamp
  /\ t.pc = "clear" => s.active = [gen |-> t.stamp, pair |-> t.new]

KeptInv == ~muddled /\ ~spoiled => AskedInRotation /\ Replaced /\ \A c \in Tasks : Newest(c)

LEMMA StepMuddled ==
  ASSUME NEW c \in Tasks, BrokerStep(c), muddled
  PROVE  muddled'
<1>1. CASE StoreLogin(c) \/ Erase(c)
  BY <1>1 DEF StoreLogin, Erase
<1>2. CASE Enroll(c)
  BY <1>2 DEF Enroll
<1>3. CASE TakeLock(c)
  BY <1>3 DEF TakeLock, Rotates
<1>4. CASE Present(c)
  BY <1>4 DEF Present
<1>5. CASE UNCHANGED muddled
  BY <1>5
<1>6. QED
  <2>1. StoreLogin(c) \/ Erase(c) \/ Enroll(c) \/ TakeLock(c) \/ Present(c) \/ UNCHANGED muddled
    BY DEF BrokerStep, Begin, GetToken, Send, GetAnswer, LoseAnswer, Discard, Rotated, WritePending, WriteActive,
           ClearPending, SetSession, BeginLogin, LoggedIn, Welcome, Forget, Leave, Ghosts, brokervars
  <2>2. QED
    BY <1>1, <1>2, <1>3, <1>4, <1>5, <2>1

LEMMA StepSpoiled ==
  ASSUME BaseInv, NEW c \in Tasks, BrokerStep(c), spoiled
  PROVE  spoiled' \/ (StoreLogin(c) /\ To(c, "enroll"))
<1>1. CASE StoreLogin(c)
  BY <1>1 DEF StoreLogin
<1>2. CASE LoseAnswer(c)
  BY <1>2 DEF LoseAnswer
<1>3. CASE WritePending(c)
  BY <1>3, PendingTask
<1>4. CASE WriteActive(c)
  BY <1>4 DEF WriteActive
<1>5. CASE UNCHANGED spoiled
  BY <1>5
<1>6. QED
  <2>1. StoreLogin(c) \/ LoseAnswer(c) \/ WritePending(c) \/ WriteActive(c) \/ UNCHANGED spoiled
    BY DEF BrokerStep, Begin, GetToken, Send, GetAnswer, Discard, TakeLock, Present, Rotated, ClearPending, SetSession,
           BeginLogin, LoggedIn, Enroll, Welcome, Erase, Forget, Leave, Ghosts, brokervars
  <2>2. QED
    BY <1>1, <1>2, <1>3, <1>4, <1>5, <2>1

\* Who holds a pair that is being written has received it, or is as before.
LEMMA StepHeld ==
  ASSUME BaseInv, NEW c \in Tasks, BrokerStep(c), task'[c].pc \in {"active", "clear", "enroll"}
  PROVE  /\ task[c].pc \in {"pending", "store", "active", "clear", "enroll"} /\ task'[c].new = task[c].new
         /\ ~Present(c)
<1>1. task[c].pc \in Holding /\ task'[c].new = task[c].new
  BY StepTask DEF Holding
<1>2. CASE task[c].pc \in {"session", "welcome"}
  <2>1. SetSession(c) \/ Welcome(c) \/ Discard(c)
    BY <1>2 DEF BrokerStep, Begin, GetToken, Send, GetAnswer, LoseAnswer, TakeLock, Present, Rotated, WritePending,
                WriteActive, ClearPending, BeginLogin, LoggedIn, StoreLogin, Enroll, Erase, Forget, Leave
  <2>2. CASE SetSession(c)
    BY <2>2, BaseFacts, SetSessionTask, OverTask DEF Goes
  <2>3. CASE Welcome(c)
    BY <2>3, BaseFacts, OverTask DEF Welcome
  <2>4. CASE Discard(c)
    BY <1>2, <2>4 DEF Discard, brokervars
  <2>5. QED
    BY <2>1, <2>2, <2>3, <2>4
<1>3. ~Present(c)
  BY <1>1 DEF Present, Holding
<1>4. QED
  BY <1>1, <1>2, <1>3 DEF Holding

LEMMA OwnHeld ==
  ASSUME BaseInv, SectionInv, OwnedInv, FreshInv, HeldInv, NEW c \in Tasks, BrokerStep(c)
  PROVE  HeldInv'
<1> SUFFICES ASSUME ~muddled', NEW u \in Tasks, task'[u].pc \in {"active", "clear", "enroll"}
             PROVE  Unspent(task[u].new)'
  BY DEF HeldInv
<1>1. ~muddled /\ UNCHANGED pair
  BY StepMuddled, ClientRows, SameRows
<1>2. PICK n : n = task'[u].new
  OBVIOUS
<1>3. Unspent(n) /\ ~Present(c)
  <2>1. CASE u = c
    BY <1>1, <1>2, <2>1, StepHeld DEF HeldInv, FreshInv, Untouched, Unspent
  <2>2. CASE u # c
    <3>1. task'[u] = task[u]
      BY <2>2, StepWay
    <3>2. ~Present(c)
      BY <1>1, <2>2, <3>1 DEF Present, SectionInv, OneRotation, Stage, InRotation, Midway
    <3>3. QED
      BY <1>1, <1>2, <3>1, <3>2 DEF HeldInv
  <2>3. QED
    BY <2>1, <2>2
<1>4. \A x \in Tasks : ~Asks(x, n)'
  BY <1>3, StepAsks DEF Unspent
<1>5. ~Consumed(n)'
  BY <1>1, <1>3 DEF Unspent, Consumed
<1>6. QED
  BY <1>2, <1>4, <1>5 DEF Unspent, Consumed, Asks

LEMMA ServeHeld ==
  ASSUME BaseInv, OwnedInv, HeldInv, NEW c \in Tasks, Handle(c), UNCHANGED brokervars
  PROVE  HeldInv'
<1> SUFFICES ASSUME ~muddled', NEW u \in Tasks, task'[u].pc \in {"active", "clear", "enroll"}
             PROVE  Unspent(task[u].new)'
  BY DEF HeldInv
<1>1. UNCHANGED <<task, muddled>>
  BY DEF brokervars
<1>2. PICK n : n = task[u].new
  OBVIOUS
<1>3. Unspent(n) /\ n \in Pairs
  BY <1>1, <1>2, CarriedPairs DEF HeldInv, Holding, Known
<1>4. \A x \in Tasks : ~Asks(x, n)'
  BY <1>3, ServeAsks DEF Unspent, Asks
<1>5. ~Consumed(n)'
  BY <1>3, ServeAsks DEF Unspent, Consumed
<1>6. QED
  BY <1>1, <1>2, <1>4, <1>5 DEF Unspent, Consumed, Asks

LEMMA WorldHeld ==
  ASSUME BaseInv, OwnedInv, HeldInv, SessionAges \/ Crash \/ RevokedElsewhere \/ Expires \/ UNCHANGED remotevars
  PROVE  HeldInv'
<1> SUFFICES ASSUME ~muddled', NEW u \in Tasks, task'[u].pc \in {"active", "clear", "enroll"}
             PROVE  Unspent(task[u].new)'
  BY DEF HeldInv
<1>1. UNCHANGED call /\ \A n \in Pairs : pair'[n].refresh = "consumed" <=> pair[n].refresh = "consumed"
  BY WorldSame
<1>2. CASE Crash
  BY <1>2, NoTaskType DEF Crash
<1>3. CASE UNCHANGED <<task, muddled>>
  <2>1. PICK n : n = task[u].new
    OBVIOUS
  <2>2. Unspent(n) /\ n \in Pairs
    BY <1>3, <2>1, CarriedPairs DEF HeldInv, Holding, Known
  <2>3. Unspent(n)'
    BY <1>1, <2>2 DEF Unspent, Consumed, Asks
  <2>4. QED
    BY <1>3, <2>1, <2>3 DEF Unspent, Consumed, Asks
<1>4. QED
  BY <1>2, <1>3 DEF SessionAges, RevokedElsewhere, Expires, remotevars, brokervars, Ghosts

LEMMA StepGood == BaseInv /\ SectionInv /\ OwnedInv /\ FreshInv /\ HeldInv /\ [BrokerNext]_remotevars => HeldInv'
  BY OwnHeld, ServeHeld, WorldHeld DEF BrokerNext, ClientNext, Serve

LEMMA InitHeld == BrokerInit => HeldInv
  BY NoTaskType DEF BrokerInit, HeldInv

\* A step that leaves the store.
LEMMA QuietKept ==
  ASSUME KeptInv, ~muddled, ~spoiled, UNCHANGED <<slots, staged, enrolled>>,
         \A u \in Tasks : \A n : Asks(u, n)' => Asks(u, n) \/ task'[u].pc = "rotating",
         \A u \in Tasks : \A n : task[u].pc = "rotating" /\ Asks(u, n)' => task'[u].pc = "rotating",
         \A u \in Tasks : Replaces(u) => Replaces(u)',
         enrolled # NoDevice /\ Consumed(Effective(enrolled))' =>
           Consumed(Effective(enrolled)) \/ \E c \in Tasks : Replaces(c)',
         \A u \in Tasks : task'[u].pc \in {"active", "clear"} => task'[u] = task[u]
  PROVE  KeptInv'
<1>1. InStore' = InStore
  BY DEF InStore
<1>2. AskedInRotation'
  BY <1>1 DEF KeptInv, AskedInRotation
<1>3. Replaced'
  BY DEF KeptInv, Replaced
<1>4. \A u \in Tasks : Newest(u)'
  BY DEF KeptInv, Newest
<1>5. QED
  BY <1>2, <1>3, <1>4 DEF KeptInv

\* Nothing is in the store but what was just written, and nobody rotates.
LEMMA OnlyKept ==
  ASSUME BaseInv', NEW n, InStore' \subseteq {0, n}, n # 0 => Unspent(n)',
         \A u \in Tasks : task'[u].pc \notin {"active", "clear"}
  PROVE  KeptInv'
<1>1. AskedInRotation'
  BY DEF AskedInRotation, Unspent
<1>2. Replaced'
  <2>1. enrolled' # NoDevice => enrolled' \in Devices
    BY DEF BaseInv, BrokerTypeOK
  <2>2. PICK d : d = enrolled'
    OBVIOUS
  <2>3. d # NoDevice => Effective(d)' \in InStore'
    BY <2>1, <2>2 DEF InStore, Effective
  <2>4. enrolled' # NoDevice => Effective(enrolled)' \in {0, n}
    BY <2>2, <2>3 DEF Effective
  <2>5. QED
    BY <2>4 DEF Replaced, Unspent, Consumed
<1>3. \A u \in Tasks : Newest(u)'
  BY DEF Newest
<1>4. QED
  BY <1>1, <1>2, <1>3 DEF KeptInv

\* The credential of a rotation that has written one slot is the next one presented.
LEMMA WrittenEffective ==
  ASSUME BaseInv, NEW c \in Tasks, task[c].new # 0, task[c].dev \in Devices, Newest(c), staged = 0,
         task[c].pc = "clear" \/ (task[c].pc = "active" /\ task[c].kept)
  PROVE  Effective(task[c].dev) = task[c].new
<1>1. /\ task[c].stamp \in Nat /\ slots[task[c].dev].pending.gen \in Nat /\ slots[task[c].dev].active.gen \in Nat
      /\ slots[task[c].dev].pending.pair \in Nat /\ slots[task[c].dev].active.pair \in Nat
  BY BaseFacts DEF RestType, Slot, Task
<1>2. CASE task[c].pc = "clear"
  <2>1. /\ slots[task[c].dev].active.gen = task[c].stamp /\ slots[task[c].dev].active.pair = task[c].new
        /\ \/ slots[task[c].dev].pending.pair = task[c].new
           \/ slots[task[c].dev].pending.gen < task[c].stamp
    BY <1>2 DEF Newest
  <2>2. QED
    BY <1>1, <2>1 DEF Effective
<1>3. CASE task[c].pc = "active" /\ task[c].kept
  <2>1. /\ slots[task[c].dev].active.gen < task[c].stamp
        /\ slots[task[c].dev].pending.pair = task[c].new /\ slots[task[c].dev].pending.gen = task[c].stamp
    BY <1>3 DEF Newest
  <2>2. QED
    BY <1>1, <2>1 DEF Effective
<1>4. QED
  BY <1>2, <1>3

LEMMA CrashKept ==
  ASSUME BaseInv, SectionInv, OwnedInv, HeldInv, KeptInv, Crash
  PROVE  KeptInv'
<1> SUFFICES ASSUME ~muddled', ~spoiled' PROVE KeptInv'
  BY DEF KeptInv
<1>1. /\ ~muddled /\ ~spoiled /\ staged = 0 /\ staged' = 0 /\ UNCHANGED <<slots, enrolled, call, pair>>
      /\ \A c \in Tasks : /\ task[c].pc \notin {"rotating", "pending", "enroll"}
                          /\ task[c].pc = "active" => task[c].kept
      /\ \A c \in Tasks : task'[c].pc = "idle"
  BY NoTaskType DEF Crash, Durable, authvars
<1>2. InStore' = InStore /\ Effective(enrolled)' = Effective(enrolled)
  BY <1>1, SameEffective DEF InStore
<1>3. AskedInRotation'
  BY <1>1, <1>2 DEF KeptInv, AskedInRotation, Asks
<1>4. Replaced'
  <2> SUFFICES ASSUME enrolled # NoDevice, Consumed(Effective(enrolled)) PROVE FALSE
    BY <1>1, <1>2 DEF Replaced, Consumed
  <2>1. PICK c \in Tasks : task[c].pc \in {"active", "clear"} /\ (task[c].pc = "active" => task[c].kept)
    BY <1>1 DEF KeptInv, Replaced, Replaces
  <2>2. task[c].dev = enrolled /\ task[c].dev \in Devices
    BY <1>1, <2>1, BaseFacts DEF SectionInv, Stage, Where, InRotation
  <2>3. task[c].new # 0
    BY <2>1, CarriedPairs DEF Holding
  <2>4. Effective(enrolled) = task[c].new
    BY <1>1, <2>1, <2>2, <2>3, WrittenEffective DEF KeptInv
  <2>5. QED
    BY <1>1, <2>1, <2>4 DEF HeldInv, Unspent
<1>5. \A u \in Tasks : Newest(u)'
  BY <1>1 DEF Newest
<1>6. QED
  BY <1>3, <1>4, <1>5 DEF KeptInv

LEMMA ServeKept ==
  ASSUME BaseInv, SectionInv, OwnedInv, KeptInv, NEW c \in Tasks, Handle(c), UNCHANGED brokervars
  PROVE  KeptInv'
<1> SUFFICES ASSUME ~muddled', ~spoiled' PROVE KeptInv'
  BY DEF KeptInv
<1>1. UNCHANGED <<slots, staged, enrolled, task>> /\ ~muddled /\ ~spoiled
  BY DEF brokervars
<1>2. /\ \A u \in Tasks \ {c} : call'[u] = call[u]
      /\ \A u \in Tasks : \A n : Asks(u, n)' => Asks(u, n)
  BY ServeAsks DEF Asks
<1>3. call[c].answer # "ok"
  <2>1. call[c].step \in {"arrived", "write"} => call[c].answer = "none"
    BY BaseFacts DEF AuthInv, Found, Tasks
  <2>2. call[c].step \in {"arrived", "write"}
    BY DEF Handle, BootstrapCheck, BootstrapInsert, LoginRead, RefreshRead, Authenticate, RefreshConsume, LoginIssue,
           Revoke, At
  <2>3. QED
    BY <2>1, <2>2
<1>4. \A u \in Tasks : Replaces(u) => Replaces(u)'
  BY <1>1, <1>2, <1>3 DEF Replaces
<1>5. ASSUME enrolled # NoDevice, Consumed(Effective(enrolled))'
      PROVE  Consumed(Effective(enrolled)) \/ \E x \in Tasks : Replaces(x)'
  <2>1. PICK n : n = Effective(enrolled)
    OBVIOUS
  <2>2. Effective(enrolled)' = n
    BY <1>1, <2>1, SameEffective
  <2>3. n # 0 /\ pair'[n].refresh = "consumed"
    BY <1>5, <2>2 DEF Consumed
  <2>4. n \in Pairs /\ n \in InStore
    <3>1. enrolled \in Devices
      BY <1>5, BaseFacts DEF RestType
    <3>2. QED
      BY <1>1, <2>1, <2>3, <3>1, EffectiveOwned, EffectiveStored DEF Of
  <2>5. CASE Asks(c, n) /\ call'[c].answer = "ok"
    <3>1. task[c].pc = "rotating"
      BY <1>1, <2>3, <2>4, <2>5 DEF KeptInv, AskedInRotation
    <3>2. QED
      BY <1>1, <2>5, <3>1 DEF Replaces
  <2>6. QED
    BY <2>1, <2>3, <2>4, <2>5, ServeAsks DEF Consumed
<1>6. QED
  BY <1>1, <1>2, <1>4, <1>5, QuietKept

LEMMA RequestKept ==
  ASSUME BaseInv, SectionInv, OwnedInv, KeptInv, NEW c \in Tasks,
         \/ Begin(c) \/ GetToken(c) \/ Send(c) \/ GetAnswer(c) \/ LoseAnswer(c) \/ Discard(c) \/ TakeLock(c)
         \/ Present(c) \/ Rotated(c) \/ BeginLogin(c) \/ LoggedIn(c) \/ SetSession(c) \/ Welcome(c)
         \/ (StoreLogin(c) /\ Over(c))
  PROVE  KeptInv'
<1> SUFFICES ASSUME ~muddled', ~spoiled' PROVE KeptInv'
  BY DEF KeptInv
<1>1. BrokerStep(c) /\ BrokerTypeOK /\ Where(c)
  BY BaseFacts DEF BrokerStep
<1>2. ASSUME StoreLogin(c), Over(c) PROVE ~To(c, "enroll")
  BY <1>1, <1>2, OverTask, GoesOnTask DEF Places, InLogin, GoesOn, Goes
<1>3. ~muddled /\ ~spoiled /\ UNCHANGED pair
  <2>1. StoreLogin(c) => Over(c) \/ UNCHANGED task
    BY DEF Begin, GetToken, Send, GetAnswer, LoseAnswer, Discard, TakeLock, Present, Rotated, BeginLogin, LoggedIn,
           SetSession, Welcome, StoreLogin, brokervars
  <2>2. StoreLogin(c) /\ To(c, "enroll") => task'[c].pc = "enroll" /\ task[c].pc = "store"
    BY <1>1, GoesOnTask DEF Places, InLogin, GoesOn, Goes, StoreLogin
  <2>3. ~(StoreLogin(c) /\ To(c, "enroll"))
    BY <1>2, <2>1, <2>2
  <2>4. QED
    BY <1>1, <2>3, StepMuddled, StepSpoiled, ClientRows, SameRows
<1>4. UNCHANGED <<slots, staged, enrolled>>
  <2>1. CASE Begin(c) \/ GetToken(c) \/ Send(c) \/ GetAnswer(c) \/ LoseAnswer(c) \/ BeginLogin(c) \/ LoggedIn(c) \/ SetSession(c)
    <3>1. CASE Begin(c) \/ GetToken(c) \/ Send(c) \/ GetAnswer(c)
      BY <3>1 DEF Begin, GetToken, Send, GetAnswer, Durable, Memory
    <3>2. CASE LoseAnswer(c) \/ BeginLogin(c) \/ LoggedIn(c) \/ SetSession(c)
      BY <3>2 DEF LoseAnswer, BeginLogin, LoggedIn, SetSession, Durable, Memory
    <3>3. QED
      BY <2>1, <3>1, <3>2
  <2>2. CASE Discard(c)
    BY <2>2 DEF Discard, brokervars
  <2>3. CASE TakeLock(c) \/ Present(c) \/ Rotated(c) \/ Welcome(c)
    BY <2>3 DEF TakeLock, Present, Rotated, Welcome, Durable, Memory
  <2>4. CASE StoreLogin(c) /\ Over(c)
    BY <1>2, <2>4 DEF StoreLogin, Memory
  <2>5. QED
    BY <2>1, <2>2, <2>3, <2>4
<1>5. \A u \in Tasks \ {c} : task'[u] = task[u] /\ call'[u] = call[u]
  BY <1>1, StepWay
\* The two ends of a request in the server's hands.
<1>6. Present(c) /\ ~Over(c) => task'[c].pc = "rotating"
  BY <1>1, GoesOnTask DEF Present, Places, InRotation, GoesOn, Goes
<1>7. task[c].pc = "rotating" => Rotated(c) /\ call'[c] = Idle
  <2>1. task[c].pc = "rotating" => Rotated(c)
    BY <1>3 DEF Begin, GetToken, Send, GetAnswer, LoseAnswer, Discard, TakeLock, Present, BeginLogin, LoggedIn,
                SetSession, Welcome, StoreLogin
  <2>2. Rotated(c) => call'[c] = Idle
    BY BaseFacts, HearStep DEF Rotated
  <2>3. QED
    BY <2>1, <2>2
<1>8. task[c].pc \in {"pending", "active", "clear", "enroll"} => UNCHANGED task
  BY DEF Begin, GetToken, Send, GetAnswer, LoseAnswer, Discard, TakeLock, Present, Rotated, BeginLogin, LoggedIn,
         SetSession, Welcome, StoreLogin, brokervars
<1>9. \A n : Asks(c, n)' => Asks(c, n) \/ task'[c].pc = "rotating"
  <2>1. CASE Present(c) /\ ~Over(c)
    BY <1>6, <2>1
  <2>2. CASE ~Present(c)
    BY <1>1, <2>2, StepAsks
  <2>3. CASE Present(c) /\ Over(c)
    <3>1. task'[c].pc # "rotating"
      BY <1>1, <2>3, OverTask
    <3>2. ~To(c, "rotating")
      BY <1>1, <3>1, GoesOnTask DEF Places, InRotation, GoesOn, Goes
    <3>3. UNCHANGED call
      BY <2>3, <3>2 DEF Present
    <3>4. QED
      BY <3>3 DEF Asks
  <2>4. QED
    BY <2>1, <2>2, <2>3
<1>10. \A n : task[c].pc = "rotating" /\ Asks(c, n)' => task'[c].pc = "rotating"
  BY <1>7, IdleType DEF Asks
<1>11. Replaces(c) => Replaces(c)'
  <2>1. CASE task[c].pc = "rotating" /\ call[c].answer = "ok"
    BY <1>1, <1>7, <2>1, RotatedTask DEF Goes, Replaces
  <2>2. CASE task[c].pc \in {"pending", "active", "clear"}
    BY <1>8, <2>2 DEF Replaces
  <2>3. QED
    BY <2>1, <2>2 DEF Replaces
<1>12. task'[c].pc \in {"active", "clear"} => task'[c] = task[c]
  <2>1. CASE task[c].pc = "store"
    <3>1. Discard(c) \/ (StoreLogin(c) /\ Over(c))
      BY <2>1 DEF Begin, GetToken, Send, GetAnswer, LoseAnswer, TakeLock, Present, Rotated, BeginLogin, LoggedIn,
                  SetSession, Welcome
    <3>2. QED
      BY <1>1, <3>1, OverTask DEF Discard, brokervars
  <2>2. QED
    BY <1>1, <1>8, <2>1, StepHeld
<1>13. \A u \in Tasks : Replaces(u) => Replaces(u)'
  BY <1>5, <1>11 DEF Replaces
<1>14. \A u \in Tasks : \A n : Asks(u, n)' => Asks(u, n) \/ task'[u].pc = "rotating"
  BY <1>5, <1>9 DEF Asks
<1>15. \A u \in Tasks : \A n : task[u].pc = "rotating" /\ Asks(u, n)' => task'[u].pc = "rotating"
  BY <1>5, <1>10
<1>16. Consumed(Effective(enrolled))' => Consumed(Effective(enrolled))
  BY <1>3, <1>4, SameEffective DEF Consumed
<1>17. \A u \in Tasks : task'[u].pc \in {"active", "clear"} => task'[u] = task[u]
  BY <1>5, <1>12
<1>18. QED
  BY <1>3, <1>4, <1>13, <1>14, <1>15, <1>16, <1>17, QuietKept

LEMMA WorldKept ==
  ASSUME BaseInv, SectionInv, OwnedInv, HeldInv, KeptInv,
         SessionAges \/ Crash \/ RevokedElsewhere \/ Expires \/ UNCHANGED remotevars
  PROVE  KeptInv'
<1>1. CASE Crash
  BY <1>1, CrashKept
<1>2. CASE ~Crash /\ ~muddled /\ ~spoiled
  <2>1. UNCHANGED <<slots, staged, enrolled, task, call>>
    <3>1. UNCHANGED call
      BY WorldSame
    <3>2. UNCHANGED <<slots, staged, enrolled, task>>
      BY <1>2 DEF SessionAges, RevokedElsewhere, Expires, remotevars, brokervars, Durable
    <3>3. QED
      BY <3>1, <3>2
  <2>2. /\ \A u \in Tasks : \A n : Asks(u, n)' => Asks(u, n)
        /\ \A u \in Tasks : Replaces(u) => Replaces(u)'
    BY <2>1 DEF Asks, Replaces
  <2>3. ASSUME enrolled # NoDevice, Consumed(Effective(enrolled))' PROVE Consumed(Effective(enrolled))
    <3>1. PICK n : n = Effective(enrolled)
      OBVIOUS
    <3>2. Effective(enrolled)' = n
      BY <2>1, <3>1, SameEffective
    <3>3. n \in Of(enrolled) \cup {0}
      BY <1>2, <2>3, <3>1, EffectiveOwned, BaseFacts DEF RestType
    <3>4. QED
      BY <2>3, <3>1, <3>2, <3>3, WorldSame DEF Consumed, Of
  <2>4. QED
    BY <1>2, <2>1, <2>2, <2>3, QuietKept
<1>3. CASE ~Crash /\ (muddled \/ spoiled)
  <2>1. UNCHANGED <<spoiled, muddled>>
    BY <1>3 DEF SessionAges, RevokedElsewhere, Expires, remotevars, brokervars, Ghosts
  <2>2. QED
    BY <1>3, <2>1 DEF KeptInv
<1>4. QED
  BY <1>1, <1>2, <1>3

\* The writes of a rotation: nobody else rotates.
LEMMA PendingKept ==
  ASSUME BaseInv, SectionInv, OwnedInv, FreshInv, KeptInv, NEW c \in Tasks, WritePending(c)
  PROVE  KeptInv'
<1> SUFFICES ASSUME ~muddled', ~spoiled' PROVE KeptInv'
  BY DEF KeptInv
<1>1. /\ BrokerStep(c) /\ BrokerTypeOK /\ RestType /\ task[c].pc = "pending" /\ task[c].dev \in Devices
      /\ UNCHANGED <<staged, enrolled, call, muddled>> /\ ~muddled
  BY BaseFacts DEF BrokerStep, WritePending, Where, InRotation, Memory, authvars
<1>2. PICK n, d : n = task[c].new /\ d = task[c].dev
  OBVIOUS
<1>3. PICK ok \in BOOLEAN, stamp \in Nat \ {0} :
        /\ Goes(c, "active", task[c].sent, task[c].gen, task[c].rejected, n)
        /\ task'[c].stamp = stamp /\ task'[c].kept = ok
        /\ slots' = IF ok THEN [slots EXCEPT ![d].pending = [gen |-> stamp, pair |-> n]] ELSE slots
        /\ ~spoiled /\ ~(stamp <= slots[d].active.gen) /\ (~ok => ~(stamp <= slots[d].pending.gen))
  BY <1>2, PendingTask
<1>4. \A u \in Tasks \ {c} : task'[u] = task[u] /\ task[u].pc \notin InRotation
  BY <1>1, StepWay DEF SectionInv, OneRotation, InRotation
<1>5. AskedInRotation'
  <2>1. InStore' \subseteq InStore \cup {0, n}
    BY <1>1, <1>2, StepStore
  <2>2. \A u \in Tasks : ~Asks(u, n)
    BY <1>1, <1>2 DEF FreshInv, Untouched
  <2>3. \A u \in Tasks : \A m : Asks(u, m)' <=> Asks(u, m)
    BY <1>1 DEF Asks
  <2>4. \A u \in Tasks : task[u].pc = "rotating" => task'[u].pc = "rotating"
    BY <1>1, <1>4
  <2>5. QED
    BY <1>1, <1>3, <2>1, <2>2, <2>3, <2>4 DEF KeptInv, AskedInRotation
<1>6. Replaced'
  BY <1>3 DEF Replaced, Replaces, Goes
<1>7. ASSUME NEW u \in Tasks PROVE Newest(u)'
  <2>1. CASE u # c
    BY <1>4, <2>1 DEF Newest, InRotation
  <2>2. CASE u = c
    <3>1. slots[d].active.gen \in Nat /\ slots[d].pending.gen \in Nat /\ slots \in [Devices -> [pending : Slot, active : Slot]]
      BY <1>1, <1>2 DEF RestType, Slot
    <3>2. task'[c].pc = "active" /\ task'[c].dev = d /\ task'[c].new = n /\ task'[c].stamp = stamp /\ task'[c].kept = ok
      BY <1>2, <1>3 DEF Goes
    <3>3. slots'[d].active.gen < stamp
      BY <1>1, <1>2, <1>3, <3>1
    <3>4. IF ok THEN slots'[d].pending = [gen |-> stamp, pair |-> n] ELSE slots'[d].pending.gen < stamp
      BY <1>1, <1>2, <1>3, <3>1
    <3>5. QED
      BY <2>2, <3>2, <3>3, <3>4 DEF Newest
  <2>3. QED
    BY <2>1, <2>2
<1>8. QED
  BY <1>5, <1>6, <1>7 DEF KeptInv

LEMMA ActiveKept ==
  ASSUME BaseInv, SectionInv, OwnedInv, HeldInv, KeptInv, NEW c \in Tasks, WriteActive(c) \/ ClearPending(c)
  PROVE  KeptInv'
<1> SUFFICES ASSUME ~muddled', ~spoiled' PROVE KeptInv'
  BY DEF KeptInv
<1>1. /\ BrokerStep(c) /\ BrokerTypeOK /\ RestType /\ task[c].pc \in {"active", "clear"} /\ task[c].dev \in Devices
      /\ UNCHANGED <<enrolled, call, pair, muddled>> /\ ~muddled /\ task[c] \in Task
  BY BaseFacts DEF BrokerStep, WriteActive, ClearPending, Where, InRotation, Memory, authvars
<1>2. ~spoiled
  BY <1>1, StepSpoiled DEF WriteActive, ClearPending, StoreLogin
<1>3. PICK n, d, g : n = task[c].new /\ d = task[c].dev /\ g = task[c].stamp
  OBVIOUS
<1>4. \A u \in Tasks \ {c} : task'[u] = task[u] /\ task[u].pc \notin InRotation
  BY <1>1, StepWay DEF SectionInv, OneRotation, InRotation
<1>5. Unspent(n) /\ n # 0 /\ Newest(c) /\ d = enrolled /\ d \in Devices
  <2>1. n # 0
    BY <1>1, <1>3, CarriedPairs DEF Holding
  <2>2. d = enrolled
    BY <1>1, <1>3 DEF SectionInv, Stage, InRotation
  <2>3. QED
    BY <1>1, <1>2, <1>3, <2>1, <2>2 DEF HeldInv, KeptInv
<1>6. AskedInRotation'
  <2>1. InStore' \subseteq InStore \cup {0, n}
    BY <1>1, <1>3, StepStore
  <2>2. \A u \in Tasks : ~Asks(u, n)
    BY <1>5 DEF Unspent
  <2>3. \A u \in Tasks : \A m : Asks(u, m)' <=> Asks(u, m)
    BY <1>1 DEF Asks
  <2>4. \A u \in Tasks : task[u].pc = "rotating" => task'[u].pc = "rotating"
    BY <1>1, <1>4
  <2>5. QED
    BY <1>1, <1>2, <2>1, <2>2, <2>3, <2>4 DEF KeptInv, AskedInRotation
<1>7. ~Consumed(n)'
  BY <1>1, <1>5 DEF Unspent, Consumed
<1>8. /\ slots \in [Devices -> [pending : Slot, active : Slot]] /\ g \in Nat /\ n \in Nat
      /\ slots[d].active.gen \in Nat /\ slots[d].pending.gen \in Nat
      /\ slots[d].active.pair \in Nat /\ slots[d].pending.pair \in Nat
  BY <1>1, <1>3, <1>5 DEF RestType, Slot, Task
<1>9. CASE WriteActive(c) /\ To(c, "clear") /\ slots' = [slots EXCEPT ![d].active = [gen |-> g, pair |-> n]]
  <2>1. GoesOn(c, "clear") /\ task[c].pc = "active"
    BY <1>1, <1>9, GoesOnTask DEF Places, InRotation, WriteActive
  <2>2. /\ task'[c].pc = "clear" /\ task'[c].dev = d /\ task'[c].new = n /\ task'[c].stamp = g
        /\ task'[c].kept = task[c].kept
    BY <1>3, <2>1 DEF GoesOn, Goes
  <2>3. slots'[d].active = [gen |-> g, pair |-> n] /\ slots'[d].pending = slots[d].pending
    BY <1>5, <1>8, <1>9
  <2>4. Newest(c)'
    BY <1>3, <1>5, <2>1, <2>2, <2>3 DEF Newest
  <2>5. Replaced'
    BY <2>2 DEF Replaced, Replaces
  <2>6. \A u \in Tasks : Newest(u)'
    BY <1>4, <2>4 DEF Newest, InRotation
  <2>7. QED
    BY <1>6, <2>5, <2>6 DEF KeptInv
\* The rotation is over: what is presented next is the pair that was received.
<1>10. CASE To(c, "session") /\ Effective(d)' = n
  <2>1. task'[c].pc = "session"
    BY <1>1, <1>10, GoesOnTask DEF Places, InRotation, GoesOn, Goes
  <2>2. \A u \in Tasks : Newest(u)'
    BY <1>4, <2>1 DEF Newest, InRotation
  <2>3. Effective(enrolled)' = n
    BY <1>1, <1>5, <1>10 DEF Effective
  <2>4. Replaced'
    BY <1>7, <2>3 DEF Replaced, Consumed
  <2>5. QED
    BY <1>6, <2>2, <2>4 DEF KeptInv
<1>11. CASE WriteActive(c) /\ To(c, "session") /\ UNCHANGED slots
  <2>1. /\ staged' = IF task[c].kept THEN staged ELSE n
        /\ task[c].kept => staged = 0
        /\ task[c].pc = "active"
    <3>1. task[c].pc = "active" /\ ~To(c, "clear")
      <4>1. task'[c].pc = "session" /\ task[c].pc = "active"
        BY <1>1, <1>11, GoesOnTask DEF Places, InRotation, GoesOn, Goes, WriteActive
      <4>2. QED
        BY <1>1, <4>1, GoesOnTask DEF Places, InRotation, GoesOn, Goes
    <3>2. QED
      BY <1>3, <1>11, <3>1 DEF WriteActive
  <2>2. CASE task[c].kept
    <3>1. slots[d].pending = [gen |-> g, pair |-> n] /\ slots[d].active.gen < g /\ staged' = 0
      BY <1>3, <1>5, <2>1, <2>2 DEF Newest
    <3>2. Effective(d)' = n
      BY <1>5, <1>8, <1>11, <3>1 DEF Effective
    <3>3. QED
      BY <1>10, <1>11, <3>2
  <2>3. CASE ~task[c].kept
    <3>1. Effective(d)' = n
      BY <1>5, <2>1, <2>3 DEF Effective
    <3>2. QED
      BY <1>10, <1>11, <3>1
  <2>4. QED
    BY <2>2, <2>3
<1>12. CASE ClearPending(c)
  <2>1. /\ task[c].pc = "clear" /\ staged' = 0 /\ To(c, "session")
        /\ \/ slots' = [slots EXCEPT ![d].pending = Empty]
           \/ slots' = [slots EXCEPT ![d].pending = [gen |-> g, pair |-> n]]
           \/ UNCHANGED slots
    BY <1>3, <1>12 DEF ClearPending
  <2>2. /\ slots[d].active.gen = g /\ slots[d].active.pair = n
        /\ slots[d].pending.pair = n \/ slots[d].pending.gen < g
    BY <1>3, <1>5, <2>1 DEF Newest
  <2>3. /\ slots'[d].active.gen = g /\ slots'[d].active.pair = n
        /\ slots'[d].pending.pair = 0 \/ slots'[d].pending.pair = n \/ slots'[d].pending.gen < g
    BY <1>5, <1>8, <2>1, <2>2, EmptyType
  <2>4. slots'[d].pending.gen \in Nat
    BY <1>5, <1>8, <2>1, EmptyType
  <2>5. Effective(d)' = n
    BY <1>5, <1>8, <2>1, <2>3, <2>4 DEF Effective
  <2>6. QED
    BY <1>10, <2>1, <2>5
<1>13. QED
  BY <1>3, <1>9, <1>11, <1>12 DEF WriteActive

\* A login or logout that is alone: the store holds its own pair, or what was in memory.
LEMMA LoginKept ==
  ASSUME BaseInv, BaseInv', SectionInv, OwnedInv, FreshInv, HeldInv, KeptInv, NEW c \in Tasks,
         \/ StoreLogin(c) /\ ~Over(c)
         \/ Enroll(c) \/ Erase(c) \/ Forget(c) \/ Leave(c)
  PROVE  KeptInv'
<1> SUFFICES ASSUME ~muddled', ~spoiled' PROVE KeptInv'
  BY DEF KeptInv
<1>1. /\ BrokerStep(c) /\ BrokerTypeOK /\ RestType /\ task[c].dev \in Devices /\ UNCHANGED <<call, pair>> /\ ~muddled
  <2>1. BrokerStep(c) /\ BrokerTypeOK /\ RestType /\ Where(c)
    BY BaseFacts DEF BrokerStep
  <2>2. UNCHANGED <<call, pair>>
    BY DEF StoreLogin, Enroll, Erase, Forget, Leave, authvars
  <2>3. task[c].dev \in Devices
    BY <2>1 DEF StoreLogin, Enroll, Erase, Forget, Leave, Where, InLogout
  <2>4. QED
    BY <2>1, <2>2, <2>3, StepMuddled
<1>2. PICK n, d : n = task[c].new /\ d = task[c].dev
  OBVIOUS
<1>3. /\ d \in Devices /\ d # NoDevice /\ Bounded /\ Stage(c)
      /\ slots \in [Devices -> [pending : Slot, active : Slot]]
  BY <1>1, <1>2, AuthAssumption DEF SectionInv, RestType
<1>4. \A u \in Tasks \ {c} : task'[u] = task[u] /\ task[u].pc \notin InRotation \cup Midway
  <2>1. CASE StoreLogin(c) \/ Erase(c)
    BY <1>1, <2>1, StepWay DEF StoreLogin, Erase, Beside
  <2>2. CASE Enroll(c) \/ Forget(c) \/ Leave(c)
    <3>1. task[c].pc \in Midway
      BY <2>2 DEF Enroll, Forget, Leave, Midway
    <3>2. QED
      BY <1>1, <1>3, <3>1, StepWay DEF Stage
  <2>3. QED
    BY <2>1, <2>2
<1>5. \A x \in Devices : task[c].pc # "enroll" => x = enrolled \/ slots[x] = Blank
  BY <1>3, <1>4 DEF Bounded, Midway
<1>6. task'[c].pc \in {"enroll", "welcome", "idle", "erase", "forget", "leave"}
  <2>1. \A p \in {"enroll", "welcome", "forget", "leave"} : To(c, p) => task'[c].pc = p
    BY <1>1, GoesOnTask DEF Places, InLogin, InLogout, GoesOn, Goes
  <2>2. Over(c) => task'[c].pc \in {"idle", "erase"}
    BY <1>1, OverTask
  <2>3. Leave(c) => task'[c].pc = "idle"
    BY <1>1, SetTask, NoTaskType DEF Leave
  <2>4. QED
    BY <2>1, <2>2, <2>3 DEF StoreLogin, Enroll, Erase, Forget
<1>7. \A u \in Tasks : task'[u].pc \notin {"active", "clear"}
  BY <1>4, <1>6 DEF InRotation
<1>8. Blank.pending = Empty /\ Blank.active = Empty
  BY DEF Blank
\* What a login writes was received, and nobody has presented it.
<1>9. CASE StoreLogin(c) /\ ~Over(c)
  <2>1. /\ task[c].pc = "store" /\ staged' = 0 /\ slots[d].pending = Empty /\ enrolled \in {NoDevice, d}
        /\ slots' = [slots EXCEPT ![d].active = [gen |-> 1, pair |-> n]]
    BY <1>1, <1>2, <1>9 DEF StoreLogin, Memory
  <2>2. slots'[d].pending.pair = 0 /\ slots'[d].active.pair = n
    BY <1>3, <2>1, EmptyType
  <2>3. \A x \in Devices \ {d} : slots'[x].pending.pair = 0 /\ slots'[x].active.pair = 0
    BY <1>3, <1>5, <1>8, <2>1, EmptyType, AuthAssumption
  <2>4. InStore' \subseteq {0, n}
    BY <2>1, <2>2, <2>3 DEF InStore
  <2>5. Unspent(n)'
    BY <1>1, <1>2, <2>1 DEF FreshInv, Untouched, Unspent, Consumed, Asks
  <2>6. QED
    BY <1>7, <2>4, <2>5, OnlyKept
<1>10. CASE Enroll(c)
  <2>1. /\ task[c].pc = "enroll" /\ staged' = 0 /\ enrolled \in {NoDevice, d}
        /\ slots[d] = [pending |-> Empty, active |-> [gen |-> 1, pair |-> n]]
        /\ slots' = slots \/ slots' = [slots EXCEPT ![d] = Blank]
    BY <1>1, <1>2, <1>3, <1>10 DEF Enroll, Memory, Stage, Blank
  <2>2. slots'[d].pending.pair = 0 /\ slots'[d].active.pair \in {0, n}
    BY <1>3, <1>8, <2>1, EmptyType
  <2>3. \A x \in Devices \ {d} : slots[x] = Blank
    BY <1>2, <1>3, <1>4, <2>1, AuthAssumption DEF Bounded, Midway
  <2>4. \A x \in Devices \ {d} : slots'[x].pending.pair = 0 /\ slots'[x].active.pair = 0
    BY <1>3, <1>8, <2>1, <2>3, EmptyType
  <2>5. InStore' \subseteq {0, n}
    BY <2>1, <2>2, <2>4 DEF InStore
  <2>6. Unspent(n)'
    BY <1>1, <1>2, <2>1 DEF HeldInv, Unspent, Consumed, Asks
  <2>7. QED
    BY <1>7, <2>5, <2>6, OnlyKept
<1>11. CASE Forget(c) \/ Leave(c)
  <2>1. task[c].pc \in {"forget", "leave"} /\ staged' = 0 /\ UNCHANGED slots
    BY <1>3, <1>11 DEF Forget, Leave, Stage, Durable, Memory
  <2>2. slots[d] = Blank /\ enrolled \in {NoDevice, d}
    BY <1>2, <1>3, <2>1 DEF Stage
  <2>3. \A x \in Devices : slots'[x] = Blank
    BY <1>3, <1>5, <2>1, <2>2, AuthAssumption
  <2>4. InStore' \subseteq {0}
    BY <1>8, <2>1, <2>3, EmptyType DEF InStore
  <2>5. QED
    BY <1>7, <2>4, OnlyKept
\* Memory keeps what it holds.
<1>12. CASE Erase(c)
  <2>1. /\ task[c].pc = "erase" /\ UNCHANGED <<staged, enrolled, spoiled>> /\ enrolled \in {NoDevice, d}
        /\ slots' = [slots EXCEPT ![d] = Blank]
    <3>1. task[c].pc = "erase" /\ UNCHANGED <<staged, enrolled, spoiled>> /\ enrolled \in {NoDevice, d} /\ faults' = faults
      BY <1>1, <1>2, <1>12 DEF Erase, Memory
    <3>2. ~Fault(1)
      BY <1>1, <3>1 DEF Fault, RestType
    <3>3. QED
      BY <1>2, <1>12, <3>1, <3>2 DEF Erase, Blank
  <2>2. slots'[d] = Blank /\ \A x \in Devices \ {d} : slots'[x] = slots[x]
    BY <1>3, <2>1
  <2>3. InStore' \subseteq {staged, 0}
    <3>1. \A x \in Devices : slots'[x] = Blank
      BY <1>3, <1>5, <2>1, <2>2, AuthAssumption
    <3>2. QED
      BY <1>8, <2>1, <3>1, EmptyType DEF InStore
  <2>4. PICK m : m = staged
    OBVIOUS
  <2>5. m # 0 => Unspent(m)'
    <3>1. SUFFICES ASSUME m # 0 PROVE Unspent(m)
      BY <1>1 DEF Unspent, Consumed, Asks
    <3>2. \A u \in Tasks : ~Replaces(u) /\ task[u].pc # "rotating"
      BY <1>4, <2>1 DEF Replaces, InRotation
    <3>3. enrolled # NoDevice /\ Effective(enrolled) = m
      BY <1>3, <2>4, <3>1 DEF Bounded, Effective
    <3>4. AskedInRotation /\ Replaced
      BY <1>1, <2>1 DEF KeptInv
    <3>5. ~Consumed(m)
      BY <3>2, <3>3, <3>4 DEF Replaced
    <3>6. \A u \in Tasks : ~Asks(u, m)
      BY <2>4, <3>1, <3>2, <3>4 DEF AskedInRotation, InStore
    <3>7. QED
      BY <3>5, <3>6 DEF Unspent
  <2>6. QED
    BY <1>7, <2>3, <2>4, <2>5, OnlyKept
<1>13. QED
  BY <1>9, <1>10, <1>11, <1>12

LEMMA StepKept ==
  BaseInv /\ SectionInv /\ OwnedInv /\ FreshInv /\ HeldInv /\ KeptInv /\ [BrokerNext]_remotevars => KeptInv'
<1> SUFFICES ASSUME BaseInv, SectionInv, OwnedInv, FreshInv, HeldInv, KeptInv, [BrokerNext]_remotevars PROVE KeptInv'
  OBVIOUS
<1>1. BaseInv'
  BY StepBase
<1>2. ASSUME NEW c \in Tasks, BrokerStep(c) PROVE KeptInv'
  BY <1>1, <1>2, RequestKept, PendingKept, ActiveKept, LoginKept DEF BrokerStep
<1>3. QED
  BY <1>2, ServeKept, WorldKept DEF BrokerNext, ClientNext, Serve

LEMMA InitKept == BrokerInit => KeptInv
<1> SUFFICES ASSUME BrokerInit PROVE KeptInv
  OBVIOUS
<1>1. \A c \in Tasks : task[c].pc = "idle" /\ call[c].op # "refresh"
  BY NoTaskType, IdleType DEF BrokerInit, NoRows, Tasks
<1>2. QED
  BY <1>1 DEF KeptInv, AskedInRotation, Asks, Replaced, Newest, BrokerInit

LEMMA KeptInvariant ==
  BrokerSpec => [](BaseInv /\ SectionInv /\ OwnedInv /\ UnusedInv /\ FreshInv /\ HeldInv /\ KeptInv)
<1>1. BrokerInit => BaseInv /\ SectionInv /\ OwnedInv /\ UnusedInv /\ FreshInv /\ HeldInv /\ KeptInv
  BY InitBase, InitSection, InitOwned, InitUnused, InitFresh, InitHeld, InitKept
<1>2. /\ BaseInv /\ SectionInv /\ OwnedInv /\ UnusedInv /\ FreshInv /\ HeldInv /\ KeptInv
      /\ [BrokerNext]_remotevars
      => (BaseInv /\ SectionInv /\ OwnedInv /\ UnusedInv /\ FreshInv /\ HeldInv /\ KeptInv)'
  BY StepBase, StepSection, StepOwned, StepUnused, StepFresh, StepGood, StepKept
<1>3. QED
  BY <1>1, <1>2, PTL DEF BrokerSpec

\* The credential that would be presented next is never one the server has
\* consumed, whichever writes failed, whenever the client died and however many
\* tasks and devices there are, unless its replacement was lost.
THEOREM CredentialIsKept == BrokerSpec => []CredentialSurvives
<1>1. KeptInv => CredentialSurvives
  <2> SUFFICES ASSUME KeptInv, enrolled # NoDevice, Quiet, ~spoiled, ~muddled,
                      NEW n, n = Effective(enrolled), n # 0
               PROVE  pair[n].refresh # "consumed"
    BY DEF CredentialSurvives
  <2>1. \A c \in Tasks : ~Replaces(c)
    BY DEF Quiet, Replaces, InRotation
  <2>2. ~Consumed(n)
    BY <2>1 DEF KeptInv, Replaced
  <2>3. QED
    BY <2>2 DEF Consumed
<1>2. QED
  BY <1>1, KeptInvariant, PTL

-----------------------------------------------------------------------------
(* Without faults, and the server under the client. *)

\* Two tasks are never in a rotation at once: the lock is held from before the credential is read until
\* the session has the new token, whatever request, login or crash falls in between (remote.rs: refresh_lock).
THEOREM RotationsExclude == BrokerSpec => []OneRotation
<1>1. SectionInv => OneRotation
  BY DEF SectionInv
<1>2. QED
  BY <1>1, SectionInvariant, PTL

\* Only a fault spoils.
LEMMA SpoilsByFault ==
  ASSUME BaseInv, spoiled => faults > 0, [BrokerNext]_remotevars
  PROVE  spoiled' => faults' > 0
<1>0. faults \in Nat
  BY BrokerAssumption DEF BaseInv, BrokerTypeOK
<1>a. Fault(1) \/ Fault(2) => faults' > 0
  BY <1>0 DEF Fault
<1>b. \A x, y, z : IsFiniteSet({x, y, z})
  <2>1. ASSUME NEW x, NEW y, NEW z PROVE IsFiniteSet({x, y, z})
    <3>1. IsFiniteSet({} \cup {x})
      BY FS_EmptySet, FS_AddElement
    <3>2. IsFiniteSet(({} \cup {x}) \cup {y})
      BY <3>1, FS_AddElement
    <3>3. IsFiniteSet((({} \cup {x}) \cup {y}) \cup {z})
      BY <3>2, FS_AddElement
    <3>4. (({} \cup {x}) \cup {y}) \cup {z} = {x, y, z}
      OBVIOUS
    <3>5. QED
      BY <3>3, <3>4
  <2>2. QED
    BY <2>1
<1>1. CASE UNCHANGED <<faults, spoiled>>
  BY <1>1
<1>2. CASE Crash
  BY <1>0, <1>2 DEF Crash, Fault
<1>3. ASSUME NEW c \in Tasks, LoseAnswer(c)
      PROVE  spoiled' => faults' > 0
  BY <1>0, <1>3 DEF LoseAnswer, Fault
<1>4. ASSUME NEW c \in Tasks, WritePending(c), spoiled'
      PROVE  faults' > 0
  <2> DEFINE d == task[c].dev
  <2>2. d \in Devices /\ slots[d].active.gen \in Nat /\ slots[d].pending.gen \in Nat
    BY <1>4 DEF WritePending, BaseInv, Where, InRotation, BrokerTypeOK, Slot
  <2>3. PICK p \in {slots[d].pending.gen, 0}, a \in {slots[d].active.gen, 0}, ok \in BOOLEAN :
          /\ Fault(Cardinality({x \in {<<"p", p, slots[d].pending.gen>>,
                                       <<"a", a, slots[d].active.gen>>,
                                       <<"w", ok, TRUE>>} : x[2] # x[3]}))
          /\ spoiled' = \/ spoiled \/ ((IF p > a THEN p ELSE a) + 1) <= slots[d].active.gen
                        \/ ~ok /\ ((IF p > a THEN p ELSE a) + 1) <= slots[d].pending.gen
          /\ slots' = IF ok THEN [slots EXCEPT ![d].pending = [gen |-> ((IF p > a THEN p ELSE a) + 1), pair |-> task[c].new]]
                      ELSE slots
          /\ task' = [task EXCEPT ![c].pc = "active", ![c].stamp = ((IF p > a THEN p ELSE a) + 1), ![c].kept = ok]
    BY <1>4, Zenon DEF WritePending
  <2>4. PICK F : F = {x \in {<<"p", p, slots[d].pending.gen>>, <<"a", a, slots[d].active.gen>>, <<"w", ok, TRUE>>}
                        : x[2] # x[3]}
    OBVIOUS
  <2>5. IsFiniteSet(F) /\ Cardinality(F) \in Nat
    <3>1. IsFiniteSet({<<"p", p, slots[d].pending.gen>>, <<"a", a, slots[d].active.gen>>, <<"w", ok, TRUE>>})
      BY <1>b
    <3>2. QED
      BY <2>4, <3>1, FS_Subset, FS_CardinalityType
  <2>6. Fault(Cardinality(F))
    BY <2>3, <2>4, Zenon
  <2>7. CASE spoiled
    BY <1>0, <2>5, <2>6, <2>7 DEF Fault
  <2>8. CASE a # slots[d].active.gen \/ ok # TRUE
    <3>1. \/ <<"a", a, slots[d].active.gen>> \in F
          \/ <<"w", ok, TRUE>> \in F
      BY <2>4, <2>8
    <3>2. Cardinality(F) > 0
      BY <2>5, <3>1, FS_EmptySet
    <3>3. QED
      BY <1>0, <2>5, <2>6, <3>2 DEF Fault
  <2>9. CASE ~spoiled /\ a = slots[d].active.gen /\ ok = TRUE
    <3>1. (IF p > a THEN p ELSE a) + 1 <= slots[d].active.gen
      <4>1. \/ spoiled \/ ((IF p > a THEN p ELSE a) + 1) <= slots[d].active.gen
            \/ ~ok /\ ((IF p > a THEN p ELSE a) + 1) <= slots[d].pending.gen
        BY <1>4, <2>3, Zenon
      <4>2. QED
        BY <2>9, <4>1, Zenon
    <3>2. p \in Nat /\ a \in Nat
      BY <2>2
    <3>3. QED
      BY <2>2, <2>9, <3>1, <3>2
  <2>10. QED
    BY <2>7, <2>8, <2>9, Zenon
<1>5. ASSUME NEW c \in Tasks, WriteActive(c)
      PROVE  spoiled' => faults' > 0
  <2>1. \/ UNCHANGED <<faults, spoiled>>
        \/ Fault(1)
    BY <1>5 DEF WriteActive, NoFault
  <2>2. QED
    BY <1>a, <2>1
<1>6. ASSUME NEW c \in Tasks, StoreLogin(c)
      PROVE  spoiled' => faults' > 0
  <2>1. \/ faults' = faults /\ (spoiled' => spoiled)
        \/ Fault(1)
    BY <1>6, Zenon DEF StoreLogin, NoFault
  <2>2. QED
    BY <1>a, <2>1
<1>7. ASSUME NEW c \in Tasks, ClearPending(c) \/ Enroll(c) \/ Erase(c)
      PROVE  spoiled' => faults' > 0
  <2>1. UNCHANGED spoiled /\ (faults' = faults \/ Fault(1) \/ Fault(2))
    BY <1>7 DEF ClearPending, Enroll, Erase, NoFault
  <2>2. QED
    BY <1>a, <2>1
<1>8. ASSUME NEW c \in Tasks, BrokerStep(c)
      PROVE  spoiled' => faults' > 0
  <2>1. CASE Begin(c) \/ GetToken(c) \/ Send(c) \/ GetAnswer(c) \/ Discard(c)
    BY <1>1, <2>1 DEF Begin, GetToken, Send, GetAnswer, Discard, Ghosts, brokervars
  <2>2. CASE TakeLock(c) \/ Present(c) \/ Rotated(c) \/ SetSession(c)
    BY <1>1, <2>2 DEF TakeLock, Rotates, Present, Rotated, SetSession, Ghosts
  <2>3. CASE BeginLogin(c) \/ LoggedIn(c) \/ Welcome(c) \/ Forget(c) \/ Leave(c)
    BY <1>1, <2>3 DEF BeginLogin, LoggedIn, Welcome, Forget, Leave, Ghosts
  <2>4. QED
    BY <1>3, <1>4, <1>5, <1>6, <1>7, <1>8, <2>1, <2>2, <2>3 DEF BrokerStep
<1>9. CASE SessionAges \/ Serve \/ RevokedElsewhere \/ Expires \/ UNCHANGED remotevars
  BY <1>1, <1>9 DEF SessionAges, Serve, RevokedElsewhere, Expires, brokervars, remotevars, Ghosts
<1>10. QED
  BY <1>2, <1>8, <1>9 DEF BrokerNext, ClientNext

\* While no call of the credential store has failed, no answer was lost and the client has not died, the
\* credential it would present next is good: what the property above leaves out are faults and logins or
\* logouts that overlapped, never an order of the writes alone (remote.rs: rotate_refresh, force_rotate_locked).
THEOREM OnlyFaultsLose ==
  BrokerSpec => [](enrolled # NoDevice /\ Quiet /\ faults = 0 /\ ~muddled
                     => LET n == Effective(enrolled) IN n # 0 => pair[n].refresh # "consumed")
<1>1. BrokerInit => (spoiled => faults > 0)
  BY DEF BrokerInit
<1>2. BaseInv /\ (spoiled => faults > 0) /\ [BrokerNext]_remotevars => (spoiled => faults > 0)'
  BY SpoilsByFault
<1>3. BrokerSpec => [](spoiled => faults > 0)
  BY <1>1, <1>2, BaseInvariant, PTL DEF BrokerSpec
<1>4. CredentialSurvives /\ (spoiled => faults > 0)
        => (enrolled # NoDevice /\ Quiet /\ faults = 0 /\ ~muddled
              => LET n == Effective(enrolled) IN n # 0 => pair[n].refresh # "consumed")
  BY DEF CredentialSurvives
<1>5. QED
  BY <1>3, <1>4, CredentialIsKept, PTL

\* The server keeps its own promises under this client, whose requests are only some of those any client may
\* make: one owner, one replacement for one credential, no way in for a device that was revoked before
\* (remote_auth.py:177, 353-361, 431-460).
THEOREM ServerKeptUnderClient ==
  BrokerSpec => [](OneOwner /\ ReplacedOnce /\ RevokedStaysOut) /\ NoPairForRevoked
<1>1. BaseInv => OneOwner /\ ReplacedOnce /\ RevokedStaysOut
  BY BaseFacts DEF AuthInv, Found, RevokedStaysOut
<1>2. ASSUME BaseInv, [BrokerNext]_remotevars, NEW t \in AuthThreads,
             At(t, "refresh", "write"), call'[t].answer = "ok"
      PROVE  device[call[t].dev].state = "active"
  <2>1. AuthInv
    BY <1>2, BaseFacts
  <2>2. /\ AuthTypeOK /\ Found(t) /\ call[t].op = "refresh" /\ call[t].step = "write"
        /\ call[t].answer = "none"
    BY <1>2, <2>1 DEF AuthInv, At, Found
  <2>3. call'[t] # call[t]
    BY <1>2, <2>2
  <2>4. CASE UNCHANGED call
    BY <2>3, <2>4
  <2>5. ASSUME NEW c \in Tasks, Handle(c) PROVE device[call[t].dev].state = "active"
    <3>1. c = t
      <4>1. c # t => call'[t] = call[t]
        BY <2>2, <2>5, OthersStay DEF Tasks
      <4>2. QED
        BY <2>3, <4>1
    <3>2. RefreshConsume(t)
      BY <2>2, <2>5, <3>1
         DEF Handle, At, BootstrapCheck, BootstrapInsert, LoginRead, LoginIssue, RefreshRead, Authenticate, Revoke
    <3>3. pair[call[t].pair].refresh = "live"
      BY <1>2, <2>2, <3>2 DEF RefreshConsume, Answer, AuthTypeOK, Call
    <3>4. Active(call[t].dev)
      BY <1>2, <2>2, <3>3 DEF Found
    <3>5. QED
      BY <3>4 DEF Active
  <2>6. ASSUME NEW c \in Tasks, BrokerStep(c), ~UNCHANGED call PROVE FALSE
    <3>1. \/ \E op, name, d, n : Ask(c, op, name, d, n)
          \/ Hear(c)
      BY <2>6 DEF BrokerStep, authvars, Begin, GetToken, Send, GetAnswer, LoseAnswer, Discard, TakeLock, Present,
                  Rotated, WritePending, WriteActive, ClearPending, SetSession, BeginLogin, LoggedIn, StoreLogin,
                  Enroll, Welcome, Erase, Forget, Leave
    <3>2. c # t => call'[t] = call[t]
      BY <3>1, <2>2 DEF Ask, Hear, AuthTypeOK
    <3>3. c = t => FALSE
      BY <3>1, <2>2 DEF Ask, Hear
    <3>4. QED
      BY <2>3, <3>2, <3>3
  <2>7. QED
    BY <1>2, <2>4, <2>5, <2>6
       DEF BrokerNext, ClientNext, SessionAges, Crash, Serve, RevokedElsewhere, Expires, AccessExpires,
           authvars, remotevars, Tasks
<1>3. BaseInv /\ [BrokerNext]_remotevars
        => [\A t \in AuthThreads : At(t, "refresh", "write") /\ call'[t].answer = "ok"
                                    => device[call[t].dev].state = "active"]_authvars
  BY <1>2
<1>4. QED
  BY <1>1, <1>3, BaseInvariant, PTL DEF BrokerSpec, NoPairForRevoked
=============================================================================
