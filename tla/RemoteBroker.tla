---------------------------- MODULE RemoteBroker ----------------------------
(***************************************************************************)
(* The desktop client's session with a remote server (remote.rs) over the  *)
(* server of RemoteAuth.                                                   *)
(*                                                                         *)
(* The access token lives in memory.  The refresh credential is stored for *)
(* the device in two slots, "pending" and "active", each stamped with a    *)
(* generation, and in memory when neither slot could be written.  A        *)
(* rotation runs under refresh_lock; a login and a logout do not take it.  *)
(*                                                                         *)
(* A task of the client has at most one request at the server, so tasks    *)
(* and the server's threads share their names.  A request or its answer    *)
(* may be lost; a request whose answer is lost is still handled.           *)
(***************************************************************************)
EXTENDS RemoteAuth

CONSTANT MaxFaults \* failed calls of the credential store, answers lost and
                   \* crashes of the client, together (bound)

ASSUME BrokerAssumption == MaxFaults \in Nat

VARIABLES
  slots,     \* device -> what the store holds, per slot [gen, pair]
  enrolled,  \* device of the enrollment file
  session,   \* RemoteSession: [pair, gen, old]; pair 0 is "none"
  staged,    \* pending_refresh: the credential held in memory, or 0
  denied,    \* refresh_denied
  task,      \* task -> where it stands and its locals
  faults,    \* faults so far
  spoiled,   \* a rotated credential was lost (its answer, or its only copy), or what it
             \* replaces is left in front of it (a slot that could not be read, memory)
  muddled    \* a login or logout ran beside another one or a rotation, or over
             \* leftovers, or a rotation for another device than the enrolled one

brokervars == <<slots, enrolled, session, staged, denied, task, faults, spoiled, muddled>>
remotevars == <<authvars, brokervars>>

Tasks == AuthThreads
Slot == [gen : Nat, pair : 0 .. MaxPairs]
Empty == [gen |-> 0, pair |-> 0]
NoSession == [pair |-> 0, gen |-> 0, old |-> FALSE]

InRotation == {"present", "rotating", "pending", "active", "clear", "session"}
InLogin == {"login", "store", "enroll", "welcome"}
InLogout == {"erase", "forget", "leave"}
Midway == {"enroll", "welcome", "forget", "leave"}  \* parts of a login or logout are done
Task == [pc       : {"idle", "token", "snapshot", "sent", "lock"}
                    \cup InRotation \cup InLogin \cup InLogout,
         op       : {"none", "use", "revoke", "login"},
         dev      : Devices \cup {NoDevice},  \* the enrollment it loaded
         sent     : 0 .. MaxPairs,            \* access token to send, or sent
         gen      : Nat,                      \* access_snapshot
         rejected : 0 .. MaxPairs,            \* access token answered with 401
         new      : 0 .. MaxPairs,            \* pair just received
         stamp    : Nat,                      \* generation of its envelope
         kept     : BOOLEAN]                  \* pending_ok

NoTask == [pc |-> "idle", op |-> "none", dev |-> NoDevice, sent |-> 0, gen |-> 0,
           rejected |-> 0, new |-> 0, stamp |-> 0, kept |-> FALSE]

BrokerTypeOK == /\ AuthTypeOK
                /\ slots \in [Devices -> [pending : Slot, active : Slot]]
                /\ enrolled \in Devices \cup {NoDevice}
                /\ session \in [pair : 0 .. MaxPairs, gen : Nat, old : BOOLEAN]
                /\ staged \in 0 .. MaxPairs
                /\ task \in [Tasks -> Task]
                /\ denied \in BOOLEAN /\ spoiled \in BOOLEAN /\ muddled \in BOOLEAN
                /\ faults \in 0 .. MaxFaults

\* The server's owner is configured, nobody has logged in.
BrokerInit == /\ NoRows /\ owners = 1 /\ welcomed = 1
              /\ slots = [d \in Devices |-> [pending |-> Empty, active |-> Empty]]
              /\ enrolled = NoDevice
              /\ session = NoSession
              /\ staged = 0
              /\ task = [c \in Tasks |-> NoTask]
              /\ denied = FALSE /\ spoiled = FALSE /\ muddled = FALSE
              /\ faults = 0

-----------------------------------------------------------------------------
(* Helpers. *)

Server == <<owners, device, pair, welcomed>>
Durable == <<slots, enrolled>>
Memory == <<session, staged, denied>>
Ghosts == <<faults, spoiled, muddled>>

To(c, pc) == task' = [task EXCEPT ![c].pc = pc]
\* A request is over; a logout goes on whatever became of its revocation.
Over(c) == task' = [task EXCEPT ![c] = IF @.op = "revoke"
                                       THEN [NoTask EXCEPT !.pc = "erase", !.dev = task[c].dev]
                                       ELSE NoTask]
\* The first attempt was answered with 401, the second has no token yet.
Retrying(c) == task[c].rejected # 0 /\ task[c].rejected = task[c].sent
Fault(n) == faults + n <= MaxFaults /\ faults' = faults + n
NoFault == faults' = faults
Beside(c) == \E u \in Tasks \ {c} : task[u].pc \in InRotation \cup Midway
\* A rotation begins; it muddles if a login or logout is under way.
Rotates(c) == muddled' = \/ muddled
                         \/ task'[c].pc = "present" /\ \E u \in Tasks : task[u].pc \in Midway
Hear(c) == call[c].step = "answered" /\ call' = [call EXCEPT ![c] = Idle]

\* Mutant of Effective: the active slot is the committed one.
EffectiveActive(d) ==
  IF staged # 0 THEN staged
  ELSE IF slots[d].active.pair # 0 THEN slots[d].active.pair ELSE slots[d].pending.pair

\* read_effective_refresh: memory, else the slot of the higher generation, and
\* the pending one of two equal.
Effective(d) ==
  LET p == slots[d].pending
      a == slots[d].active IN
  IF staged # 0 THEN staged
  ELSE IF a.pair # 0 /\ (p.pair = 0 \/ a.gen > p.gen) THEN a.pair ELSE p.pair

-----------------------------------------------------------------------------
(* A request to the business API, and the revocation of a logout. *)

\* A request of the user interface; it needs an enrollment.
Begin(c) ==
  /\ task[c].pc = "idle"
  /\ enrolled # NoDevice
  /\ \/ \E op \in {"use", "revoke"} :
          task' = [task EXCEPT ![c] = [NoTask EXCEPT !.pc = "token", !.op = op,
                                                     !.dev = enrolled]]
     \/ task' = [task EXCEPT ![c] = [NoTask EXCEPT !.pc = "erase", !.dev = enrolled]]
  /\ UNCHANGED <<authvars, Durable, Memory, Ghosts>>

\* get_session_token: the token in memory unless it is missing or about to expire.
GetToken(c) ==
  /\ task[c].pc = "token"
  /\ task' = IF session.pair # 0 /\ ~session.old
             THEN [task EXCEPT ![c].pc = "snapshot", ![c].sent = session.pair]
             ELSE [task EXCEPT ![c].pc = "lock", ![c].sent = 0]
  /\ UNCHANGED <<authvars, Durable, Memory, Ghosts>>

\* token_snapshot, and the request leaves; it may fail to.
Send(c) ==
  /\ task[c].pc = "snapshot"
  /\ \/ /\ Ask(c, task[c].op, Idle.name, task[c].dev, task[c].sent)
        /\ task' = [task EXCEPT ![c].pc = "sent", ![c].gen = session.gen]
     \/ Over(c) /\ UNCHANGED call
  /\ UNCHANGED <<Server, Durable, Memory, Ghosts>>

\* send_with_auth: the first 401 leads to refresh_after_401, the second is final.
GetAnswer(c) ==
  /\ task[c].pc = "sent"
  /\ Hear(c)
  /\ IF call[c].answer = "401" /\ task[c].rejected = 0
     THEN task' = [task EXCEPT ![c].pc = "lock", ![c].rejected = task[c].sent]
     ELSE Over(c)
  /\ UNCHANGED <<Server, Durable, Memory, Ghosts>>

\* The answer is lost; the server may still be at work.
LoseAnswer(c) ==
  /\ task[c].pc \in {"sent", "rotating", "login"}
  /\ Fault(1) /\ Over(c)
  /\ spoiled' = (spoiled \/ task[c].pc = "rotating")
  /\ UNCHANGED <<authvars, Durable, Memory, muddled>>

\* An answer nobody waits for.
Discard(c) ==
  /\ task[c].pc \notin {"sent", "rotating", "login"}
  /\ Hear(c)
  /\ UNCHANGED <<Server, brokervars>>

-----------------------------------------------------------------------------
(* Rotation, under refresh_lock. *)

\* Mutant of TakeLock: tasks do not wait for one another.
TakeNoLock(c) ==
  /\ task[c].pc = "lock"
  /\ To(c, "present") /\ Rotates(c)
  /\ UNCHANGED <<authvars, Durable, Memory, faults, spoiled>>

\* Mutant of TakeLock: a token of the same generation is taken for a newer one.
TakeLockSame(c) ==
  /\ task[c].pc = "lock"
  /\ \A u \in Tasks : task[u].pc \notin InRotation
  /\ task' = IF Retrying(c) /\ session.pair # 0 /\ session.gen >= task[c].gen
             THEN [task EXCEPT ![c].pc = "token"]
             ELSE [task EXCEPT ![c].pc = "present"]
  /\ Rotates(c)
  /\ UNCHANGED <<authvars, Durable, Memory, faults, spoiled>>

\* refresh_session_token and refresh_after_401: with the lock, look again whether
\* another task has renewed the token.
TakeLock(c) ==
  /\ task[c].pc = "lock"
  /\ \A u \in Tasks : task[u].pc \notin InRotation
  /\ task' = IF Retrying(c) /\ session.gen > task[c].gen
             THEN [task EXCEPT ![c].pc = "token", ![c].gen = 0]
             ELSE IF ~Retrying(c) /\ session.pair # 0 /\ ~session.old
             THEN [task EXCEPT ![c].pc = "snapshot", ![c].sent = session.pair]
             ELSE [task EXCEPT ![c].pc = "present"]
  /\ Rotates(c)
  /\ UNCHANGED <<authvars, Durable, Memory, faults, spoiled>>

\* force_rotate_locked: the credential is read and presented.  The check of the
\* server's identity, the store or the network may fail before it leaves.
Present(c) ==
  LET n == Effective(task[c].dev) IN
  /\ task[c].pc = "present"
  /\ \/ Over(c) /\ UNCHANGED <<call, muddled>>
     \/ /\ n # 0 /\ Ask(c, "refresh", Idle.name, task[c].dev, n) /\ To(c, "rotating")
        /\ muddled' = (muddled \/ task[c].dev # enrolled)
  /\ UNCHANGED <<Server, Durable, Memory, faults, spoiled>>

Rotated(c) ==
  /\ task[c].pc = "rotating"
  /\ Hear(c)
  /\ denied' = (call[c].answer = "401")
  /\ IF call[c].answer = "ok"
     THEN task' = [task EXCEPT ![c].pc = "pending", ![c].new = call[c].pair]
     ELSE Over(c)
  /\ UNCHANGED <<Server, Durable, session, staged, Ghosts>>

\* rotate_refresh: one generation past the slots that can be read, written to the
\* pending slot first.
WritePending(c) ==
  LET d == task[c].dev IN
  /\ task[c].pc = "pending"
  /\ \E p \in {slots[d].pending.gen, 0}, a \in {slots[d].active.gen, 0}, ok \in BOOLEAN :
       LET stamp == (IF p > a THEN p ELSE a) + 1 IN
       /\ Fault(Cardinality({x \in {<<"p", p, slots[d].pending.gen>>,
                                    <<"a", a, slots[d].active.gen>>,
                                    <<"w", ok, TRUE>>} : x[2] # x[3]}))
       /\ spoiled' = \/ spoiled \/ stamp <= slots[d].active.gen
                     \/ ~ok /\ stamp <= slots[d].pending.gen
       /\ slots' = IF ok THEN [slots EXCEPT ![d].pending = [gen |-> stamp, pair |-> task[c].new]]
                   ELSE slots
       /\ task' = [task EXCEPT ![c].pc = "active", ![c].stamp = stamp, ![c].kept = ok]
  /\ UNCHANGED <<authvars, enrolled, Memory, muddled>>

\* ... then to the active slot; if neither could be written, to memory.  If only the
\* pending slot could be, memory keeps what it holds.
WriteActive(c) ==
  LET d == task[c].dev IN
  /\ task[c].pc = "active"
  /\ \/ /\ NoFault /\ To(c, "clear") /\ UNCHANGED <<staged, spoiled>>
        /\ slots' = [slots EXCEPT ![d].active = [gen |-> task[c].stamp, pair |-> task[c].new]]
     \/ /\ Fault(1) /\ To(c, "session") /\ UNCHANGED slots
        /\ staged' = IF task[c].kept THEN staged ELSE task[c].new
        /\ spoiled' = (spoiled \/ (task[c].kept /\ staged # 0))
  /\ UNCHANGED <<authvars, enrolled, session, denied, muddled>>

\* Mutant of ClearPending: what memory holds stays.
ClearPendingOnly(c) ==
  LET d == task[c].dev IN
  /\ task[c].pc = "clear"
  /\ slots' = [slots EXCEPT ![d].pending = Empty]
  /\ To(c, "session")
  /\ UNCHANGED <<authvars, enrolled, Memory, Ghosts>>

\* ... then the pending slot is cleared, or overwritten if it cannot be, and
\* memory is cleared.
ClearPending(c) ==
  LET d == task[c].dev IN
  /\ task[c].pc = "clear"
  /\ \/ NoFault /\ slots' = [slots EXCEPT ![d].pending = Empty]
     \/ Fault(1) /\ slots' = [slots EXCEPT ![d].pending = [gen |-> task[c].stamp,
                                                           pair |-> task[c].new]]
     \/ Fault(2) /\ UNCHANGED slots
  /\ staged' = 0
  /\ To(c, "session")
  /\ UNCHANGED <<authvars, enrolled, session, denied, spoiled, muddled>>

\* set_session; the lock is released.  A credential that is only in memory fails
\* the request, a retry starts over, another request goes on with the token.
SetSession(c) ==
  LET n == task[c].new IN
  /\ task[c].pc = "session"
  /\ session' = [pair |-> n, gen |-> session.gen + 1, old |-> FALSE]
  /\ IF staged = n THEN Over(c)
     ELSE task' = [task EXCEPT ![c].pc = IF Retrying(c) THEN "token" ELSE "snapshot",
                               ![c].sent = n, ![c].gen = 0, ![c].new = 0,
                               ![c].stamp = 0, ![c].kept = FALSE]
  /\ UNCHANGED <<authvars, Durable, staged, denied, Ghosts>>

-----------------------------------------------------------------------------
(* Login. *)

BeginLogin(c) ==
  /\ task[c].pc = "idle"
  /\ Ask(c, "login", Idle.name, NoDevice, 0)
  /\ task' = [task EXCEPT ![c] = [NoTask EXCEPT !.pc = "login", !.op = "login"]]
  /\ UNCHANGED <<Server, Durable, Memory, Ghosts>>

LoggedIn(c) ==
  /\ task[c].pc = "login"
  /\ Hear(c)
  /\ IF call[c].answer = "ok"
     THEN task' = [task EXCEPT ![c].pc = "store", ![c].dev = call[c].dev,
                               ![c].new = call[c].pair]
     ELSE Over(c)
  /\ UNCHANGED <<Server, Durable, Memory, Ghosts>>

\* The active slot is written with generation 1; the pending slot and memory are
\* not looked at.
StoreLogin(c) ==
  LET d == task[c].dev
      leftovers == staged # 0 \/ slots[d].pending # Empty \/ enrolled \notin {NoDevice, d} IN
  /\ task[c].pc = "store"
  /\ \/ /\ NoFault /\ To(c, "enroll")
        /\ slots' = [slots EXCEPT ![d].active = [gen |-> 1, pair |-> task[c].new]]
        /\ spoiled' = (spoiled /\ leftovers)
     \/ Fault(1) /\ Over(c) /\ UNCHANGED <<slots, spoiled>>
  /\ muddled' = (muddled \/ leftovers \/ Beside(c))
  /\ UNCHANGED <<authvars, enrolled, Memory>>

\* The enrollment is saved; if that fails the secret is deleted, unless that fails too.
Enroll(c) ==
  LET d == task[c].dev IN
  /\ task[c].pc = "enroll"
  /\ \/ NoFault /\ enrolled' = d /\ To(c, "welcome") /\ UNCHANGED <<slots, muddled>>
     \/ /\ Over(c) /\ UNCHANGED enrolled
        /\ \/ /\ Fault(1) /\ UNCHANGED muddled
              /\ slots' = [slots EXCEPT ![d] = [pending |-> Empty, active |-> Empty]]
           \/ /\ Fault(2) /\ muddled' = TRUE
              /\ slots' \in {slots, [slots EXCEPT ![d].active = Empty]}
  /\ UNCHANGED <<authvars, Memory, spoiled>>

Welcome(c) ==
  /\ task[c].pc = "welcome"
  /\ denied' = FALSE
  /\ session' = [pair |-> task[c].new, gen |-> session.gen + 1, old |-> FALSE]
  /\ Over(c)
  /\ UNCHANGED <<authvars, Durable, staged, Ghosts>>

-----------------------------------------------------------------------------
(* Logout, after the revocation. *)

\* Mutant of Erase: the store is not asked to delete anything.
EraseNothing(c) ==
  /\ task[c].pc = "erase"
  /\ To(c, "forget")
  /\ muddled' = (muddled \/ Beside(c))
  /\ UNCHANGED <<authvars, Durable, Memory, faults, spoiled>>

\* delete_refresh: both slots; a failure is ignored and may leave either.
Erase(c) ==
  LET d == task[c].dev IN
  /\ task[c].pc = "erase"
  /\ \/ NoFault /\ slots' = [slots EXCEPT ![d] = [pending |-> Empty, active |-> Empty]]
     \/ Fault(1) /\ slots' \in {slots, [slots EXCEPT ![d].active = Empty]}
  /\ To(c, "forget")
  /\ muddled' = (muddled \/ Beside(c) \/ faults' # faults \/ enrolled \notin {NoDevice, d})
  /\ UNCHANGED <<authvars, enrolled, Memory, spoiled>>

Forget(c) ==
  /\ task[c].pc = "forget"
  /\ staged' = 0 /\ denied' = FALSE /\ session' = NoSession
  /\ To(c, "leave")
  /\ UNCHANGED <<authvars, Durable, Ghosts>>

Leave(c) ==
  /\ task[c].pc = "leave"
  /\ enrolled' = NoDevice
  /\ task' = [task EXCEPT ![c] = NoTask]
  /\ UNCHANGED <<authvars, slots, Memory, Ghosts>>

-----------------------------------------------------------------------------
(* The environment, and the specification. *)

\* The access token comes within the grace period of its expiry.
SessionAges == /\ session.pair # 0 /\ ~session.old
               /\ session' = [session EXCEPT !.old = TRUE]
               /\ UNCHANGED <<authvars, Durable, staged, denied, task, Ghosts>>

\* The process dies.  A credential that was received, or issued to it, and is in
\* no slot is lost; a login may leave a secret without an enrollment.
Crash ==
  /\ Fault(1)
  /\ spoiled' = \/ spoiled \/ staged # 0
                \/ \E c \in Tasks : \/ task[c].pc \in {"rotating", "pending"}
                                    \/ task[c].pc = "active" /\ ~task[c].kept
  /\ muddled' = (muddled \/ \E c \in Tasks : task[c].pc = "enroll")
  /\ session' = NoSession /\ staged' = 0 /\ denied' = FALSE
  /\ task' = [c \in Tasks |-> NoTask]
  /\ UNCHANGED <<authvars, Durable>>

\* The owner revokes the device from another one (Revoke of that device's request).
RevokedElsewhere == /\ \E d \in Devices : Active(d) /\ RevokeRows(d)
                    /\ UNCHANGED <<owners, call, welcomed, brokervars>>

Expires == (\E n \in Pairs : AccessExpires(n)) /\ UNCHANGED brokervars

\* The server at work; its owner was configured before.
Serve == (\E c \in Tasks : Handle(c)) /\ UNCHANGED brokervars

BrokerStep(c) ==
  \/ Begin(c) \/ GetToken(c) \/ Send(c) \/ GetAnswer(c) \/ LoseAnswer(c) \/ Discard(c)
  \/ TakeLock(c) \/ Present(c) \/ Rotated(c)
  \/ WritePending(c) \/ WriteActive(c) \/ ClearPending(c) \/ SetSession(c)
  \/ BeginLogin(c) \/ LoggedIn(c) \/ StoreLogin(c) \/ Enroll(c) \/ Welcome(c)
  \/ Erase(c) \/ Forget(c) \/ Leave(c)

ClientNext == (\E c \in Tasks : BrokerStep(c)) \/ SessionAges \/ Crash \/ Serve

BrokerNext == ClientNext \/ RevokedElsewhere \/ Expires

BrokerSpec == BrokerInit /\ [][BrokerNext]_remotevars

-----------------------------------------------------------------------------
(* Properties. *)

Quiet == \A c \in Tasks : task[c].pc \notin InRotation \cup InLogin \cup InLogout

\* Whatever crashed and whichever writes of the store failed, the credential the
\* client would present next is not one the server has consumed, unless its
\* replacement was lost (remote.rs:162-172, 1475-1540).
CredentialSurvives ==
  enrolled # NoDevice /\ Quiet /\ ~spoiled /\ ~muddled
    => LET n == Effective(enrolled) IN n # 0 => pair[n].refresh # "consumed"

\* The client reports an expired login only when the server refuses the very
\* credential it holds: two tasks never present one credential
\* (remote.rs:1651-1684, 2637-2641).
DeniedIsReal ==
  enrolled # NoDevice /\ Quiet /\ ~muddled /\ denied
    => LET n == Effective(enrolled) IN n # 0 => pair[n].refresh # "live" \/ ~Active(enrolled)

\* A retry after a 401 never sends the token that was just rejected, whichever
\* task has rotated meanwhile (remote.rs:1663-1684).
RejectedNotResent ==
  \A c \in Tasks : task[c].pc \in {"snapshot", "sent"} /\ task[c].rejected # 0
                   => task[c].sent # task[c].rejected

\* After a logout nothing of the session is left, in the store or in memory, even
\* if the client died in it or other tasks were running (remote.rs:2679-2719).
LogoutErases ==
  enrolled = NoDevice /\ Quiet /\ ~muddled
    => /\ session = NoSession /\ staged = 0
       /\ \A d \in Devices : slots[d] = [pending |-> Empty, active |-> Empty]
=============================================================================
