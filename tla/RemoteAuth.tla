----------------------------- MODULE RemoteAuth -----------------------------
(***************************************************************************)
(* The server's owner, devices and their tokens (pg_api/remote_auth.py),   *)
(* in remote mode.                                                         *)
(*                                                                         *)
(* Each request runs on a thread of the pool.  Its reads take no lock and  *)
(* see whatever is committed; its writes are one transaction that excludes *)
(* every other writer from its first statement to its commit.  A request   *)
(* is therefore a reading step and a writing step, and any other request   *)
(* may commit in between.  Two reads in a row are one step: the row read   *)
(* last (the device) decides, and it only ever goes from active to revoked.*)
(*                                                                         *)
(* A pair stands for the access and the refresh token issued together.     *)
(* Passwords, names of platforms, the audit log and the window of the rate *)
(* limiter are left out; a request may be refused by the limiter.          *)
(***************************************************************************)
EXTENDS Naturals, FiniteSets

CONSTANTS
  AuthThreads,  \* request threads
  Devices,      \* ids of DeviceModel, never drawn twice
  DeviceNames,  \* names a login may give
  MaxPairs,     \* token pairs issued (bound)
  NoDevice      \* "no device"

ASSUME AuthAssumption == MaxPairs \in Nat /\ NoDevice \notin Devices /\ DeviceNames # {}

VARIABLES
  owners,   \* number of OwnerModel rows
  device,   \* id -> DeviceModel row
  pair,     \* number -> the access and refresh rows issued together
  call,     \* thread -> the request it handles
  welcomed  \* number of bootstraps answered with success

authvars == <<owners, device, pair, call, welcomed>>

Pairs == 1 .. MaxPairs
TokenStates == {"none", "live", "expired", "consumed", "deleted"}
DeviceRow == [state : {"absent", "active", "revoked"}, name : DeviceNames]
PairRow == [dev    : Devices \cup {NoDevice},
            access  : TokenStates \ {"consumed"},
            refresh : TokenStates,
            parent  : 0 .. MaxPairs]       \* the credential it replaces (replaced_by)

NoPairRow == [dev |-> NoDevice, access |-> "none", refresh |-> "none", parent |-> 0]

Ops == {"bootstrap", "login", "refresh", "revoke", "use"}
Answers == {"none", "ok", "401", "403", "404", "409", "429"}

Call == [op     : Ops \cup {"none"},
         step   : {"free", "arrived", "write", "answered"},
         name   : DeviceNames,             \* login: the device's name
         dev    : Devices \cup {NoDevice}, \* the device asked for, or found
         pair   : 0 .. MaxPairs,           \* the pair presented, then the one issued
         answer : Answers,
         out    : SUBSET Devices]          \* devices revoked before it arrived

Idle == [op |-> "none", step |-> "free", name |-> CHOOSE x \in DeviceNames : TRUE,
         dev |-> NoDevice, pair |-> 0, answer |-> "none", out |-> {}]

AuthTypeOK == /\ owners \in Nat
              /\ device \in [Devices -> DeviceRow]
              /\ pair \in [Pairs -> PairRow]
              /\ call \in [AuthThreads -> Call]
              /\ welcomed \in Nat

NoRows ==
  /\ device = [d \in Devices |-> [state |-> "absent", name |-> Idle.name]]
  /\ pair = [n \in Pairs |-> NoPairRow]
  /\ call = [t \in AuthThreads |-> Idle]

AuthInit == NoRows /\ owners = 0 /\ welcomed = 0

-----------------------------------------------------------------------------
(* Helpers. *)

Active(d) == d \in Devices /\ device[d].state = "active"
Gone == {d \in Devices : device[d].state = "revoked"}
Fresh == {n \in Pairs : pair[n].dev = NoDevice}
At(t, op, step) == call[t].op = op /\ call[t].step = step

Proceed(t, d) == call' = [call EXCEPT ![t].step = "write", ![t].dev = d]
Answer(t, a) == call' = [call EXCEPT ![t].step = "answered", ![t].answer = a]

\* _issue_token_pair, in the caller's transaction over the rows "rows": the next
\* number is drawn and answered.
IssuePair(t, d, old, rows) ==
  \E n \in Fresh :
    /\ \A m \in Fresh : n <= m
    /\ pair' = [rows EXCEPT ![n] = [dev |-> d, access |-> "live", refresh |-> "live",
                                    parent |-> old]]
    /\ call' = [call EXCEPT ![t].step = "answered", ![t].answer = "ok",
                            ![t].dev = d, ![t].pair = n]

\* A request arrives.
Ask(t, op, name, d, n) ==
  /\ call[t].step = "free"
  /\ call' = [call EXCEPT ![t] = [op |-> op, step |-> "arrived", name |-> name, dev |-> d,
                                  pair |-> n, answer |-> "none", out |-> Gone]]

-----------------------------------------------------------------------------
(* The owner. *)

\* owner_bootstrap up to the insert: refused when an owner is configured, when
\* the bootstrap token is wrong, or by the limiter.
BootstrapCheck(t) ==
  /\ At(t, "bootstrap", "arrived")
  /\ \/ owners > 0 /\ Answer(t, "409")
     \/ owners = 0 /\ Answer(t, "403")
     \/ owners = 0 /\ Proceed(t, NoDevice)
  /\ UNCHANGED <<owners, device, pair, welcomed>>

\* Mutant of BootstrapInsert: no unique index on the marker.
BootstrapInsertTwice(t) ==
  /\ At(t, "bootstrap", "write")
  /\ owners' = owners + 1 /\ welcomed' = welcomed + 1 /\ Answer(t, "ok")
  /\ UNCHANGED <<device, pair>>

\* ... the insert: the unique marker lets one row in.
BootstrapInsert(t) ==
  /\ At(t, "bootstrap", "write")
  /\ IF owners = 0
     THEN owners' = 1 /\ welcomed' = welcomed + 1 /\ Answer(t, "ok")
     ELSE Answer(t, "409") /\ UNCHANGED <<owners, welcomed>>
  /\ UNCHANGED <<device, pair>>

-----------------------------------------------------------------------------
(* Devices. *)

\* owner_login: refused for a wrong password or by the limiter; else an unrevoked
\* device of the name is looked up.
LoginRead(t) ==
  LET named == {d \in Devices : Active(d) /\ device[d].name = call[t].name} IN
  /\ At(t, "login", "arrived")
  /\ \/ Answer(t, "401")
     \/ owners > 0 /\ \E d \in IF named = {} THEN {NoDevice} ELSE named : Proceed(t, d)
  /\ UNCHANGED <<owners, device, pair, welcomed>>

\* ... and the pair is issued, to a new row if none was found.  Nothing looks at
\* the row again.
LoginIssue(t) ==
  /\ At(t, "login", "write")
  /\ \E d \in Devices :
       /\ IF call[t].dev # NoDevice
          THEN d = call[t].dev /\ UNCHANGED device
          ELSE /\ device[d].state = "absent"
               /\ device' = [device EXCEPT ![d] = [state |-> "active", name |-> call[t].name]]
       /\ IssuePair(t, d, 0, pair)
  /\ UNCHANGED <<owners, welcomed>>

\* device_refresh up to the consuming UPDATE.
RefreshRead(t) ==
  LET n == call[t].pair IN
  /\ At(t, "refresh", "arrived")
  /\ \/ Answer(t, "429")
     \/ IF pair[n].refresh = "live" /\ pair[n].dev = call[t].dev /\ Active(call[t].dev)
        THEN Proceed(t, call[t].dev) ELSE Answer(t, "401")
  /\ UNCHANGED <<owners, device, pair, welcomed>>

\* Mutant of RefreshConsume: the row that was read is revoked, whatever it is by now.
RefreshOverwrite(t) ==
  LET n == call[t].pair IN
  /\ At(t, "refresh", "write")
  /\ IssuePair(t, call[t].dev, n, [pair EXCEPT ![n].refresh = "consumed"])
  /\ UNCHANGED <<owners, device, welcomed>>

\* ... the conditional UPDATE that consumes the credential, and the pair that
\* replaces it, in one transaction.
RefreshConsume(t) ==
  LET n == call[t].pair IN
  /\ At(t, "refresh", "write")
  /\ IF pair[n].refresh = "live"
     THEN IssuePair(t, call[t].dev, n, [pair EXCEPT ![n].refresh = "consumed"])
     ELSE Answer(t, "401") /\ UNCHANGED pair
  /\ UNCHANGED <<owners, device, welcomed>>

\* Mutant of Authenticate: an access token that is there is enough.
AuthenticateToken(t) ==
  LET n == call[t].pair IN
  /\ call[t].op \in {"use", "revoke"} /\ call[t].step = "arrived"
  /\ IF n # 0 /\ pair[n].access = "live"
     THEN IF call[t].op = "use" THEN Answer(t, "ok") ELSE Proceed(t, call[t].dev)
     ELSE Answer(t, "401")
  /\ UNCHANGED <<owners, device, pair, welcomed>>

\* remote_device_auth_middleware: the token's row, then the device's.  A request
\* that only uses the session is answered, a revocation goes on to its handler.
Authenticate(t) ==
  LET n == call[t].pair IN
  /\ call[t].op \in {"use", "revoke"} /\ call[t].step = "arrived"
  /\ IF n # 0 /\ pair[n].access = "live" /\ Active(pair[n].dev)
     THEN IF call[t].op = "use" THEN Answer(t, "ok") ELSE Proceed(t, call[t].dev)
     ELSE Answer(t, "401")
  /\ UNCHANGED <<owners, device, pair, welcomed>>

\* Mutant of RevokeRows: the tokens are marked as consumed instead.
RevokeRowsMarked(d) ==
  /\ device' = [device EXCEPT ![d].state = "revoked"]
  /\ pair' = [n \in Pairs |-> IF pair[n].dev # d THEN pair[n]
                              ELSE [pair[n] EXCEPT !.access = "consumed", !.refresh = "consumed"]]

\* What device_revoke writes: the device, and its tokens that are not revoked yet.
RevokeRows(d) ==
  LET drop(s) == IF s \in {"live", "expired"} THEN "deleted" ELSE s IN
  /\ device' = [device EXCEPT ![d].state = "revoked"]
  /\ pair' = [n \in Pairs |-> IF pair[n].dev # d THEN pair[n]
                              ELSE [pair[n] EXCEPT !.access = drop(@), !.refresh = drop(@)]]

\* device_revoke: another device than the caller's needs the owner's password.
Revoke(t) ==
  LET d == call[t].dev IN
  /\ At(t, "revoke", "write")
  /\ \/ /\ device[d].state = "absent" /\ Answer(t, "404") /\ UNCHANGED <<device, pair>>
     \/ /\ device[d].state # "absent" /\ pair[call[t].pair].dev # d
        /\ Answer(t, "403") /\ UNCHANGED <<device, pair>>
     \/ /\ device[d].state # "absent" /\ RevokeRows(d) /\ Answer(t, "ok")
  /\ UNCHANGED <<owners, welcomed>>

-----------------------------------------------------------------------------
(* Time, and the specification. *)

AccessExpires(n) == /\ pair[n].access = "live"
                    /\ pair' = [pair EXCEPT ![n].access = "expired"]
                    /\ UNCHANGED <<owners, device, call, welcomed>>

RefreshExpires(n) == /\ pair[n].refresh = "live"
                     /\ pair' = [pair EXCEPT ![n].refresh = "expired"]
                     /\ UNCHANGED <<owners, device, call, welcomed>>

\* Any client may ask for anything with the tokens that were issued.
Arrive(t) ==
  /\ \/ Ask(t, "bootstrap", Idle.name, NoDevice, 0)
     \/ \E name \in DeviceNames : Ask(t, "login", name, NoDevice, 0)
     \/ \E n \in Pairs \ Fresh : \/ Ask(t, "refresh", Idle.name, pair[n].dev, n)
                                 \/ Ask(t, "use", Idle.name, NoDevice, n)
                                 \/ \E d \in Devices : Ask(t, "revoke", Idle.name, d, n)
  /\ UNCHANGED <<owners, device, pair, welcomed>>

Respond(t) == /\ call[t].step = "answered"
              /\ call' = [call EXCEPT ![t] = Idle]
              /\ UNCHANGED <<owners, device, pair, welcomed>>

\* What the server does for the request of thread t.
Handle(t) == \/ BootstrapCheck(t) \/ BootstrapInsert(t)
             \/ LoginRead(t) \/ LoginIssue(t)
             \/ RefreshRead(t) \/ RefreshConsume(t)
             \/ Authenticate(t) \/ Revoke(t)

AuthNext == \/ \E t \in AuthThreads : Arrive(t) \/ Handle(t) \/ Respond(t)
            \/ \E n \in Pairs : AccessExpires(n) \/ RefreshExpires(n)

AuthSpec == AuthInit /\ [][AuthNext]_authvars

-----------------------------------------------------------------------------
(* Properties. *)

\* One bootstrap is answered with success and one owner exists, however many
\* passed the check before either inserted (remote_auth.py:353-361).
OneOwner == owners <= 1 /\ welcomed = owners

\* A refresh credential is replaced at most once, however many requests present
\* it: the pair that names it as its parent is unique (remote_auth.py:438-452).
ReplacedOnce == \A m, n \in Pairs : pair[m].parent # 0 /\ pair[m].parent = pair[n].parent
                                    => m = n

\* A refresh issues a pair only to a device that is active when the pair is
\* committed: a revocation that committed after the device was read is seen by
\* the consuming UPDATE (remote_auth.py:431-460).
NoPairForRevoked ==
  [][\A t \in AuthThreads : At(t, "refresh", "write") /\ call'[t].answer = "ok"
                            => device[call[t].dev].state = "active"]_authvars

\* A request that arrives after a device's revocation was committed is never let
\* in as that device, not even with tokens a login issued that had found the
\* device before the revocation (remote_auth.py:177, 379).
RevokedStaysOut ==
  \A t \in AuthThreads :
    call[t].op \in {"use", "revoke", "refresh"} /\ call[t].answer = "ok"
      => pair[call[t].pair].dev \notin call[t].out
=============================================================================
