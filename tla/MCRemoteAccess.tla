--------------------------- MODULE MCRemoteAccess ---------------------------
(***************************************************************************)
(* Model checking of RemoteAuth and RemoteBroker in one run.  The initial  *)
(* state chooses who calls the server: any clients at all ("server"), the  *)
(* tasks of one desktop client over a network and a store without faults   *)
(* ("tasks"), or one task at a time, faults, and no expiry or revocation   *)
(* by others ("faults").  At most one token is expired among the clients   *)
(* of "server", and at most one of the "tasks" logs in or out (the proofs  *)
(* have neither bound).  Tasks share one device: one that is revoked does  *)
(* not come back as another.  What follows a login or logout beside        *)
(* another task is not explored: the client's properties are not about it. *)
(* Threads and devices are interchangeable.                                *)
(***************************************************************************)
EXTENDS RemoteBroker, TLC

CONSTANT Focus

VARIABLE focus

mcvars == <<remotevars, focus>>

\* Nobody has bootstrapped an owner; the client does nothing.
ServerInit == /\ AuthInit
              /\ slots = [d \in Devices |-> [pending |-> Empty, active |-> Empty]]
              /\ enrolled = NoDevice /\ session = NoSession /\ staged = 0
              /\ task = [c \in Tasks |-> NoTask]
              /\ denied = FALSE /\ spoiled = FALSE /\ muddled = FALSE
              /\ faults = 0

\* A task that logs in or out.
Parting(t) == t.op # "use" /\ t.pc # "idle"

\* The tokens, of either kind, that are expired after the step.
Expired == {n \in Pairs : "expired" \in {pair'[n].access, pair'[n].refresh}}

MCInit == /\ focus \in Focus
          /\ IF focus = "server" THEN ServerInit ELSE BrokerInit

MCNext == /\ focus' = focus
          /\ \/ focus = "server" /\ AuthNext /\ UNCHANGED brokervars
                /\ Cardinality(Expired) <= 1
             \/ /\ focus = "tasks" /\ ~muddled /\ BrokerNext /\ faults' = 0
                /\ \E d \in Devices : device'[d].state = "absent"
                /\ Cardinality({c \in Tasks : Parting(task'[c])}) <= 1
             \/ /\ focus = "faults" /\ ~muddled
                /\ ClientNext
                /\ Cardinality({c \in Tasks : task'[c].pc # "idle"}) <= 1

MCSpec == MCInit /\ [][MCNext]_mcvars

Symmetry == Permutations(AuthThreads) \cup Permutations(Devices)
============================================================================
