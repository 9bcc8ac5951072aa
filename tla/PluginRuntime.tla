---------------------------- MODULE PluginRuntime ----------------------------
(***************************************************************************)
(* The life cycle of product plugins (pg_plugin_runtime/runtime.py over    *)
(* the rows of pg_api/plugins.py, called by pg_api/routes/system.py).      *)
(*                                                                         *)
(* Requests run on the thread pool.  Each get_state and each set_state     *)
(* opens a session of its own, so between the tests of a request and its   *)
(* write any other request may commit; set_state writes all the fields the *)
(* request computed from what it had read.  A refused request changes      *)
(* nothing.  A deployment restarts the process with another bundle.        *)
(***************************************************************************)
EXTENDS Naturals, FiniteSets

CONSTANTS
  Plugins,        \* plugin ids
  Requires,       \* plugin -> the plugins its manifest requires
  DefaultEnabled, \* plugins whose manifest is enabled by default
  PluginThreads,  \* request threads
  MaxVersion      \* versions a bundle may carry (bound)

ASSUME PluginAssumption == /\ Plugins # {}
                           /\ Requires \in [Plugins -> SUBSET Plugins]
                           /\ DefaultEnabled \subseteq Plugins
                           /\ \A p \in DefaultEnabled : Requires[p] \subseteq DefaultEnabled
                           /\ MaxVersion \in Nat

VARIABLES
  prow,      \* plugin -> PluginStateModel row
  bundle,    \* plugin -> version of its manifest, 0 when the bundle lacks it
  prequest,  \* thread -> the request it handles
  disturbed  \* a request wrote after a row it had read was changed by another, an update was cut
             \* off or taken for a plugin that is off, or a bundle brought an enabled plugin whose
             \* dependency is not enabled

pluginvars == <<prow, bundle, prequest, disturbed>>

LIFECYCLE_STATES == {"installed", "enabled", "disabled", "updating", "rollback_available", "uninstalled"}
Versions == 1 .. MaxVersion

PluginStateRecord == [enabled           : BOOLEAN,
                      installed_version : Versions,
                      lifecycle_state   : LIFECYCLE_STATES,
                      previous_version  : 0 .. MaxVersion]  \* 0: none recorded

Absent == [enabled |-> FALSE, installed_version |-> 1, lifecycle_state |-> "absent", previous_version |-> 0]

Record(on, version, state, previous) ==
  [enabled |-> on, installed_version |-> version, lifecycle_state |-> state, previous_version |-> previous]

\* "enabled" and "disabled" while the dependencies, or the dependants, in `todo` are still to be tested.
PluginRequest == [step   : {"idle", "test_on", "test_off", "write", "update"},
                  plugin : Plugins,
                  todo   : SUBSET Plugins,
                  read   : SUBSET Plugins,   \* rows read ...
                  stale  : SUBSET Plugins,   \* ... of which another request has changed these since
                  next   : PluginStateRecord \cup {Absent}]
NoRequest == [step |-> "idle", plugin |-> CHOOSE p \in Plugins : TRUE, todo |-> {},
              read |-> {}, stale |-> {}, next |-> Absent]

PluginTypeOK == /\ prow \in [Plugins -> PluginStateRecord \cup {Absent}]
                /\ bundle \in [Plugins -> 0 .. MaxVersion]
                /\ prequest \in [PluginThreads -> PluginRequest]
                /\ disturbed \in BOOLEAN

-----------------------------------------------------------------------------
manifests == {p \in Plugins : bundle[p] # 0}
Bundles == {b \in [Plugins -> 0 .. MaxVersion] :
              \A p \in Plugins : b[p] # 0 => \A d \in Requires[p] : b[d] # 0}

Enabled(r) == r.enabled /\ r.lifecycle_state \notin {"uninstalled", "installed", "updating"}
is_enabled(p) == Enabled(prow[p])
Installed(p) == prow[p].lifecycle_state \notin {"absent", "uninstalled"}

\* install_defaults: a row for every plugin that has none.
WithDefaults(rows, b) ==
  [p \in Plugins |->
     IF b[p] = 0 \/ rows[p] # Absent THEN rows[p]
     ELSE Record(p \in DefaultEnabled, b[p], IF p \in DefaultEnabled THEN "enabled" ELSE "disabled", 0)]

enabled_dependants(p) == {q \in manifests : p \in Requires[q]}

PluginInit == /\ bundle \in Bundles
              /\ prow = WithDefaults([p \in Plugins |-> Absent], bundle)
              /\ prequest = [t \in PluginThreads |-> NoRequest]
              /\ disturbed = FALSE

\* A request of thread t has passed its first tests.
Start(t, step, p, todo, next) ==
  /\ prequest' = [prequest EXCEPT ![t] = [step |-> step, plugin |-> p, todo |-> todo,
                                          read |-> {p}, stale |-> {}, next |-> next]]
  /\ UNCHANGED <<prow, bundle, disturbed>>

\* Thread t writes the row of its plugin and goes on with `then`.
Write(t, row, then) ==
  LET p == prequest[t].plugin
  IN /\ prow' = [prow EXCEPT ![p] = row]
     /\ prequest' = [u \in PluginThreads |->
                       IF u = t THEN then
                       ELSE [prequest[u] EXCEPT !.stale = @ \cup ({p} \cap prequest[u].read)]]
     /\ disturbed' = (disturbed \/ prequest[t].stale # {})
     /\ UNCHANGED bundle

-----------------------------------------------------------------------------
(* The routes: what each reads first, and what it will write. *)

install(t, p) ==
  /\ p \in manifests /\ ~Installed(p)
  /\ LET previous == IF prow[p] = Absent THEN 0 ELSE prow[p].installed_version
     IN Start(t, "write", p, {}, Record(FALSE, bundle[p], "installed", previous))

enable(t, p) ==
  /\ p \in manifests /\ Installed(p)
  /\ Start(t, "test_on", p, Requires[p],
           Record(TRUE, prow[p].installed_version, "enabled", prow[p].previous_version))

\* For a mutant: the dependants are not asked.
disable_at_once(t, p) ==
  /\ p \in manifests /\ Installed(p)
  /\ Start(t, "write", p, {},
           Record(FALSE, prow[p].installed_version, "disabled", prow[p].previous_version))

disable(t, p) ==
  /\ p \in manifests /\ Installed(p)
  /\ Start(t, "test_off", p, enabled_dependants(p),
           Record(FALSE, prow[p].installed_version, "disabled", prow[p].previous_version))

uninstall(t, p) ==
  /\ p \in manifests /\ Installed(p)
  /\ Start(t, "test_off", p, enabled_dependants(p),
           Record(FALSE, prow[p].installed_version, "uninstalled", prow[p].previous_version))

update(t, p) ==
  /\ p \in manifests /\ Installed(p)
  /\ bundle[p] # prow[p].installed_version
  /\ Start(t, "update", p, {}, prow[p])

\* For a mutant: the version left is not recorded.
rollback_forgetting(t, p) ==
  /\ p \in manifests /\ Installed(p)
  /\ prow[p].previous_version # 0 /\ bundle[p] = prow[p].previous_version
  /\ Start(t, "write", p, {},
           Record(prow[p].enabled, bundle[p], "enabled", prow[p].previous_version))

rollback(t, p) ==
  /\ p \in manifests /\ Installed(p)
  /\ prow[p].previous_version # 0 /\ bundle[p] = prow[p].previous_version
  /\ Start(t, "write", p, {},
           Record(prow[p].enabled, bundle[p], IF prow[p].enabled THEN "enabled" ELSE "disabled",
                  prow[p].installed_version))

\* One dependency, or one dependant, is read; the wrong answer refuses the request.
TestOne(t) ==
  /\ prequest[t].step \in {"test_on", "test_off"}
  /\ \E q \in prequest[t].todo :
       IF is_enabled(q) = (prequest[t].step = "test_on")
       THEN /\ prequest' = [prequest EXCEPT ![t].todo = @ \ {q}, ![t].read = @ \cup {q}]
            /\ disturbed' = (disturbed \/ (prow[q].enabled /\ ~is_enabled(q)))
       ELSE /\ prequest' = [prequest EXCEPT ![t] = NoRequest]
            /\ disturbed' = disturbed
  /\ UNCHANGED <<prow, bundle>>

Tested(t) == prequest[t].step \in {"test_on", "test_off"} => prequest[t].todo = {}

set_state(t) ==
  /\ prequest[t].step \in {"write", "test_on", "test_off"} /\ Tested(t)
  /\ Write(t, prequest[t].next, NoRequest)

\* update writes "updating" first, from the record it read; then the version of the manifest.
set_updating(t) ==
  /\ prequest[t].step = "update"
  /\ LET read == prequest[t].next
     IN Write(t, [read EXCEPT !.lifecycle_state = "updating"],
              [prequest[t] EXCEPT !.step = "write",
                 !.next = Record(read.enabled, bundle[prequest[t].plugin], "rollback_available", read.installed_version)])

\* The process ends and starts again, with this bundle or another; requests under way are lost.
Deploy(b) ==
  /\ bundle' = b
  /\ prow' = WithDefaults(prow, b)
  /\ prequest' = [t \in PluginThreads |-> NoRequest]
  /\ disturbed' = \/ disturbed
                  \/ \E p \in Plugins : prow[p].lifecycle_state = "updating"
                  \/ \E p \in Plugins : /\ bundle[p] = 0 /\ b[p] # 0 /\ Enabled(prow'[p])
                                       /\ \E d \in Requires[p] : ~Enabled(prow'[d])

Route(t, p) == \/ install(t, p) \/ enable(t, p) \/ disable(t, p)
               \/ uninstall(t, p) \/ update(t, p) \/ rollback(t, p)

PluginNext == \/ \E t \in PluginThreads :
                   \/ prequest[t].step = "idle" /\ \E p \in Plugins : Route(t, p)
                   \/ TestOne(t) \/ set_state(t) \/ set_updating(t)
              \/ \E b \in Bundles : Deploy(b)

PluginSpec == PluginInit /\ [][PluginNext]_pluginvars

-----------------------------------------------------------------------------
(* Properties. *)

\* A plugin that is enabled has every plugin it requires enabled, or in the middle of its own update
\* (pg_plugin_runtime/runtime.py: enable and disable), whatever installations, updates, rollbacks and
\* deployments came before and however requests interleave, as long as no request writes on a row it
\* had read and another has changed since; left out are also an update cut off by a restart, a
\* dependency disabled while its dependant is being updated, and a bundle that brings an enabled
\* plugin whose dependency is not.
DependenciesHold ==
  ~disturbed => \A p \in manifests : is_enabled(p) =>
                  \A d \in Requires[p] : is_enabled(d) \/ (prow[d].enabled /\ prow[d].lifecycle_state = "updating")

\* A lost update: thread t writes the row of p, which another has changed since t read it.
Overwrites(t, p) == prequest[t].plugin = p /\ p \in prequest[t].stale /\ prequest'[t] # prequest[t]

\* Whenever the installed version of a plugin changes, the version it replaces is the one recorded to
\* go back to, so that a rollback always has somewhere to return to: across refused requests, updates
\* cut off by a restart and deployments of other bundles, whatever plugins are off, and after lost
\* updates too.  Only the lost update itself may record another (pg_plugin_runtime/runtime.py: update
\* and rollback).
ReplacedVersionKept ==
  [][\A p \in Plugins :
       (prow[p] # Absent /\ prow'[p].installed_version # prow[p].installed_version)
         => \/ prow'[p].previous_version = prow[p].installed_version
            \/ \E t \in PluginThreads : Overwrites(t, p)]_pluginvars
=============================================================================
