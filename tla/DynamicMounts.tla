---------------------------- MODULE DynamicMounts ----------------------------
(***************************************************************************)
(* The mount registry (MountRegistry in rustyice-core/src/mount.rs) under  *)
(* the sources that come and go on it and the reloads that change it.  A   *)
(* source on a path that is not registered creates a mount there           *)
(* (create_dynamic_mount in source_protocol.rs) and its disconnect guard   *)
(* removes, by path, whatever is registered then.  A reload registers and  *)
(* removes the mounts of [[mounts]] (apply_config in config_reload.rs).    *)
(* Every access to the registry is a step of its own; what happens on one  *)
(* mount is in SourceSlot, the other sections of a reload in ConfigReload. *)
(*                                                                         *)
(* The mounts of a path are numbered as they are created: a number stands  *)
(* for an Arc<ActiveMount>, which lives on in the sessions that hold it.   *)
(***************************************************************************)
EXTENDS Integers

CONSTANTS
  Sources,   \* source connections
  Paths,     \* mount paths
  Configs,   \* what [[mounts]] may list
  MaxMounts  \* bound: a path with this many mounts so far gets no further ones

ASSUME MountsAssumption == MaxMounts \in Nat /\ Configs \subseteq SUBSET Paths

None == 0 \* no mount registered

VARIABLES
  registry, \* path -> the mount registered there, or None
  created,  \* path -> mounts created there so far
  dynamic,  \* path -> those created by a source
  taken,    \* path -> those whose source_connected is set
  config,   \* the running configuration's [[mounts]]
  auth,     \* the paths with a source password of their own
  rpc,      \* apply_config: "idle", "auth", "add", "remove", "store"
  target,   \* the [[mounts]] being applied
  todo,     \* the paths its current loop has still to look at
  missing,  \* the path it found missing and is about to add
  pc,       \* handle_source_connection
  path,     \* the path it was asked for
  cred,     \* the password it was given, of the mount or the global one
  at,       \* its mount
  own,      \* it created that mount
  refused,  \* history: path -> mounts whose creator was then turned away
  crossed,  \* history: sources that met another on their path, or a reload
  touched,  \* history: paths a source changed the entry of since a reload began
  settled,  \* history: configured paths that no source can have found missing
  fresh     \* history: sources that looked their path up after it settled

registered == <<registry, created, dynamic>>
reloading  == <<config, auth, rpc, target, todo, missing>>
session    == <<path, cred, at, own>>
history    == <<refused, crossed, touched, settled, fresh>>
vars == <<registered, taken, reloading, pc, session, history>>

InFlight(s) == pc[s] # "idle"

\* s has found no mount at p: it will create one or remove what is there.
Missed(s, p) ==
  InFlight(s) /\ path[s] = p /\ (own[s] \/ pc[s] \in {"verify_default", "create"})

Init ==
  /\ config \in Configs /\ auth = config /\ target = config
  /\ registry = [p \in Paths |-> IF p \in config THEN 1 ELSE None]
  /\ created = registry
  /\ dynamic = [p \in Paths |-> {}] /\ taken = [p \in Paths |-> {}]
  /\ rpc = "idle" /\ todo = {} /\ missing = {}
  /\ pc = [s \in Sources |-> "idle"]
  /\ path \in [Sources -> Paths]
  /\ cred = [s \in Sources |-> "global"]
  /\ at = [s \in Sources |-> None] /\ own = [s \in Sources |-> FALSE]
  /\ refused = [p \in Paths |-> {}]
  /\ crossed = {} /\ touched = {} /\ settled = config /\ fresh = {}

-----------------------------------------------------------------------------
(* A source: resolve_or_create_mount and what follows it.                  *)

Go(s, from, to) == pc[s] = from /\ pc' = [pc EXCEPT ![s] = to]
KeepHistory == UNCHANGED history

Others(s, p) == {t \in Sources \ {s} : InFlight(t) /\ path[t] = p}

\* The first access to the registry.
Lookup(s) ==
  \E p \in Paths, c \in {"own", "global"} :
    /\ registry[p] # None \/ created[p] < MaxMounts
    /\ Go(s, "idle", IF registry[p] # None THEN "verify" ELSE "verify_default")
    /\ path' = [path EXCEPT ![s] = p]
    /\ cred' = [cred EXCEPT ![s] = c]
    /\ at' = [at EXCEPT ![s] = registry[p]]
    /\ own' = [own EXCEPT ![s] = FALSE]
    /\ crossed' = (crossed \ {s}) \cup Others(s, p)
                    \cup (IF Others(s, p) # {} \/ rpc # "idle" THEN {s} ELSE {})
    /\ fresh' = IF p \in settled THEN fresh \cup {s} ELSE fresh \ {s}
    /\ UNCHANGED <<registered, taken, reloading, refused, touched, settled>>

\* verify_source: a path with a password of its own takes no other.
Accepts(p, c) == IF p \in auth THEN c = "own" ELSE c = "global"
Verify(s) ==
  /\ Go(s, "verify", IF Accepts(path[s], cred[s]) THEN "codec" ELSE "idle")
  /\ UNCHANGED <<registered, taken, reloading, session>> /\ KeepHistory

\* verify_default_source: the path is not looked at again.
VerifyDefault(s) ==
  /\ Go(s, "verify_default", IF cred[s] = "global" THEN "create" ELSE "idle")
  /\ UNCHANGED <<registered, taken, reloading, session>> /\ KeepHistory

\* Mutant of Create: the mount is not registered.
CreateUnregistered(s) ==
  LET p == path[s] n == created[path[s]] + 1 IN
    /\ Go(s, "create", "codec")
    /\ created' = [created EXCEPT ![p] = n]
    /\ dynamic' = [dynamic EXCEPT ![p] = @ \cup {n}]
    /\ at' = [at EXCEPT ![s] = n] /\ own' = [own EXCEPT ![s] = TRUE]
    /\ touched' = touched \cup {p}
    /\ UNCHANGED <<registry, taken, reloading, path, cred, refused, crossed, settled, fresh>>

\* create_dynamic_mount: add replaces what has been registered meanwhile.
Create(s) ==
  LET p == path[s] n == created[path[s]] + 1 IN
    /\ Go(s, "create", "codec")
    /\ created' = [created EXCEPT ![p] = n]
    /\ registry' = [registry EXCEPT ![p] = n]
    /\ dynamic' = [dynamic EXCEPT ![p] = @ \cup {n}]
    /\ at' = [at EXCEPT ![s] = n] /\ own' = [own EXCEPT ![s] = TRUE]
    /\ touched' = touched \cup {p}
    /\ UNCHANGED <<taken, reloading, path, cred, refused, crossed, settled, fresh>>

\* A source that is turned away has no guard: a mount it created stays.
TurnedAway(s) ==
  refused' = IF own[s] THEN [refused EXCEPT ![path[s]] = @ \cup {at[s]}] ELSE refused

\* The mount transcodes, and not from this codec: 415.
CodecAccepted(s) ==
  /\ Go(s, "codec", "cas")
  /\ UNCHANGED <<registered, taken, reloading, session>> /\ KeepHistory
CodecRefused(s) ==
  /\ Go(s, "codec", "idle")
  /\ TurnedAway(s)
  /\ UNCHANGED <<registered, taken, reloading, session, crossed, touched, settled, fresh>>

\* The compare_exchange on source_connected, and the 409.
Claim(s) ==
  /\ at[s] \notin taken[path[s]]
  /\ Go(s, "cas", "stream")
  /\ taken' = [taken EXCEPT ![path[s]] = @ \cup {at[s]}]
  /\ UNCHANGED <<registered, reloading, session>> /\ KeepHistory
Busy(s) ==
  /\ at[s] \in taken[path[s]]
  /\ Go(s, "cas", "idle")
  /\ TurnedAway(s)
  /\ UNCHANGED <<registered, taken, reloading, session, crossed, touched, settled, fresh>>

StreamEnds(s) ==
  /\ Go(s, "stream", "g_free")
  /\ UNCHANGED <<registered, taken, reloading, session>> /\ KeepHistory

\* Mutant of GuardFrees: every guard goes on to remove its path.
GuardFreesAndRemoves(s) ==
  /\ Go(s, "g_free", "g_remove")
  /\ taken' = [taken EXCEPT ![path[s]] = @ \ {at[s]}]
  /\ UNCHANGED <<registered, reloading, session>> /\ KeepHistory

\* SourceDisconnectGuard::drop: the slot is freed, then the path removed.
GuardFrees(s) ==
  /\ Go(s, "g_free", IF own[s] THEN "g_remove" ELSE "idle")
  /\ taken' = [taken EXCEPT ![path[s]] = @ \ {at[s]}]
  /\ UNCHANGED <<registered, reloading, session>> /\ KeepHistory

\* Mutant of GuardRemoves: the mount is not removed.
GuardForgets(s) ==
  /\ Go(s, "g_remove", "idle")
  /\ UNCHANGED <<registered, taken, reloading, session>> /\ KeepHistory

GuardRemoves(s) ==
  /\ Go(s, "g_remove", "idle")
  /\ registry' = [registry EXCEPT ![path[s]] = None]
  /\ touched' = touched \cup {path[s]}
  /\ UNCHANGED <<created, dynamic, taken, reloading, session, refused, crossed, settled, fresh>>

SourceStep(s) ==
  \/ Lookup(s) \/ Verify(s) \/ VerifyDefault(s) \/ Create(s)
  \/ CodecAccepted(s) \/ CodecRefused(s) \/ Claim(s) \/ Busy(s)
  \/ StreamEnds(s) \/ GuardFrees(s) \/ GuardRemoves(s)

-----------------------------------------------------------------------------
(* A reload: apply_config, its part for [[mounts]].                        *)

Reload(from, to) == rpc = from /\ rpc' = to
KeepSources == UNCHANGED <<taken, pc, session>>

BeginReload ==
  /\ Reload("idle", "auth")
  /\ \A p \in Paths : created[p] < MaxMounts
  /\ target' \in Configs
  /\ crossed' = crossed \cup {s \in Sources : InFlight(s)}
  /\ touched' = {} /\ settled' = {} /\ fresh' = {}
  /\ UNCHANGED <<registered, config, auth, todo, missing, refused>> /\ KeepSources

ReloadAuth ==
  /\ Reload("auth", "add")
  /\ auth' = target /\ todo' = target
  /\ UNCHANGED <<registered, config, target, missing>> /\ KeepSources /\ KeepHistory

\* The loop over the new [[mounts]]: get, and add if there was none.
FindMount ==
  /\ Reload("add", "add") /\ missing = {}
  /\ \E p \in todo :
       /\ todo' = todo \ {p}
       /\ missing' = IF registry[p] = None THEN {p} ELSE {}
  /\ UNCHANGED <<registered, config, auth, target>> /\ KeepSources /\ KeepHistory

AddMount ==
  /\ Reload("add", "add")
  /\ \E p \in missing :
       /\ created' = [created EXCEPT ![p] = @ + 1]
       /\ registry' = [registry EXCEPT ![p] = created[p] + 1]
  /\ missing' = {}
  /\ UNCHANGED <<dynamic, config, auth, target, todo>> /\ KeepSources /\ KeepHistory

AddsDone ==
  /\ Reload("add", "remove") /\ todo = {} /\ missing = {}
  /\ todo' = config \ target
  /\ UNCHANGED <<registered, config, auth, target, missing>> /\ KeepSources /\ KeepHistory

\* The loop over the old [[mounts]]; nothing stops the source of one.
RemoveMount ==
  /\ Reload("remove", "remove")
  /\ \E p \in todo : todo' = todo \ {p} /\ registry' = [registry EXCEPT ![p] = None]
  /\ UNCHANGED <<created, dynamic, config, auth, target, missing>> /\ KeepSources /\ KeepHistory

EndReload ==
  /\ Reload("remove", "idle") /\ todo = {}
  /\ config' = target
  /\ settled' = {p \in target \ touched : \A s \in Sources : ~Missed(s, p)}
  /\ UNCHANGED <<registered, auth, target, todo, missing, refused, crossed, touched, fresh>>
  /\ KeepSources

ReloadStep ==
  \/ BeginReload \/ ReloadAuth \/ FindMount \/ AddMount \/ AddsDone
  \/ RemoveMount \/ EndReload

Next == ReloadStep \/ \E s \in Sources : SourceStep(s)

Spec == Init /\ [][Next]_vars

-----------------------------------------------------------------------------
(* Properties.                                                             *)

Streams(s) == pc[s] = "stream"

\* A mount created by a source is registered only while the session that will
\* remove it is under way, or if that session was turned away with a 415 or a
\* 409 after it had created it (source_protocol.rs:88-108): whatever races,
\* the guards leave nothing else behind (e2e_test.rs:541-550).
DynamicEntryHasOwner ==
  \A p \in Paths : registry[p] \in dynamic[p] \ refused[p] =>
    \E s \in Sources : InFlight(s) /\ own[s] /\ path[s] = p /\ at[s] = registry[p]

\* A configured path that no source on its way has found missing keeps its
\* mount until the next reload, however sources race on it, and those that
\* come to it get that mount, one at a time.
SettledPathServes ==
  \A p \in settled :
    /\ registry[p] # None
    /\ \A s \in fresh : path[s] = p /\ InFlight(s) => at[s] = registry[p] /\ ~own[s]
    /\ \A s, t \in fresh : path[s] = p /\ path[t] = p /\ Streams(s) /\ Streams(t) => s = t

\* A source that shares its path with no other source and no reload streams
\* on the mount that listeners find there.
LoneSourceIsFound ==
  \A s \in Sources \ crossed : Streams(s) => registry[path[s]] = at[s]
=============================================================================
