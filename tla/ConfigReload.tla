---------------------------- MODULE ConfigReload ----------------------------
(***************************************************************************)
(* How a new configuration reaches the running server.  It comes from two  *)
(* places: PUT /api/config/<section> (rustyice-admin/src/api/config.rs),   *)
(* which patches one section of the running configuration, and SIGHUP      *)
(* (watch_sighup), which loads the whole of config.toml.  Both end in      *)
(* apply_config (rustyice-server/src/config_reload.rs), which compares the *)
(* new configuration with the running one and brings the mount registry    *)
(* and the AutoDJ and relay tasks in line, one entry at a time: it waits   *)
(* for every task it cancels.                                              *)
(* A configuration maps each section and each path to the entry listed     *)
(* there.  Of an entry the model keeps whether it is enabled and a version *)
(* that stands for the fields whose change restarts the task; names,       *)
(* listener limits and passwords are swapped in place and left out.        *)
(***************************************************************************)
EXTENDS Naturals

CONSTANTS
  Paths,       \* mount paths
  Place,       \* path -> the sections an operator ever lists it under
  Versions,    \* settings of an enabled AutoDJ or relay
  Savers,      \* admin clients that save a section
  Edits,       \* what an operator may write to config.toml by hand
  MaxRequests, \* bound: saves, edits of the file and SIGHUPs in a behaviour
  Absent,      \* no entry, no task
  Off,         \* an entry with enabled = false
  NoFile,      \* no config.toml: the server runs on its defaults
  None         \* no job, no request, nothing awaited

Workers == {"autodj", "relay"}      \* the sections whose entries run a task
Sections == Workers \cup {"mounts"}

Entries(s) == {Absent} \cup (IF s = "mounts" THEN {"on"} ELSE {Off} \cup Versions)

Config == {c \in [Sections -> [Paths -> {Absent, Off, "on"} \cup Versions]] :
             \A s \in Sections, p \in Paths :
                /\ c[s][p] \in Entries(s)
                /\ c[s][p] # Absent => s \in Place[p]}

\* Config::validate_paths: a path is listed in one section only.
Valid(c) == \A p \in Paths, s, u \in Sections :
               c[s][p] # Absent /\ c[u][p] # Absent => s = u

Listed(c, s) == {p \in Paths : c[s][p] # Absent}
Enabled(e) == e \notin {Absent, Off}
Defaults == [s \in Sections |-> [p \in Paths |-> Absent]]

Stages == {<<"mounts">>, <<"commit">>} \cup (Workers \X {"drop", "start"})

\* An apply: who asked for it and for what; the entries its stage has still
\* to see to, and the one whose task it waits for.
Jobs == [by : Savers \cup {"sighup"}, target : Config, stage : Stages,
         todo : SUBSET Paths, wait : Paths \cup {None}]

ASSUME ConfigAssumption ==
  /\ Place \in [Paths -> SUBSET Sections]
  /\ Edits \subseteq Config
  /\ MaxRequests \in Nat
  /\ {Absent, Off, "on"} \cap Versions = {}
  /\ Absent \notin {Off, "on"}
  /\ NoFile \notin Config
  /\ None \notin Paths \cup Jobs

VARIABLES
  config,  \* the running configuration (ArcSwap<Config>)
  disk,    \* config.toml
  origin,  \* config_path: None on "defaults", set by a save ("saved") or at
           \*   the start ("file": only then SIGHUP is watched)
  req,     \* saver -> its request, waiting for config_write_lock
  job,     \* the apply in progress, which holds config_write_lock
  mounts,  \* paths in the MountRegistry
  handles, \* AutoDjRegistry and RelayRegistry: worker, path -> its entry
  tasks,   \* AutoDJ and relay tasks that have not ended
  torn,    \* an apply was dropped half-way
  stale,   \* config.toml was edited by hand and not loaded since
  spent    \* requests so far

vars == <<config, disk, origin, req, job, mounts, handles, tasks, torn, stale, spent>>

Phases == {"live", "awaited", "loose"}
Origins == {"defaults", "saved", "file"}

-----------------------------------------------------------------------------
(* Start-up, main.rs: every listed entry gets its mount, enabled ones a task. *)

Task(k, p, e) == [kind |-> k, path |-> p, cfg |-> e, phase |-> "live", heard |-> TRUE]

Init ==
  /\ config \in {c \in Config : Valid(c)}
  /\ disk \in {config} \cup (IF config = Defaults THEN {NoFile} ELSE {})
  /\ origin = IF disk = NoFile THEN "defaults" ELSE "file"
  /\ req = [s \in Savers |-> None]
  /\ job = None
  /\ mounts = UNION {Listed(config, s) : s \in Sections}
  /\ handles = [k \in Workers |-> [p \in Paths |->
                  IF Enabled(config[k][p]) THEN config[k][p] ELSE Absent]]
  /\ tasks = {t \in {Task(k, p, config[k][p]) : k \in Workers, p \in Paths} : Enabled(t.cfg)}
  /\ torn = FALSE
  /\ stale = FALSE
  /\ spent = 0

-----------------------------------------------------------------------------
(* Requests.                                                               *)

Spend == spent < MaxRequests /\ spent' = spent + 1

\* The candidate is the configuration that runs now with one section replaced;
\* a duplicate path is a 400.
Submit(s, sec, entries) ==
  LET candidate == [config EXCEPT ![sec] = entries]
  IN /\ Spend
     /\ req[s] = None
     /\ candidate \in Config /\ Valid(candidate)
     /\ req' = [req EXCEPT ![s] = [section |-> sec, entries |-> entries,
                                   candidate |-> candidate]]
     /\ UNCHANGED <<config, disk, origin, job, mounts, handles, tasks, torn, stale>>

PutMounts(s) == \E entries \in [Paths -> Entries("mounts")] : Submit(s, "mounts", entries)
PutAutodjs(s) == \E entries \in [Paths -> Entries("autodj")] : Submit(s, "autodj", entries)
PutRelays(s) == \E entries \in [Paths -> Entries("relay")] : Submit(s, "relay", entries)

NewJob(who, target) == [by |-> who, target |-> target, stage |-> <<"mounts">>,
                        todo |-> {}, wait |-> None]

\* persist_and_apply takes the lock, patches its section of config.toml (or of
\* the candidate, when the file is gone or none was ever named: then whatever
\* lies there is overwritten) and applies the candidate.
Persist(s) ==
  /\ req[s] # None
  /\ job = None
  /\ disk' = IF origin = "defaults" \/ disk = NoFile THEN req[s].candidate
             ELSE [disk EXCEPT ![req[s].section] = req[s].entries]
  /\ job' = NewJob(s, req[s].candidate)
  /\ UNCHANGED <<config, origin, req, mounts, handles, tasks, torn, stale, spent>>

\* The file cannot be read, parsed or written (io_error_response), or the
\* client leaves while its request waits for the lock.
GiveUp(s) ==
  /\ req[s] # None
  /\ job # None => job.by # s
  /\ req' = [req EXCEPT ![s] = None]
  /\ UNCHANGED <<config, disk, origin, job, mounts, handles, tasks, torn, stale, spent>>

\* An operator edits config.toml; the server does not see it yet.
EditFile(c) ==
  /\ Spend
  /\ disk' = c
  /\ stale' = TRUE
  /\ UNCHANGED <<config, origin, req, job, mounts, handles, tasks, torn>>

\* watch_sighup: an invalid file is reported and changes nothing.
Sighup ==
  /\ Spend
  /\ origin = "file"
  /\ job = None
  /\ disk # NoFile /\ Valid(disk)
  /\ job' = NewJob("sighup", disk)
  /\ stale' = FALSE
  /\ UNCHANGED <<config, disk, origin, req, mounts, handles, tasks, torn>>

-----------------------------------------------------------------------------
(* apply_config.                                                           *)

\* Tasks keep the ActiveMount they were given: once the registry drops it,
\* what they publish reaches no new listener.
Unheard(ts, gone) == {[t EXCEPT !.heard = t.heard /\ t.path \notin gone] : t \in ts}

\* Mutants of ApplyMounts: it only updates mounts that exist; and it drops
\* every registered path that [[mounts]] does not list.
ApplyMountsKnown ==
  /\ job # None /\ job.stage = <<"mounts">>
  /\ mounts' = mounts \ (Listed(config, "mounts") \ Listed(job.target, "mounts"))
  /\ job' = [job EXCEPT !.stage = <<"autodj", "drop">>,
                        !.todo = Listed(config, "autodj") \ Listed(job.target, "autodj")]
  /\ UNCHANGED <<config, disk, origin, req, handles, tasks, torn, stale, spent>>
ApplyMountsPruning ==
  /\ job # None /\ job.stage = <<"mounts">>
  /\ mounts' = Listed(job.target, "mounts")
  /\ tasks' = Unheard(tasks, mounts \ Listed(job.target, "mounts"))
  /\ job' = [job EXCEPT !.stage = <<"autodj", "drop">>,
                        !.todo = Listed(config, "autodj") \ Listed(job.target, "autodj")]
  /\ UNCHANGED <<config, disk, origin, req, handles, torn, stale, spent>>

\* The mounts section: register what is new, drop what is gone.
ApplyMounts ==
  LET gone == Listed(config, "mounts") \ Listed(job.target, "mounts")
  IN /\ job # None /\ job.stage = <<"mounts">>
     /\ mounts' = (mounts \cup Listed(job.target, "mounts")) \ gone
     /\ tasks' = Unheard(tasks, gone)
     /\ job' = [job EXCEPT !.stage = <<"autodj", "drop">>,
                           !.todo = Listed(config, "autodj") \ Listed(job.target, "autodj")]
     /\ UNCHANGED <<config, disk, origin, req, handles, torn, stale, spent>>

\* Mutants of NeedsRespawn: only the enabled flag is compared; and every
\* listed entry is restarted.
RespawnOnToggle(k, p) == Enabled(config[k][p]) # Enabled(job.target[k][p])
RespawnAlways(k, p) == job.target[k][p] # Off

NeedsRespawn(k, p) ==
  IF config[k][p] = Absent THEN Enabled(job.target[k][p])
                           ELSE config[k][p] # job.target[k][p]

\* AutoDjRegistry::cancel, RelayRegistry::cancel: take the entry out, cancel
\* its token, then wait for the task to end.
CancelEntry(k, p) ==
  /\ job # None /\ job.wait = None
  /\ job.stage \in {<<k, "drop">>, <<k, "start">>}
  /\ p \in job.todo
  /\ handles' = [handles EXCEPT ![k][p] = Absent]
  /\ tasks' = {IF t.kind = k /\ t.path = p /\ t.phase = "live" /\ handles[k][p] # Absent
               THEN [t EXCEPT !.phase = "awaited"] ELSE t : t \in tasks}
  /\ job' = [job EXCEPT !.wait = p]
  /\ UNCHANGED <<config, disk, origin, req, mounts, torn, stale, spent>>

\* Mutant of Ended: the handle is dropped, not awaited.
EndedUnawaited == job # None

Ended == \A t \in tasks : t.phase # "awaited"

Finished(p) == [job EXCEPT !.wait = None, !.todo = @ \ {p}]

\* An entry that left its section: its mount goes with it.
DropMount(k, p) ==
  /\ job # None /\ job.stage = <<k, "drop">> /\ job.wait = p
  /\ Ended
  /\ mounts' = mounts \ {p}
  /\ tasks' = Unheard(tasks, {p})
  /\ job' = Finished(p)
  /\ UNCHANGED <<config, disk, origin, req, handles, torn, stale, spent>>

\* A new or changed entry: the mount is registered if the path has none, and
\* the task is spawned on the registered mount if the entry is enabled.
StartTask(k, p) ==
  /\ job # None /\ job.stage = <<k, "start">> /\ job.wait = p
  /\ Ended
  /\ mounts' = mounts \cup {p}
  /\ IF Enabled(job.target[k][p])
     THEN /\ handles' = [handles EXCEPT ![k][p] = job.target[k][p]]
          /\ tasks' = tasks \cup {Task(k, p, job.target[k][p])}
     ELSE UNCHANGED <<handles, tasks>>
  /\ job' = Finished(p)
  /\ UNCHANGED <<config, disk, origin, req, torn, stale, spent>>

NextStage ==
  LET respawn(k) == {p \in Listed(job.target, k) : NeedsRespawn(k, p)}
      goTo(stage, todo) == job' = [job EXCEPT !.stage = stage, !.todo = todo]
  IN /\ job # None /\ job.wait = None /\ job.todo = {}
     /\ \/ \E k \in Workers : job.stage = <<k, "drop">> /\ goTo(<<k, "start">>, respawn(k))
        \/ /\ job.stage = <<"autodj", "start">>
           /\ goTo(<<"relay", "drop">>, Listed(config, "relay") \ Listed(job.target, "relay"))
        \/ job.stage = <<"relay", "start">> /\ goTo(<<"commit">>, {})
     /\ UNCHANGED <<config, disk, origin, req, mounts, handles, tasks, torn, stale, spent>>

\* config.store: only now do requests see the new configuration.  The first
\* save of a server that runs on the defaults then names the file.
Commit ==
  /\ job # None /\ job.stage = <<"commit">>
  /\ config' = job.target
  /\ req' = [s \in Savers |-> IF job.by = s THEN None ELSE req[s]]
  /\ job' = None
  /\ origin' = IF origin = "defaults" THEN "saved" ELSE origin
  /\ UNCHANGED <<disk, mounts, handles, tasks, torn, stale, spent>>

-----------------------------------------------------------------------------
(* Around it.                                                              *)

\* The client of a save disconnects while its handler waits for a task: the
\* future is dropped there, the lock with it, and the rest is not applied.
ClientGone ==
  /\ job # None /\ job.by \in Savers /\ job.wait # None /\ ~Ended
  /\ job' = None
  /\ req' = [req EXCEPT ![job.by] = None]
  /\ tasks' = {IF t.phase = "awaited" THEN [t EXCEPT !.phase = "loose"] ELSE t : t \in tasks}
  /\ torn' = TRUE
  /\ UNCHANGED <<config, disk, origin, mounts, handles, stale, spent>>

\* A cancelled task ends; an AutoDJ with loop = false ends by itself.
TaskEnds(t) ==
  /\ t.phase # "live" \/ t.kind = "autodj"
  /\ tasks' = tasks \ {t}
  /\ UNCHANGED <<config, disk, origin, req, job, mounts, handles, torn, stale, spent>>

\* Nothing more is asked of the server and no apply runs.
Rest ==
  /\ job = None
  /\ spent = MaxRequests
  /\ UNCHANGED vars

Next ==
  \/ \E s \in Savers :
        PutMounts(s) \/ PutAutodjs(s) \/ PutRelays(s) \/ Persist(s) \/ GiveUp(s)
  \/ \E c \in Edits : EditFile(c)
  \/ Sighup
  \/ ApplyMounts
  \/ \E k \in Workers, p \in Paths : CancelEntry(k, p) \/ DropMount(k, p) \/ StartTask(k, p)
  \/ NextStage
  \/ Commit
  \/ ClientGone
  \/ \E t \in tasks : TaskEnds(t)
  \/ Rest

Spec == Init /\ [][Next]_vars

-----------------------------------------------------------------------------
(* Properties.                                                             *)

TaskSet == [kind : Workers, path : Paths, cfg : Versions, phase : Phases, heard : BOOLEAN]

\* Type correctness of the state apply_config and the save handlers share.
TypeOK ==
  /\ config \in Config
  /\ disk \in Config \cup {NoFile}
  /\ \A s \in Savers : req[s] = None \/ req[s].candidate \in Config
  /\ job \in Jobs \cup {None}
  /\ mounts \subseteq Paths
  /\ handles \in [Workers -> [Paths -> {Absent} \cup Versions]]
  /\ tasks \subseteq TaskSet
  /\ origin \in Origins /\ torn \in BOOLEAN /\ stale \in BOOLEAN
  /\ spent \in 0..MaxRequests

\* No apply is running, and none was dropped half-way (ClientGone): the
\* handler of a save is the only thing that can stop an apply.
Settled == job = None /\ ~torn

\* Whatever saves and reloads came before, in whatever order they overlapped,
\* the two registries list exactly the enabled entries of the running
\* configuration, and every task that runs was started from the entry listed
\* for it (the respawn conditions of the AutoDJ and relay diffs).
TasksMatchConfig == Settled =>
  /\ \A k \in Workers, p \in Paths :
       handles[k][p] = IF Enabled(config[k][p]) THEN config[k][p] ELSE Absent
  /\ \A t \in tasks : t.phase = "live" /\ t.cfg = handles[t.kind][t.path]

\* Two tasks never run for one entry, not even while it is restarted: the
\* old one has ended before the new one is spawned (cancel awaits the handle).
OneTaskPerEntry == ~torn =>
  \A t, u \in tasks : t.kind = u.kind /\ t.path = u.path => t = u

\* "so the runtime registry matches the configured set": every path listed
\* under [[mounts]], and every enabled AutoDJ or relay, has its mount.
ConfiguredIsRegistered == Settled =>
  /\ Listed(config, "mounts") \subseteq mounts
  /\ \A k \in Workers, p \in Paths : Enabled(config[k][p]) => p \in mounts

\* A running task publishes on the mount listeners find in the registry.
TasksAreHeard == Settled => \A t \in tasks : t.heard

\* Hot reload without listener drops: no step of an apply removes the mount
\* or stops the task of a path whose entry is the same before and after.
UnchangedUndisturbed ==
  [][\A p \in Paths :
       job # None /\ (\A s \in Sections : config[s][p] = job.target[s][p]) =>
         /\ p \in mounts => p \in mounts'
         /\ \A k \in Workers : handles'[k][p] = handles[k][p]]_vars

\* "Serializes read-modify-write of config.toml": with no edit by hand since
\* the last load, what is on disk is what runs.
SavedIsRunning == Settled /\ ~stale /\ disk # NoFile => disk = config
=============================================================================
