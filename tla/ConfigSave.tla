----------------------------- MODULE ConfigSave -----------------------------
(***************************************************************************)
(* The admin console saves configuration: sessions and roles               *)
(* (api/auth.rs, router.rs), the PUT /api/config/<section> handlers and    *)
(* persist_and_apply (api/config.rs), the write of config.toml through a   *)
(* temporary file (atomic_write), the credentials sources and users are    *)
(* checked against (TomlBcryptAuth), SIGHUP, and a server that is killed   *)
(* at any point and started again from the file.                           *)
(* What apply_config does to mounts and tasks is ConfigReload; here it     *)
(* reloads the credentials, may wait for tasks, and stores the             *)
(* configuration.                                                          *)
(***************************************************************************)
EXTENDS ConfigDocument, Naturals

CONSTANTS
  Clients,   \* browsers
  Bodies,    \* section -> request bodies they send
  Files,     \* documents an operator writes to config.toml by hand
  Defaults,  \* the built-in configuration, with its generated passwords
  MaxSaves,  \* bound: saves that get past their handler
  MaxFaults, \* bound: edits by hand, kills, SIGHUPs, failed writes
  NoFile,    \* no such file
  Garbage,   \* text that does not parse: a broken edit, half a write
  None

\* Passwords in requests, in files written by hand and in the built-in
\* configuration are their owner's, and each of those files names an admin.
ASSUME ConfigAssumption ==
  /\ OwnRequests(Bodies)
  /\ \A f \in Files \ {NoFile, Garbage} : OwnPasswords(f) /\ HasAdmin(f)
  /\ OwnPasswords(Defaults)
  /\ \E n \in DOMAIN Defaults.users : Defaults.users[n].role = "admin"

\* Flags in request bodies are booleans or left out; the built-in configuration
\* is complete and its paths are valid; "sighup" names no browser, and an absent
\* key is none of the values a key can have.
ASSUME DocumentAssumption ==
  /\ FlagsAreBooleans(Bodies)
  /\ Parse(Defaults) = Defaults /\ ValidPaths(Defaults)
  /\ "sighup" \notin Clients
  /\ Unset # "operator" /\ Unset # FALSE

VARIABLES
  config,  \* the running configuration (ArcSwap<Config>)
  auth,    \* TomlBcryptAuth: user hashes, mount passwords, global password
  disk,    \* config.toml
  tmp,     \* config.toml.tmp
  origin,  \* config_path: None on "defaults", set by a save ("saved") or at
           \*   the start ("file"; only then SIGHUP is watched)
  up,      \* the process runs
  session, \* client -> the user of its session
  req,     \* client -> its request
  job,     \* the holder of config_write_lock
  taint,   \* history: what may make config.toml and what runs differ since
           \*   the file was last loaded
  spent    \* saves and faults so far

vars == <<config, auth, disk, tmp, origin, up, session, req, job, taint, spent>>

\* Nobody holds config_write_lock.
Idle == [stage |-> "idle"]

-----------------------------------------------------------------------------
(* Start.                                                                  *)

\* user_map, mount_map, default_source_password.
AuthOf(c) == [users |-> Map(c.users, LAMBDA u : u.hash),
              mounts |-> Map(c.mounts, LAMBDA m : m.password),
              global |-> c.source_password]

Loadable(file) == file \notin {NoFile, Garbage} /\ ValidPaths(Parse(file))

\* load_or_default_config.
Load(file) ==
  /\ file = NoFile \/ Loadable(file)
  /\ config' = IF file = NoFile THEN Defaults ELSE Parse(file)
  /\ auth' = AuthOf(config')
  /\ origin' = IF file = NoFile THEN "defaults" ELSE "file"
  /\ up' = TRUE

Init ==
  /\ disk \in {NoFile} \cup {f \in Files : Loadable(f)}
  /\ config = IF disk = NoFile THEN Defaults ELSE Parse(disk)
  /\ auth = AuthOf(config)
  /\ origin = IF disk = NoFile THEN "defaults" ELSE "file"
  /\ tmp = NoFile
  /\ up = TRUE
  /\ session = [c \in Clients |-> None]
  /\ req = [c \in Clients |-> None]
  /\ job = Idle
  /\ taint = {}
  /\ spent = [saves |-> 0, faults |-> 0]

Fault == spent.faults < MaxFaults /\ spent' = [spent EXCEPT !.faults = @ + 1]

-----------------------------------------------------------------------------
(* Sessions.                                                               *)

\* login: verify_admin, then a fresh token.
Login(c, n) ==
  /\ up /\ session[c] = None /\ req[c] = None
  /\ n \in DOMAIN auth.users
  /\ \E password \in PasswordsOf(<<"user", n>>) : auth.users[n] = Hash(password)
  /\ session' = [session EXCEPT ![c] = n]
  /\ UNCHANGED <<config, auth, disk, tmp, origin, up, req, job, taint, spent>>

\* logout revokes the token; one unused for a day is dropped by touch.
SessionEnds(c) ==
  /\ up /\ session[c] # None
  /\ session' = [session EXCEPT ![c] = None]
  /\ UNCHANGED <<config, auth, disk, tmp, origin, up, req, job, taint, spent>>

\* session_role: the role of a user who is gone is the most restrictive one.
Role(n) == IF n \in DOMAIN config.users THEN config.users[n].role ELSE "operator"

-----------------------------------------------------------------------------
(* A save.                                                                 *)

\* require_session, require_admin; then the body is read.
Gate(c, section) ==
  /\ up /\ req[c] = None /\ session[c] # None
  /\ section \in AdminSections => Role(session[c]) = "admin"
  /\ spent.saves < MaxSaves
  /\ req' = [req EXCEPT ![c] = [stage |-> "admitted", section |-> section]]
  /\ UNCHANGED <<config, auth, disk, tmp, origin, up, session, job, taint, spent>>

\* The handler, up to the lock: resolve, validate, build the candidate from
\* the configuration that runs now.  A 400 changes nothing.
Handle(c, section, b) ==
  LET r == Put(config, session[c], section, b)
  IN /\ up /\ req[c] = [stage |-> "admitted", section |-> section]
     /\ IF r = Refused
        THEN req' = [req EXCEPT ![c] = None] /\ UNCHANGED spent
        ELSE /\ req' = [req EXCEPT ![c] =
                  [stage |-> "waiting", section |-> section, patch |-> r.patch,
                   candidate |-> r.candidate, stale |-> FALSE]]
             /\ spent' = [spent EXCEPT !.saves = @ + 1]
     /\ UNCHANGED <<config, auth, disk, tmp, origin, up, session, job, taint>>

\* The client disconnects before its handler has the lock.
Leave(c) ==
  /\ req[c] # None /\ (job.stage # "idle" => job.by # c)
  /\ req' = [req EXCEPT ![c] = None]
  /\ UNCHANGED <<config, auth, disk, tmp, origin, up, session, job, taint, spent>>

\* persist_and_apply takes the lock and patches the document: the file's, or
\* the candidate's own when there is none to patch.  A file that does not
\* parse is a 500.
Persist(c) ==
  LET r == req[c]
      doc == IF origin # "defaults" /\ disk # NoFile THEN disk ELSE r.candidate
  IN /\ up /\ job.stage = "idle" /\ r # None /\ r.stage = "waiting"
     /\ IF doc = Garbage
        THEN req' = [req EXCEPT ![c] = None] /\ UNCHANGED job
        ELSE /\ job' = [by |-> c, stage |-> "create", target |-> r.candidate,
                        file |-> ApplyPatch(doc, r.section, r.patch)]
             /\ UNCHANGED req
     /\ UNCHANGED <<config, auth, disk, tmp, origin, up, session, taint, spent>>

At(stage) == up /\ job.stage = stage
Goto(stage) == job' = [job EXCEPT !.stage = stage]

\* Mutant of CreateTmp: the file itself is truncated and rewritten.
TruncateFile ==
  /\ At("create") /\ Goto("fill")
  /\ tmp' = Garbage /\ disk' = Garbage
  /\ UNCHANGED <<config, auth, origin, up, session, req, taint, spent>>

\* atomic_write: create, write and sync, rename.
CreateTmp ==
  /\ At("create") /\ Goto("fill")
  /\ tmp' = Garbage
  /\ UNCHANGED <<config, auth, disk, origin, up, session, req, taint, spent>>

FillTmp ==
  /\ At("fill") /\ Goto("rename")
  /\ tmp' = job.file
  /\ UNCHANGED <<config, auth, disk, origin, up, session, req, taint, spent>>

RenameTmp ==
  /\ At("rename") /\ Goto("auth")
  /\ disk' = tmp
  /\ tmp' = NoFile
  /\ taint' = taint \cup IF req[job.by].stale THEN {"overlap"} ELSE {}
  /\ UNCHANGED <<config, auth, origin, up, session, req, spent>>

\* Any step of it fails: a 500, the lock is released.  Only a failed rename
\* removes the temporary file.
WriteFails ==
  /\ At("create") \/ At("fill") \/ At("rename")
  /\ Fault
  /\ tmp' = IF job.stage = "rename" THEN NoFile ELSE tmp
  /\ req' = [req EXCEPT ![job.by] = None]
  /\ job' = Idle
  /\ UNCHANGED <<config, auth, disk, origin, up, session, taint>>

\* Mutant of ReloadAuth: the mount passwords are not reloaded.
ReloadUsers ==
  /\ At("auth") /\ Goto("store")
  /\ auth' = [AuthOf(job.target) EXCEPT !.mounts = auth.mounts]
  /\ UNCHANGED <<config, disk, tmp, origin, up, session, req, taint, spent>>

\* apply_config starts with auth.reload, whose three stores are one step:
\* nothing is said of a login that falls between them ...
ReloadAuth ==
  /\ At("auth") /\ Goto("store")
  /\ auth' = AuthOf(job.target)
  /\ UNCHANGED <<config, disk, tmp, origin, up, session, req, taint, spent>>

\* ... waits for the tasks of AutoDJs and relays that changed, where a client
\* that disconnects takes its handler, and the apply, with it ...
ClientGone ==
  /\ At("store") /\ job.by \in Clients
  /\ job.target.autodjs # config.autodjs \/ job.target.relays # config.relays
  /\ taint' = taint \cup {"drop"}
  /\ req' = [req EXCEPT ![job.by] = None]
  /\ job' = Idle
  /\ UNCHANGED <<config, auth, disk, tmp, origin, up, session, spent>>

\* ... and stores the configuration.  The candidates of requests that wait
\* for the lock were built before.
Store ==
  /\ At("store")
  /\ config' = job.target
  /\ origin' = IF origin = "defaults" THEN "saved" ELSE origin
  /\ taint' = IF job.by = "sighup" /\ disk = job.file THEN {} ELSE taint
  /\ req' = [c \in Clients |->
               IF c = job.by THEN None
               ELSE IF req[c] # None /\ req[c].stage = "waiting"
               THEN [req[c] EXCEPT !.stale = @ \/ job.target # config]
               ELSE req[c]]
  /\ job' = Idle
  /\ UNCHANGED <<auth, disk, tmp, up, session, spent>>

-----------------------------------------------------------------------------
(* Around it.                                                              *)

EditByHand(f) ==
  /\ Fault
  /\ disk' = f
  /\ taint' = taint \cup {"edit"}
  /\ UNCHANGED <<config, auth, tmp, origin, up, session, req, job>>

\* do_reload_from_disk: a file that does not load changes nothing.
Sighup ==
  /\ up /\ job.stage = "idle" /\ origin = "file"
  /\ Loadable(disk)
  /\ Fault
  /\ job' = [by |-> "sighup", stage |-> "auth", target |-> Parse(disk), file |-> disk]
  /\ UNCHANGED <<config, auth, disk, tmp, origin, up, session, req, taint>>

\* The process is killed; the sessions are in its memory.
Kill ==
  /\ up /\ Fault
  /\ up' = FALSE
  /\ session' = [c \in Clients |-> None]
  /\ req' = [c \in Clients |-> None]
  /\ job' = Idle
  /\ UNCHANGED <<config, auth, disk, tmp, origin, taint>>

Restart ==
  /\ ~up /\ Load(disk)
  /\ taint' = {}
  /\ UNCHANGED <<disk, tmp, session, req, job, spent>>

Next ==
  \/ \E c \in Clients :
       \/ \E n \in Names : Login(c, n)
       \/ SessionEnds(c)
       \/ \E section \in Sections : Gate(c, section)
       \/ \E section \in Sections : \E b \in Bodies[section] : Handle(c, section, b)
       \/ Leave(c)
       \/ Persist(c)
  \/ CreateTmp \/ FillTmp \/ RenameTmp \/ WriteFails
  \/ ReloadAuth \/ ClientGone \/ Store
  \/ \E f \in Files : EditByHand(f)
  \/ Sighup
  \/ Kill
  \/ Restart

Spec == Init /\ [][Next]_vars

-----------------------------------------------------------------------------
(* Properties.                                                             *)

\* The redaction marker, a blank field or another entry's password never
\* becomes a password, in the running configuration or in the file, whatever
\* sections clients send back, edited or not, through whatever overlaps,
\* reloads and restarts.
PasswordsStayPut ==
  /\ OwnPasswords(config)
  /\ disk \notin {NoFile, Garbage} => OwnPasswords(disk)

\* Saving a section as GET showed it, passwords redacted, changes nothing, and
\* is refused only for a value the API refuses (a file may hold one).
InRange(section) == section = "server" => config.settings # Bad
EchoIsNoop ==
  \A n \in DOMAIN config.users :
    LET isAdmin == config.users[n].role = "admin"
    IN \A section \in IF isAdmin THEN Sections ELSE StreamSections :
         LET r == Put(config, n, section, Echo(Shown(config, isAdmin), section))
         IN IF InRange(section) THEN r # Refused /\ r.candidate = config ELSE r = Refused

\* What is on disk is what runs, unless the file was edited by hand, saves
\* overlapped or an apply was dropped.
FileIsRunning ==
  up /\ job.stage = "idle" /\ taint = {} /\ disk # NoFile => disk # Garbage /\ Parse(disk) = config

\* At every point of a save, failed or killed half-way, the server would start
\* from the file that is there.
RestartLoads == taint = {} => disk = NoFile \/ Loadable(disk)

\* Sources and users are checked against the configuration that runs.
AuthFollowsConfig == up /\ job.stage = "idle" /\ "drop" \notin taint => auth = AuthOf(config)

\* Nobody is locked out: an admin of the running configuration can log in.
AdminCanLogIn ==
  up /\ job.stage = "idle" /\ "drop" \notin taint =>
    \E n \in DOMAIN config.users \cap DOMAIN auth.users :
      /\ config.users[n].role = "admin"
      /\ \E p \in PasswordsOf(<<"user", n>>) : auth.users[n] = Hash(p)

\* "Cannot change server settings or add/remove other users": a save of a
\* stream section leaves the rest of the running configuration alone.
OperatorsChangeStreamsOnly ==
  [][job.stage # "idle" /\ job.by \in Clients /\ req[job.by].section \in StreamSections =>
       /\ config'.settings = config.settings /\ config'.transcode = config.transcode
       /\ config'.users = config.users]_vars
=============================================================================
