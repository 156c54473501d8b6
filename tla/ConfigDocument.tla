--------------------------- MODULE ConfigDocument ---------------------------
(***************************************************************************)
(* The data of a configuration save: the running configuration             *)
(* (rustyice-core/src/config.rs), the document config.toml holds, what     *)
(* GET /api/config shows of it, and for each PUT /api/config/<section> how *)
(* the request is resolved against the running configuration, validated    *)
(* (rustyice-admin/src/config_write.rs), turned into a candidate           *)
(* configuration (rustyice-admin/src/api/config.rs), and written into the  *)
(* document.  The last two are written twice in the code, once on the      *)
(* typed configuration and once on the TOML tables, and so they are here.  *)
(*                                                                         *)
(* Entries are records with their key in "at".  A password carries its     *)
(* owner, so that one entry's can be told from another's; the fields of an *)
(* entry that are only checked and copied are one value, "rest".           *)
(***************************************************************************)
CONSTANTS
  Paths,      \* mount paths the API accepts
  Names,      \* usernames
  Settings,   \* values of [server], [logging] and [limits] the API accepts
  Rates,      \* values of limits.source_max_kbps
  Transcodes, \* values of [transcode] the API accepts
  Rests,      \* values of an entry's remaining fields the API accepts
  Versions,   \* successive passwords of one owner
  Unset,      \* an absent key, a field left out of a request
  Blank,      \* the empty string
  Marker,     \* REDACTED, "***"
  Bad         \* a value the API refuses: out of range, empty, no leading "/"

Opt(S) == S \cup {Unset}

AdminSections == {"server", "transcode", "users"}
StreamSections == {"mounts", "autodjs", "relays"}
Sections == AdminSections \cup StreamSections

Global == <<"auth", Unset>>          \* the owner of [auth].source_password
PasswordsOf(owner) == {owner} \X Versions
Hash(password) == [bcrypt |-> password]

\* Option::unwrap_or, #[serde(default = ...)].
Given(v, default) == IF v = Unset THEN default ELSE v

\* A list of entries whose keys are unique, as a map.
Keyed(entries) == [k \in {e.at : e \in entries} |-> CHOOSE e \in entries : e.at = k]
Listed(map) == {map[k] : k \in DOMAIN map}
Unique(entries) == \A e, f \in entries : e.at = f.at => e = f
Map(map, Change(_)) == [k \in DOMAIN map |-> Change(map[k])]

-----------------------------------------------------------------------------
(* The document and the configuration read from it.                        *)

\* parse_str: keys a table leaves out get their defaults.  (A configuration
\* serialised whole, toml::to_string, leaves out nothing that has a default:
\* as a document it is itself.)
ParseUser(u) == [u EXCEPT !.role = Given(@, "admin")]
ParseAutodj(a) == [a EXCEPT !.enabled = Given(@, TRUE), !.loop = Given(@, TRUE),
                            !.order = Given(@, "shuffle")]
ParseRelay(r) == [r EXCEPT !.enabled = Given(@, TRUE)]
Parse(doc) == [doc EXCEPT !.users = Map(@, ParseUser),
                          !.autodjs = Map(@, ParseAutodj),
                          !.relays = Map(@, ParseRelay)]

\* Config::validate_paths.
ValidPaths(c) ==
  /\ \A p \in Paths : ~(p \in DOMAIN c.mounts /\ p \in DOMAIN c.autodjs)
  /\ DOMAIN c.relays \cap (DOMAIN c.mounts \cup DOMAIN c.autodjs) = {}
  /\ \A p \in DOMAIN c.relays : c.relays[p].username = Unset <=> c.relays[p].password = Unset

\* redact, build_config_response.
Veil(password) == IF password = Unset THEN Unset ELSE Marker
Redact(c) ==
  LET user(u) == [u EXCEPT !.hash = Marker]
      mount(m) == [m EXCEPT !.password = Marker]
      relay(r) == [r EXCEPT !.password = Veil(@)]
  IN [c EXCEPT !.users = Map(@, user), !.source_password = Veil(@),
               !.mounts = Map(@, mount), !.relays = Map(@, relay)]
Shown(c, isAdmin) ==
  IF isAdmin THEN Redact(c)
  ELSE [Redact(c) EXCEPT !.settings = Unset, !.rate = Unset, !.source_password = Unset,
                         !.users = <<>>, !.transcode = Unset]

-----------------------------------------------------------------------------
(* Whose passwords a configuration, a document and a request hold.         *)

\* UserConfig, MountConfig, RelayConfig with passwords of their own.  A mount
\* may carry the global one.
OwnUser(u, n) == /\ u = [at |-> u.at, hash |-> u.hash, role |-> u.role]
                 /\ \E password \in PasswordsOf(<<"user", n>>) : u.hash = Hash(password)
OwnMount(m, at) == /\ m = [at |-> m.at, password |-> m.password, rest |-> m.rest]
                   /\ m.password \in PasswordsOf(<<"mount", at>>) \cup PasswordsOf(Global)
OwnRelay(r, at) == /\ r = [at |-> r.at, enabled |-> r.enabled, username |-> r.username,
                           password |-> r.password, rest |-> r.rest]
                   /\ r.password \in Opt(PasswordsOf(<<"relay", at>>))
HasSections(c) ==
  c = [settings |-> c.settings, rate |-> c.rate, source_password |-> c.source_password,
       transcode |-> c.transcode, users |-> c.users, mounts |-> c.mounts,
       autodjs |-> c.autodjs, relays |-> c.relays]
OwnPasswords(c) ==
  /\ HasSections(c)
  /\ c.source_password \in Opt(PasswordsOf(Global))
  /\ \A n \in DOMAIN c.users : OwnUser(c.users[n], n)
  /\ \A at \in DOMAIN c.mounts : OwnMount(c.mounts[at], at)
  /\ \A at \in DOMAIN c.relays : OwnRelay(c.relays[at], at)

HasAdmin(c) == \E n \in DOMAIN c.users : Given(c.users[n].role, "admin") = "admin"

\* What a client puts in a password field of an entry.
Supplied(owner) == PasswordsOf(owner) \cup {Unset, Blank, Marker}
OwnRequests(bodies) ==
  /\ \A b \in bodies["server"] : b.source_password \in Supplied(Global)
  /\ \A b \in bodies["users"] : \A u \in b : u.password \in Supplied(<<"user", u.at>>)
  /\ \A b \in bodies["mounts"] : \A m \in b :
       /\ m = [at |-> m.at, password |-> m.password, rest |-> m.rest]
       /\ m.password \in Supplied(<<"mount", m.at>>)
  /\ \A b \in bodies["relays"] : \A r \in b :
       /\ r = [at |-> r.at, enabled |-> r.enabled, username |-> r.username,
               password |-> r.password, rest |-> r.rest]
       /\ r.password \in Supplied(<<"relay", r.at>>)

\* AutoDjSubBody, RelaySubBody: their flags are booleans or left out.
FlagsAreBooleans(bodies) ==
  /\ \A b \in bodies["autodjs"] : \A a \in b :
       /\ a = [at |-> a.at, enabled |-> a.enabled, loop |-> a.loop, order |-> a.order,
               rest |-> a.rest]
       /\ a.enabled \in Opt(BOOLEAN) /\ a.loop \in Opt(BOOLEAN)
  /\ \A b \in bodies["relays"] : \A r \in b : r.enabled \in Opt(BOOLEAN)

-----------------------------------------------------------------------------
(* What a request supplies for a password.                                 *)

\* Mutant: the redaction marker is taken for a password.
TypedMarker(s) == s \notin {Unset, Blank}

Typed(s) == s \notin {Unset, Blank, Marker}

Refused == Bad
Accepted(patch, candidate) == [patch |-> patch, candidate |-> candidate]
AcceptedPaths(patch, candidate) ==
  IF ValidPaths(candidate) THEN Accepted(patch, candidate) ELSE Refused

-----------------------------------------------------------------------------
(* PUT /api/config/server                                                  *)

ValidateServerPatch(p) == p.settings # Bad

\* The password of [auth] is written only when the request brings a new one.
\* The rate is an optional key of [limits], taken to be a table of its own.
ApplyServerPatch(doc, p) ==
  [doc EXCEPT !.settings = p.settings, !.rate = p.rate,
              !.source_password = IF p.auth = Unset THEN @ ELSE p.auth]

PutServer(c, b) ==
  LET p == [settings |-> b.settings, rate |-> b.rate,
            auth |-> IF Typed(b.source_password) THEN b.source_password ELSE Unset]
  IN IF ValidateServerPatch(p)
     THEN AcceptedPaths(p, [c EXCEPT !.settings = p.settings, !.rate = p.rate,
                                     !.source_password = Given(p.auth, @)])
     ELSE Refused

-----------------------------------------------------------------------------
(* PUT /api/config/transcode                                               *)

ValidateTranscodePatch(t) == t # Bad

ApplyTranscodePatch(doc, t) == [doc EXCEPT !.transcode = t]

PutTranscode(c, t) ==
  IF ValidateTranscodePatch(t) THEN AcceptedPaths(t, [c EXCEPT !.transcode = t]) ELSE Refused

-----------------------------------------------------------------------------
(* PUT /api/config/mounts                                                  *)

\* What the client typed, else what the mount has, else the global password.
MountPassword(c, m) ==
  IF Typed(m.password) THEN m.password
  ELSE IF m.at \in DOMAIN c.mounts THEN c.mounts[m.at].password
  ELSE c.source_password

\* A list is a set: an entry given twice, word for word, counts once.
ValidateMountsPatch(ms) ==
  /\ Unique(ms)
  /\ \A m \in ms : m.at \in Paths /\ m.rest # Bad

ApplyMountsPatch(doc, ms) == [doc EXCEPT !.mounts = Keyed(ms)]

\* An unresolved password is a 400.
PutMounts(c, b) ==
  LET ms == {[m EXCEPT !.password = MountPassword(c, m)] : m \in b}
  IN IF (\A m \in ms : m.password # Unset) /\ ValidateMountsPatch(ms)
     THEN AcceptedPaths(ms, [c EXCEPT !.mounts = Keyed(ms)])
     ELSE Refused

-----------------------------------------------------------------------------
(* PUT /api/config/users                                                   *)

UserHash(c, u) ==
  IF Typed(u.password) THEN Hash(u.password)
  ELSE IF u.at \in DOMAIN c.users THEN c.users[u.at].hash
  ELSE Unset

\* Mutant: the list may be without an admin.
ValidateUsersAlone(us) ==
  /\ Unique(us)
  /\ \A u \in us : u.at \in Names /\ u.hash # Unset /\ u.role \in {"admin", "operator"}

ValidateUsersPatch(us) ==
  /\ Unique(us)
  /\ \A u \in us : u.at \in Names /\ u.hash # Unset /\ u.role \in {"admin", "operator"}
  /\ \E u \in us : u.role = "admin"

ApplyUsersPatch(doc, us) == [doc EXCEPT !.users = Keyed(us)]

\* The requester, when the session still tells who it is, must stay an admin.
PutUsers(c, who, b) ==
  LET us == {[at |-> u.at, hash |-> UserHash(c, u), role |-> u.role] : u \in b}
      stays == \E u \in b : u.at = who /\ u.role = "admin"
  IN IF (who \in Names => stays) /\ ValidateUsersPatch(us)
     THEN Accepted(us, [c EXCEPT !.users = Keyed(us)])
     ELSE Refused

-----------------------------------------------------------------------------
(* PUT /api/config/autodjs                                                 *)

ValidateAutodjsPatch(as) ==
  /\ Unique(as)
  /\ \A a \in as : a.at \in Paths /\ a.order \in {"shuffle", "sequential"} /\ a.rest # Bad

\* enabled and loop are written only when they are not the default.
ApplyAutodjsPatch(doc, as) ==
  LET table(a) == [a EXCEPT !.enabled = IF a.enabled THEN Unset ELSE FALSE,
                            !.loop = IF a.loop THEN Unset ELSE FALSE]
  IN [doc EXCEPT !.autodjs = Map(Keyed(as), table)]

PutAutodjs(c, b) ==
  LET as == {ParseAutodj(a) : a \in b}
  IN IF ValidateAutodjsPatch(as)
     THEN AcceptedPaths(as, [c EXCEPT !.autodjs = Keyed(as)])
     ELSE Refused

-----------------------------------------------------------------------------
(* PUT /api/config/relays                                                  *)

\* Mutant: a blank field removes the password.
RelayPasswordForgotten(c, r) == IF Typed(r.password) THEN r.password ELSE Unset

\* What the client typed, else what the relay of this mount has.
RelayPassword(c, r) ==
  IF Typed(r.password) THEN r.password
  ELSE IF r.at \in DOMAIN c.relays THEN c.relays[r.at].password
  ELSE Unset

\* Half-set credentials are refused; an empty username counts as none here,
\* and as one in validate_paths.
ValidateRelaysPatch(rs) ==
  /\ Unique(rs)
  /\ \A r \in rs :
       /\ r.at \in Paths /\ r.rest # Bad
       /\ r.username \notin {Unset, Blank} => r.password # Unset
       /\ r.username = Unset => r.password = Unset

\* Mutant: the enabled key is never written.
ApplyRelaysPatchEnabled(doc, rs) ==
  LET table(r) == [r EXCEPT !.enabled = Unset] IN [doc EXCEPT !.relays = Map(Keyed(rs), table)]

ApplyRelaysPatch(doc, rs) ==
  LET table(r) == [r EXCEPT !.enabled = IF r.enabled THEN Unset ELSE FALSE]
  IN [doc EXCEPT !.relays = Map(Keyed(rs), table)]

PutRelays(c, b) ==
  LET rs == {[ParseRelay(r) EXCEPT !.password = RelayPassword(c, r)] : r \in b}
  IN IF ValidateRelaysPatch(rs)
     THEN AcceptedPaths(rs, [c EXCEPT !.relays = Keyed(rs)])
     ELSE Refused

-----------------------------------------------------------------------------
(* The section a request names picks the handler.                          *)

Put(c, who, section, b) ==
  CASE section = "server" -> PutServer(c, b)
    [] section = "transcode" -> PutTranscode(c, b)
    [] section = "users" -> PutUsers(c, who, b)
    [] section = "mounts" -> PutMounts(c, b)
    [] section = "autodjs" -> PutAutodjs(c, b)
    [] section = "relays" -> PutRelays(c, b)

ApplyPatch(doc, section, patch) ==
  CASE section = "server" -> ApplyServerPatch(doc, patch)
    [] section = "transcode" -> ApplyTranscodePatch(doc, patch)
    [] section = "users" -> ApplyUsersPatch(doc, patch)
    [] section = "mounts" -> ApplyMountsPatch(doc, patch)
    [] section = "autodjs" -> ApplyAutodjsPatch(doc, patch)
    [] section = "relays" -> ApplyRelaysPatch(doc, patch)

\* What the console sends back when the operator changes nothing: the section
\* as GET showed it.
Echo(shown, section) ==
  CASE section = "server" -> [settings |-> shown.settings, rate |-> shown.rate,
                              source_password |-> shown.source_password]
    [] section = "transcode" -> shown.transcode
    [] section = "users" -> {[at |-> u.at, password |-> u.hash, role |-> u.role] :
                                u \in Listed(shown.users)}
    [] section = "mounts" -> Listed(shown.mounts)
    [] section = "autodjs" -> Listed(shown.autodjs)
    [] section = "relays" -> Listed(shown.relays)
=============================================================================
