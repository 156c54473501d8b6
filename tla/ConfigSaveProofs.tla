-------------------------- MODULE ConfigSaveProofs --------------------------
(***************************************************************************)
(* Theorems about ConfigSave: no save, reload, kill or restart moves a     *)
(* password to an entry it does not belong to or turns the redaction       *)
(* marker into one, the credentials clients are checked against follow the *)
(* running configuration, and an admin can always log in.                  *)
(***************************************************************************)
EXTENDS ConfigSave, TLAPS

\* A document to load, or to patch.
Kept(doc) == OwnPasswords(doc) /\ HasAdmin(doc)

\* A resolved request: the patch of its section, as it is written to the file.
OwnPatch(section, patch) ==
  /\ section = "server" => patch.auth \in Opt(PasswordsOf(Global))
  /\ section = "users" => /\ \A u \in patch : OwnUser(u, u.at)
                          /\ \E u \in patch : u.role = "admin"
                          /\ Unique(patch)
  /\ section = "mounts" => \A m \in patch : OwnMount(m, m.at)
  /\ section = "relays" => \A r \in patch : OwnRelay(r, r.at)

-----------------------------------------------------------------------------
(* The document.                                                           *)

\* Writing one key of a document leaves the others alone.
LEMMA WriteKey ==
  ASSUME NEW c, HasSections(c), NEW x, NEW d
  PROVE
    /\ d = [c EXCEPT !.settings = x] =>
         /\ HasSections(d)
         /\ d.settings = x /\ d.rate = c.rate /\ d.source_password = c.source_password /\ d.transcode = c.transcode
         /\ d.users = c.users /\ d.mounts = c.mounts /\ d.autodjs = c.autodjs /\ d.relays = c.relays
    /\ d = [c EXCEPT !.rate = x] =>
         /\ HasSections(d)
         /\ d.settings = c.settings /\ d.rate = x /\ d.source_password = c.source_password /\ d.transcode = c.transcode
         /\ d.users = c.users /\ d.mounts = c.mounts /\ d.autodjs = c.autodjs /\ d.relays = c.relays
    /\ d = [c EXCEPT !.source_password = x] =>
         /\ HasSections(d)
         /\ d.settings = c.settings /\ d.rate = c.rate /\ d.source_password = x /\ d.transcode = c.transcode
         /\ d.users = c.users /\ d.mounts = c.mounts /\ d.autodjs = c.autodjs /\ d.relays = c.relays
    /\ d = [c EXCEPT !.transcode = x] =>
         /\ HasSections(d)
         /\ d.settings = c.settings /\ d.rate = c.rate /\ d.source_password = c.source_password /\ d.transcode = x
         /\ d.users = c.users /\ d.mounts = c.mounts /\ d.autodjs = c.autodjs /\ d.relays = c.relays
    /\ d = [c EXCEPT !.users = x] =>
         /\ HasSections(d)
         /\ d.settings = c.settings /\ d.rate = c.rate /\ d.source_password = c.source_password /\ d.transcode = c.transcode
         /\ d.users = x /\ d.mounts = c.mounts /\ d.autodjs = c.autodjs /\ d.relays = c.relays
    /\ d = [c EXCEPT !.mounts = x] =>
         /\ HasSections(d)
         /\ d.settings = c.settings /\ d.rate = c.rate /\ d.source_password = c.source_password /\ d.transcode = c.transcode
         /\ d.users = c.users /\ d.mounts = x /\ d.autodjs = c.autodjs /\ d.relays = c.relays
    /\ d = [c EXCEPT !.autodjs = x] =>
         /\ HasSections(d)
         /\ d.settings = c.settings /\ d.rate = c.rate /\ d.source_password = c.source_password /\ d.transcode = c.transcode
         /\ d.users = c.users /\ d.mounts = c.mounts /\ d.autodjs = x /\ d.relays = c.relays
    /\ d = [c EXCEPT !.relays = x] =>
         /\ HasSections(d)
         /\ d.settings = c.settings /\ d.rate = c.rate /\ d.source_password = c.source_password /\ d.transcode = c.transcode
         /\ d.users = c.users /\ d.mounts = c.mounts /\ d.autodjs = c.autodjs /\ d.relays = x
BY DEF HasSections

LEMMA ParseUserKeeps ==
  ASSUME NEW u, NEW n, OwnUser(u, n)
  PROVE  OwnUser(ParseUser(u), n) /\ ParseUser(u).role = Given(u.role, "admin")
BY DEF OwnUser, ParseUser

\* Writing one key of a relay leaves the others alone.
LEMMA WriteRelayKey ==
  ASSUME NEW r, NEW x,
         r = [at |-> r.at, enabled |-> r.enabled, username |-> r.username,
              password |-> r.password, rest |-> r.rest]
  PROVE  /\ [r EXCEPT !.enabled = x] =
              [at |-> r.at, enabled |-> x, username |-> r.username,
               password |-> r.password, rest |-> r.rest]
         /\ [r EXCEPT !.password = x] =
              [at |-> r.at, enabled |-> r.enabled, username |-> r.username,
               password |-> x, rest |-> r.rest]
OBVIOUS

LEMMA ParsedRelay ==
  ASSUME NEW r,
         r = [at |-> r.at, enabled |-> r.enabled, username |-> r.username,
              password |-> r.password, rest |-> r.rest]
  PROVE  ParseRelay(r) = [at |-> r.at, enabled |-> Given(r.enabled, TRUE), username |-> r.username,
                          password |-> r.password, rest |-> r.rest]
<1>1. ParseRelay(r) = [r EXCEPT !.enabled = Given(r.enabled, TRUE)]
  BY Zenon DEF ParseRelay
<1> DEFINE x == Given(r.enabled, TRUE)
<1> HIDE DEF x
<1>2. [r EXCEPT !.enabled = x] = [at |-> r.at, enabled |-> x, username |-> r.username,
                                  password |-> r.password, rest |-> r.rest]
  BY WriteRelayKey
<1> QED
  BY <1>1, <1>2 DEF x

LEMMA ParseRelayKeeps ==
  ASSUME NEW r, NEW at, OwnRelay(r, at)
  PROVE  OwnRelay(ParseRelay(r), at)
<1> DEFINE e == ParseRelay(r)
<1>1. e = [at |-> r.at, enabled |-> Given(r.enabled, TRUE), username |-> r.username,
           password |-> r.password, rest |-> r.rest]
  BY ParsedRelay DEF OwnRelay
<1> HIDE DEF e
<1>2. r.password \in Opt(PasswordsOf(<<"relay", at>>))
  BY DEF OwnRelay
<1>3. OwnRelay(e, at)
  BY <1>1, <1>2 DEF OwnRelay
<1> QED
  BY <1>3 DEF e

\* What is left of an entry of a request when its password is resolved.
LEMMA ResolvedMount ==
  ASSUME NEW m, m = [at |-> m.at, password |-> m.password, rest |-> m.rest], NEW x
  PROVE  [m EXCEPT !.password = x] = [at |-> m.at, password |-> x, rest |-> m.rest]
OBVIOUS

LEMMA ResolvedRelay ==
  ASSUME NEW r, NEW x,
         r = [at |-> r.at, enabled |-> r.enabled, username |-> r.username,
              password |-> r.password, rest |-> r.rest]
  PROVE  [ParseRelay(r) EXCEPT !.password = x] =
           [at |-> r.at, enabled |-> Given(r.enabled, TRUE), username |-> r.username,
            password |-> x, rest |-> r.rest]
<1> DEFINE e == ParseRelay(r)
<1>1. e = [at |-> r.at, enabled |-> Given(r.enabled, TRUE), username |-> r.username,
           password |-> r.password, rest |-> r.rest]
  BY ParsedRelay
<1> HIDE DEF e
<1>2. [e EXCEPT !.password = x] =
        [at |-> e.at, enabled |-> e.enabled, username |-> e.username,
         password |-> x, rest |-> e.rest]
  <2>1. e = [at |-> e.at, enabled |-> e.enabled, username |-> e.username,
             password |-> e.password, rest |-> e.rest]
    BY <1>1
  <2> QED
    BY <2>1, WriteRelayKey
<1> QED
  BY <1>1, <1>2 DEF e

\* Keys left out get their defaults; nobody's password or role changes.
LEMMA ParseKeeps ==
  ASSUME NEW doc, Kept(doc)
  PROVE  Kept(Parse(doc)) /\ \E n \in DOMAIN Parse(doc).users : Parse(doc).users[n].role = "admin"
<1> DEFINE c == Parse(doc)
           c1 == [doc EXCEPT !.users = Map(@, ParseUser)]
           c2 == [c1 EXCEPT !.autodjs = Map(@, ParseAutodj)]
           c3 == [c2 EXCEPT !.relays = Map(@, ParseRelay)]
<1>1. HasSections(doc)
  BY DEF Kept, OwnPasswords
<1>2. c = c3
  BY <1>1 DEF Parse, Map
<1>3. /\ HasSections(c1) /\ c1.source_password = doc.source_password
      /\ c1.users = Map(doc.users, ParseUser) /\ c1.mounts = doc.mounts /\ c1.relays = doc.relays
  BY <1>1, WriteKey
<1> HIDE DEF c1
<1>4. /\ HasSections(c2) /\ c2.source_password = c1.source_password
      /\ c2.users = c1.users /\ c2.mounts = c1.mounts /\ c2.relays = c1.relays
  BY <1>3, WriteKey
<1> HIDE DEF c2
<1>5. /\ HasSections(c3) /\ c3.source_password = c2.source_password
      /\ c3.users = c2.users /\ c3.mounts = c2.mounts /\ c3.relays = Map(c2.relays, ParseRelay)
  BY <1>4, WriteKey
<1> HIDE DEF c, c3
<1>6. /\ HasSections(c) /\ c.source_password = doc.source_password /\ c.mounts = doc.mounts
      /\ c.users = [n \in DOMAIN doc.users |-> ParseUser(doc.users[n])]
      /\ c.relays = [at \in DOMAIN doc.relays |-> ParseRelay(doc.relays[at])]
  BY <1>2, <1>3, <1>4, <1>5 DEF Map
<1>7. \A n \in DOMAIN doc.users : /\ OwnUser(ParseUser(doc.users[n]), n)
                                  /\ ParseUser(doc.users[n]).role = Given(doc.users[n].role, "admin")
  BY ParseUserKeeps DEF Kept, OwnPasswords
<1>8. \A at \in DOMAIN doc.relays : OwnRelay(ParseRelay(doc.relays[at]), at)
  BY ParseRelayKeeps DEF Kept, OwnPasswords
<1>9. OwnPasswords(c)
  BY <1>6, <1>7, <1>8 DEF Kept, OwnPasswords
<1>10. \E n \in DOMAIN c.users : c.users[n].role = "admin"
  BY <1>6, <1>7 DEF Kept, HasAdmin
<1>11. HasAdmin(c)
  BY <1>10 DEF HasAdmin, Given
<1> QED
  BY <1>9, <1>10, <1>11 DEF Kept, c

\* The entry Keyed picks for a key is one of the list, with that key.
LEMMA KeyedPicks ==
  ASSUME NEW entries
  PROVE  /\ DOMAIN Keyed(entries) = {e.at : e \in entries}
         /\ \A k \in DOMAIN Keyed(entries) : Keyed(entries)[k] \in entries /\ Keyed(entries)[k].at = k
BY DEF Keyed

-----------------------------------------------------------------------------
(* Each section: a request that is accepted has a patch and a candidate    *)
(* with their owners' passwords, and so has the patched document.          *)

\* What a handler returns for a request that holds its own passwords.
Sound(r, section) ==
  r # Refused => /\ r = Accepted(r.patch, r.candidate)
                 /\ OwnPatch(section, r.patch)
                 /\ Kept(r.candidate)
                 /\ \E n \in DOMAIN r.candidate.users : r.candidate.users[n].role = "admin"

Running(c) == Kept(c) /\ \E n \in DOMAIN c.users : c.users[n].role = "admin"

LEMMA ServerSound ==
  ASSUME NEW c, Running(c), NEW b, b.source_password \in Supplied(Global)
  PROVE  Sound(PutServer(c, b), "server")
<1> DEFINE pw == IF Typed(b.source_password) THEN b.source_password ELSE Unset
           p == [settings |-> b.settings, rate |-> b.rate, auth |-> pw]
           c1 == [c EXCEPT !.settings = p.settings]
           c2 == [c1 EXCEPT !.rate = p.rate]
           c3 == [c2 EXCEPT !.source_password = Given(p.auth, @)]
<1>1. HasSections(c)
  BY DEF Running, Kept, OwnPasswords
<1>2. pw \in Opt(PasswordsOf(Global))
  BY DEF Supplied, Typed, Opt
<1> HIDE DEF pw
<1>3. PutServer(c, b) # Refused => PutServer(c, b) = Accepted(p, c3)
  BY DEF PutServer, AcceptedPaths, pw
<1>4. HasSections(c1) /\ c1.source_password = c.source_password /\ c1.users = c.users
      /\ c1.mounts = c.mounts /\ c1.relays = c.relays
  BY <1>1, WriteKey
<1> HIDE DEF c1
<1>5. HasSections(c2) /\ c2.source_password = c1.source_password /\ c2.users = c1.users
      /\ c2.mounts = c1.mounts /\ c2.relays = c1.relays
  BY <1>4, WriteKey
<1> HIDE DEF c2
<1>6. HasSections(c3) /\ c3.source_password = Given(pw, c2.source_password)
      /\ c3.users = c2.users /\ c3.mounts = c2.mounts /\ c3.relays = c2.relays
  BY <1>5, WriteKey
<1> HIDE DEF c3
<1>7. Running(c3)
  BY <1>2, <1>4, <1>5, <1>6 DEF Running, Kept, OwnPasswords, HasAdmin, Given, Opt
<1> QED
  BY <1>2, <1>3, <1>7 DEF Sound, Accepted, OwnPatch, Running

LEMMA TranscodeSound ==
  ASSUME NEW c, Running(c), NEW t
  PROVE  Sound(PutTranscode(c, t), "transcode")
<1> DEFINE d == [c EXCEPT !.transcode = t]
<1>1. Running(d)
  BY WriteKey DEF Running, Kept, OwnPasswords, HasAdmin
<1> QED
  BY <1>1 DEF Sound, PutTranscode, AcceptedPaths, Accepted, OwnPatch, Running

LEMMA AutodjsSound ==
  ASSUME NEW c, Running(c), NEW b
  PROVE  Sound(PutAutodjs(c, b), "autodjs")
<1> DEFINE as == {ParseAutodj(a) : a \in b}
           d == [c EXCEPT !.autodjs = Keyed(as)]
<1>1. PutAutodjs(c, b) # Refused => PutAutodjs(c, b) = Accepted(as, d)
  BY DEF PutAutodjs, AcceptedPaths
<1> HIDE DEF as
<1>2. Running(d)
  BY WriteKey DEF Running, Kept, OwnPasswords, HasAdmin
<1> HIDE DEF d
<1> QED
  BY <1>1, <1>2 DEF Sound, Accepted, OwnPatch, Running

\* A mount gets what its client typed, what it had, or the global password.
LEMMA MountsSound ==
  ASSUME NEW c, Running(c), NEW b,
         \A m \in b : /\ m = [at |-> m.at, password |-> m.password, rest |-> m.rest]
                      /\ m.password \in Supplied(<<"mount", m.at>>)
  PROVE  Sound(PutMounts(c, b), "mounts")
<1> DEFINE ms == {[m EXCEPT !.password = MountPassword(c, m)] : m \in b}
           d == [c EXCEPT !.mounts = Keyed(ms)]
<1>1. PutMounts(c, b) # Refused => /\ PutMounts(c, b) = Accepted(ms, d)
                                   /\ \A m \in ms : m.password # Unset
  BY DEF PutMounts, AcceptedPaths
<1>2. ASSUME NEW m \in b, MountPassword(c, m) # Unset
      PROVE  MountPassword(c, m) \in PasswordsOf(<<"mount", m.at>>) \cup PasswordsOf(Global)
  BY <1>2 DEF MountPassword, Supplied, Typed, Running, Kept, OwnPasswords, OwnMount, Opt
<1>3. ASSUME NEW m \in b
      PROVE  [m EXCEPT !.password = MountPassword(c, m)] =
               [at |-> m.at, password |-> MountPassword(c, m), rest |-> m.rest]
  BY ResolvedMount
<1>4. (\A m \in ms : m.password # Unset) => \A m \in ms : OwnMount(m, m.at)
  <2>1. ASSUME NEW m \in b
        PROVE  LET e == [m EXCEPT !.password = MountPassword(c, m)]
               IN e.password # Unset => OwnMount(e, e.at)
    <3> DEFINE e == [m EXCEPT !.password = MountPassword(c, m)]
    <3>1. e = [at |-> m.at, password |-> MountPassword(c, m), rest |-> m.rest]
      BY <1>3
    <3> HIDE DEF e
    <3>2. e.password # Unset => OwnMount(e, e.at)
      BY <1>2, <3>1 DEF OwnMount
    <3> QED
      BY <3>2 DEF e
  <2> QED
    BY <2>1
<1> HIDE DEF ms
<1>5. (\A m \in ms : OwnMount(m, m.at)) => Running(d)
  <2> SUFFICES ASSUME \A m \in ms : OwnMount(m, m.at)
               PROVE  Running(d)
    OBVIOUS
  <2>1. \A at \in DOMAIN Keyed(ms) : OwnMount(Keyed(ms)[at], at)
    BY KeyedPicks
  <2>2. HasSections(d) /\ d.mounts = Keyed(ms) /\ d.source_password = c.source_password
        /\ d.users = c.users /\ d.relays = c.relays
    BY WriteKey DEF Running, Kept, OwnPasswords
  <2> HIDE DEF d
  <2> QED
    BY <2>1, <2>2 DEF Running, Kept, OwnPasswords, HasAdmin
<1> HIDE DEF d
<1> QED
  BY <1>1, <1>4, <1>5 DEF Sound, Accepted, OwnPatch, Running

LEMMA RelaysSound ==
  ASSUME NEW c, Running(c), NEW b,
         \A r \in b : /\ r = [at |-> r.at, enabled |-> r.enabled, username |-> r.username,
                              password |-> r.password, rest |-> r.rest]
                      /\ r.password \in Supplied(<<"relay", r.at>>)
  PROVE  Sound(PutRelays(c, b), "relays")
<1> DEFINE rs == {[ParseRelay(r) EXCEPT !.password = RelayPassword(c, r)] : r \in b}
           d == [c EXCEPT !.relays = Keyed(rs)]
<1>1. PutRelays(c, b) # Refused => PutRelays(c, b) = Accepted(rs, d)
  BY DEF PutRelays, AcceptedPaths
<1>2. ASSUME NEW r \in b
      PROVE  RelayPassword(c, r) \in Opt(PasswordsOf(<<"relay", r.at>>))
  BY DEF RelayPassword, Supplied, Typed, Running, Kept, OwnPasswords, OwnRelay, Opt
<1>3. ASSUME NEW r \in b
      PROVE  [ParseRelay(r) EXCEPT !.password = RelayPassword(c, r)] =
               [at |-> r.at, enabled |-> Given(r.enabled, TRUE), username |-> r.username,
                password |-> RelayPassword(c, r), rest |-> r.rest]
  BY ResolvedRelay
<1>4. \A r \in rs : OwnRelay(r, r.at)
  <2>1. ASSUME NEW r \in b
        PROVE  LET e == [ParseRelay(r) EXCEPT !.password = RelayPassword(c, r)]
               IN OwnRelay(e, e.at)
    <3> DEFINE e == [ParseRelay(r) EXCEPT !.password = RelayPassword(c, r)]
    <3>1. e = [at |-> r.at, enabled |-> Given(r.enabled, TRUE), username |-> r.username,
               password |-> RelayPassword(c, r), rest |-> r.rest]
      BY <1>3
    <3> HIDE DEF e
    <3>2. OwnRelay(e, e.at)
      BY <1>2, <3>1 DEF OwnRelay
    <3> QED
      BY <3>2 DEF e
  <2> QED
    BY <2>1
<1> HIDE DEF rs
<1>5. Running(d)
  <2>1. \A at \in DOMAIN Keyed(rs) : OwnRelay(Keyed(rs)[at], at)
    BY <1>4, KeyedPicks
  <2>2. HasSections(d) /\ d.relays = Keyed(rs) /\ d.source_password = c.source_password
        /\ d.users = c.users /\ d.mounts = c.mounts
    BY WriteKey DEF Running, Kept, OwnPasswords
  <2> HIDE DEF d
  <2> QED
    BY <2>1, <2>2 DEF Running, Kept, OwnPasswords, HasAdmin
<1> HIDE DEF d
<1> QED
  BY <1>1, <1>4, <1>5 DEF Sound, Accepted, OwnPatch, Running

\* A user gets the hash of what was typed or keeps the one it had; the list
\* names an admin.
LEMMA UsersSound ==
  ASSUME NEW c, Running(c), NEW who, NEW b,
         \A u \in b : u.password \in Supplied(<<"user", u.at>>)
  PROVE  Sound(PutUsers(c, who, b), "users")
<1> DEFINE us == {[at |-> u.at, hash |-> UserHash(c, u), role |-> u.role] : u \in b}
           d == [c EXCEPT !.users = Keyed(us)]
<1>1. PutUsers(c, who, b) # Refused => /\ PutUsers(c, who, b) = Accepted(us, d)
                                       /\ ValidateUsersPatch(us)
  BY DEF PutUsers
<1>2. ASSUME NEW u \in b, UserHash(c, u) # Unset
      PROVE  \E p \in PasswordsOf(<<"user", u.at>>) : UserHash(c, u) = Hash(p)
  BY <1>2 DEF UserHash, Supplied, Typed, Running, Kept, OwnPasswords, OwnUser
<1>3. ValidateUsersPatch(us) => \A u \in us : OwnUser(u, u.at)
  <2>1. ASSUME NEW u \in b, UserHash(c, u) # Unset
        PROVE  OwnUser([at |-> u.at, hash |-> UserHash(c, u), role |-> u.role], u.at)
    <3> DEFINE e == [at |-> u.at, hash |-> UserHash(c, u), role |-> u.role]
    <3>1. e = [at |-> e.at, hash |-> e.hash, role |-> e.role]
      OBVIOUS
    <3>2. \E p \in PasswordsOf(<<"user", u.at>>) : e.hash = Hash(p)
      BY <1>2, <2>1
    <3> HIDE DEF e
    <3>3. OwnUser(e, u.at)
      BY <3>1, <3>2 DEF OwnUser
    <3> QED
      BY <3>3 DEF e
  <2>2. ValidateUsersPatch(us) => \A u \in b : UserHash(c, u) # Unset
    <3>1. ASSUME NEW u \in b, \A e \in us : e.hash # Unset
          PROVE  UserHash(c, u) # Unset
      <4> DEFINE e == [at |-> u.at, hash |-> UserHash(c, u), role |-> u.role]
      <4>1. e \in us /\ e.hash = UserHash(c, u)
        OBVIOUS
      <4> QED
        BY <3>1, <4>1
    <3>2. ValidateUsersPatch(us) => \A e \in us : e.hash # Unset
      BY Zenon DEF ValidateUsersPatch
    <3> QED
      BY <3>1, <3>2
  <2> QED
    BY <2>1, <2>2
<1> HIDE DEF us
<1>4. ASSUME ValidateUsersPatch(us)
      PROVE  Running(d)
  <2>1. \E n \in DOMAIN Keyed(us) : Keyed(us)[n].role = "admin"
    <3>1. PICK u \in us : u.role = "admin"
      BY <1>4 DEF ValidateUsersPatch
    <3>2. u.at \in DOMAIN Keyed(us) /\ Keyed(us)[u.at] \in us /\ Keyed(us)[u.at].at = u.at
      <4>1. u.at \in {e.at : e \in us}
        BY <3>1
      <4>2. u.at \in DOMAIN Keyed(us)
        BY <4>1, KeyedPicks, Zenon
      <4> QED
        BY <4>2, KeyedPicks, Zenon
    <3>3. Keyed(us)[u.at] = u
      BY <1>4, <3>1, <3>2 DEF ValidateUsersPatch, Unique
    <3> QED
      BY <3>1, <3>2, <3>3
  <2>2. \A n \in DOMAIN Keyed(us) : OwnUser(Keyed(us)[n], n)
    BY <1>3, <1>4, KeyedPicks
  <2>3. HasSections(d) /\ d.users = Keyed(us) /\ d.source_password = c.source_password
        /\ d.mounts = c.mounts /\ d.relays = c.relays
    BY WriteKey DEF Running, Kept, OwnPasswords
  <2> HIDE DEF d
  <2>4. HasAdmin(d)
    BY <2>1, <2>3 DEF HasAdmin, Given
  <2> QED
    BY <2>1, <2>2, <2>3, <2>4 DEF Running, Kept, OwnPasswords
<1>5. ValidateUsersPatch(us) => OwnPatch("users", us)
  BY <1>3 DEF OwnPatch, ValidateUsersPatch
<1> HIDE DEF d
<1> QED
  BY <1>1, <1>4, <1>5 DEF Sound, Accepted, Running

LEMMA PutSound ==
  ASSUME NEW bodies, OwnRequests(bodies), NEW section \in Sections, NEW b \in bodies[section],
         NEW c, Running(c), NEW who
  PROVE  Sound(Put(c, who, section, b), section)
<1>1. CASE section = "server"
  <2>1. Put(c, who, section, b) = PutServer(c, b)
    BY <1>1 DEF Put
  <2>2. b.source_password \in Supplied(Global)
    BY <1>1 DEF OwnRequests
  <2> QED
    BY <1>1, <2>1, <2>2, ServerSound
<1>2. CASE section = "transcode"
  <2>1. Put(c, who, section, b) = PutTranscode(c, b)
    BY <1>2 DEF Put
  <2> QED
    BY <1>2, <2>1, TranscodeSound
<1>3. CASE section = "users"
  <2>1. Put(c, who, section, b) = PutUsers(c, who, b)
    BY <1>3 DEF Put
  <2>2. \A u \in b : u.password \in Supplied(<<"user", u.at>>)
    BY <1>3 DEF OwnRequests
  <2> QED
    BY <1>3, <2>1, <2>2, UsersSound
<1>4. CASE section = "mounts"
  <2>1. Put(c, who, section, b) = PutMounts(c, b)
    BY <1>4 DEF Put
  <2>2. \A m \in b : /\ m = [at |-> m.at, password |-> m.password, rest |-> m.rest]
                     /\ m.password \in Supplied(<<"mount", m.at>>)
    BY <1>4 DEF OwnRequests
  <2> QED
    BY <1>4, <2>1, <2>2, MountsSound
<1>5. CASE section = "autodjs"
  <2>1. Put(c, who, section, b) = PutAutodjs(c, b)
    BY <1>5 DEF Put
  <2> QED
    BY <1>5, <2>1, AutodjsSound
<1>6. CASE section = "relays"
  <2>1. Put(c, who, section, b) = PutRelays(c, b)
    BY <1>6 DEF Put
  <2>2. \A r \in b : /\ r = [at |-> r.at, enabled |-> r.enabled, username |-> r.username,
                             password |-> r.password, rest |-> r.rest]
                     /\ r.password \in Supplied(<<"relay", r.at>>)
    BY <1>6 DEF OwnRequests
  <2> QED
    BY <1>6, <2>1, <2>2, RelaysSound
<1> QED
  BY <1>1, <1>2, <1>3, <1>4, <1>5, <1>6 DEF Sections, AdminSections, StreamSections

-----------------------------------------------------------------------------
(* The same patch written into any document: the one config.toml holds may *)
(* differ from what the request was resolved against.                      *)

LEMMA ServerPatchKeeps ==
  ASSUME NEW doc, Kept(doc), NEW p, OwnPatch("server", p)
  PROVE  Kept(ApplyServerPatch(doc, p))
<1> DEFINE c1 == [doc EXCEPT !.settings = p.settings]
           c2 == [c1 EXCEPT !.rate = p.rate]
           c3 == [c2 EXCEPT !.source_password = IF p.auth = Unset THEN @ ELSE p.auth]
<1>1. HasSections(doc)
  BY DEF Kept, OwnPasswords
<1>2. ApplyServerPatch(doc, p) = c3
  BY DEF ApplyServerPatch
<1>3. HasSections(c1) /\ c1.source_password = doc.source_password /\ c1.users = doc.users
      /\ c1.mounts = doc.mounts /\ c1.relays = doc.relays
  BY <1>1, WriteKey
<1> HIDE DEF c1
<1>4. HasSections(c2) /\ c2.source_password = c1.source_password /\ c2.users = c1.users
      /\ c2.mounts = c1.mounts /\ c2.relays = c1.relays
  BY <1>3, WriteKey
<1> HIDE DEF c2
<1>5. /\ HasSections(c3)
      /\ c3.source_password = IF p.auth = Unset THEN c2.source_password ELSE p.auth
      /\ c3.users = c2.users /\ c3.mounts = c2.mounts /\ c3.relays = c2.relays
  BY <1>4, WriteKey
<1> HIDE DEF c3
<1>6. Kept(c3)
  BY <1>3, <1>4, <1>5 DEF Kept, OwnPasswords, HasAdmin, OwnPatch, Opt
<1> QED
  BY <1>2, <1>6

LEMMA UsersPatchKeeps ==
  ASSUME NEW doc, Kept(doc), NEW us, OwnPatch("users", us)
  PROVE  Kept(ApplyUsersPatch(doc, us))
<1> DEFINE d == [doc EXCEPT !.users = Keyed(us)]
<1>1. PICK u \in us : u.role = "admin"
  BY DEF OwnPatch
<1>2. u.at \in DOMAIN Keyed(us) /\ Keyed(us)[u.at] = u
  <2>1. u.at \in {e.at : e \in us}
    BY <1>1
  <2>2. u.at \in DOMAIN Keyed(us)
    BY <2>1, KeyedPicks, Zenon
  <2>3. Keyed(us)[u.at] \in us /\ Keyed(us)[u.at].at = u.at
    BY <2>2, KeyedPicks, Zenon
  <2> QED
    BY <1>1, <2>2, <2>3 DEF OwnPatch, Unique
<1>3. \A n \in DOMAIN Keyed(us) : OwnUser(Keyed(us)[n], n)
  BY KeyedPicks DEF OwnPatch
<1>4. HasSections(d) /\ d.users = Keyed(us) /\ d.source_password = doc.source_password
      /\ d.mounts = doc.mounts /\ d.relays = doc.relays
  BY WriteKey DEF Kept, OwnPasswords
<1> HIDE DEF d
<1>5. HasAdmin(d)
  BY <1>1, <1>2, <1>4 DEF HasAdmin, Given
<1>6. Kept(d)
  BY <1>3, <1>4, <1>5 DEF Kept, OwnPasswords
<1> QED
  BY <1>6 DEF ApplyUsersPatch, d

LEMMA MountsPatchKeeps ==
  ASSUME NEW doc, Kept(doc), NEW ms, OwnPatch("mounts", ms)
  PROVE  Kept(ApplyMountsPatch(doc, ms))
<1> DEFINE d == [doc EXCEPT !.mounts = Keyed(ms)]
<1>1. \A at \in DOMAIN Keyed(ms) : OwnMount(Keyed(ms)[at], at)
  BY KeyedPicks DEF OwnPatch
<1>2. HasSections(d) /\ d.mounts = Keyed(ms) /\ d.source_password = doc.source_password
      /\ d.users = doc.users /\ d.relays = doc.relays
  BY WriteKey DEF Kept, OwnPasswords
<1> HIDE DEF d
<1>3. Kept(d)
  BY <1>1, <1>2 DEF Kept, OwnPasswords, HasAdmin
<1> QED
  BY <1>3 DEF ApplyMountsPatch, d

LEMMA RelaysPatchKeeps ==
  ASSUME NEW doc, Kept(doc), NEW rs, OwnPatch("relays", rs)
  PROVE  Kept(ApplyRelaysPatch(doc, rs))
<1> DEFINE table(r) == [r EXCEPT !.enabled = IF r.enabled THEN Unset ELSE FALSE]
           written == [at \in DOMAIN Keyed(rs) |-> table(Keyed(rs)[at])]
           d == [doc EXCEPT !.relays = written]
<1>1. ASSUME NEW r, NEW at, OwnRelay(r, at)
      PROVE  OwnRelay(table(r), at)
  <2> DEFINE x == IF r.enabled THEN Unset ELSE FALSE
             e == [r EXCEPT !.enabled = x]
  <2> HIDE DEF x
  <2>1. e = [at |-> r.at, enabled |-> x, username |-> r.username,
             password |-> r.password, rest |-> r.rest]
    BY <1>1, WriteRelayKey DEF OwnRelay
  <2> HIDE DEF e
  <2>2. r.password \in Opt(PasswordsOf(<<"relay", at>>))
    BY <1>1 DEF OwnRelay
  <2>3. OwnRelay(e, at)
    BY <2>1, <2>2 DEF OwnRelay
  <2> QED
    BY <2>3 DEF e, x
<1>2. ApplyRelaysPatch(doc, rs) = d
  BY DEF ApplyRelaysPatch, Map
<1>3. \A at \in DOMAIN Keyed(rs) : OwnRelay(Keyed(rs)[at], at)
  BY KeyedPicks DEF OwnPatch
<1> HIDE DEF table
<1>4. DOMAIN written = DOMAIN Keyed(rs) /\ \A at \in DOMAIN written : OwnRelay(written[at], at)
  BY <1>1, <1>3
<1> HIDE DEF written
<1>5. HasSections(d) /\ d.relays = written /\ d.source_password = doc.source_password
      /\ d.users = doc.users /\ d.mounts = doc.mounts
  BY WriteKey DEF Kept, OwnPasswords
<1> HIDE DEF d
<1> QED
  BY <1>2, <1>4, <1>5 DEF Kept, OwnPasswords, HasAdmin

LEMMA ApplyPatchKeeps ==
  ASSUME NEW doc, Kept(doc), NEW section \in Sections, NEW patch, OwnPatch(section, patch)
  PROVE  Kept(ApplyPatch(doc, section, patch))
<1>1. CASE section = "server"
  BY <1>1, ServerPatchKeeps DEF ApplyPatch
<1>2. CASE section = "transcode"
  <2>1. ApplyPatch(doc, section, patch) = [doc EXCEPT !.transcode = patch]
    BY <1>2 DEF ApplyPatch, ApplyTranscodePatch
  <2> QED
    BY <2>1, WriteKey DEF Kept, OwnPasswords, HasAdmin
<1>3. CASE section = "users"
  BY <1>3, UsersPatchKeeps DEF ApplyPatch
<1>4. CASE section = "mounts"
  BY <1>4, MountsPatchKeeps DEF ApplyPatch
<1>5. CASE section = "autodjs"
  <2> DEFINE table(a) == [a EXCEPT !.enabled = IF a.enabled THEN Unset ELSE FALSE,
                                   !.loop = IF a.loop THEN Unset ELSE FALSE]
             written == Map(Keyed(patch), table)
  <2>1. ApplyPatch(doc, section, patch) = [doc EXCEPT !.autodjs = written]
    BY <1>5 DEF ApplyPatch, ApplyAutodjsPatch
  <2> HIDE DEF written
  <2> QED
    BY <2>1, WriteKey DEF Kept, OwnPasswords, HasAdmin
<1>6. CASE section = "relays"
  BY <1>6, RelaysPatchKeeps DEF ApplyPatch
<1> QED
  BY <1>1, <1>2, <1>3, <1>4, <1>5, <1>6 DEF Sections, AdminSections, StreamSections

-----------------------------------------------------------------------------
(* The inductive invariant.                                                *)

\* A file, finished or not.
Intact(file) == file \notin {NoFile, Garbage} => Kept(file)

ReqOk(r) ==
  r # None /\ r.stage = "waiting" =>
    /\ r = [stage |-> "waiting", section |-> r.section, patch |-> r.patch,
            candidate |-> r.candidate, stale |-> r.stale]
    /\ r.section \in Sections
    /\ OwnPatch(r.section, r.patch)
    /\ Running(r.candidate)

\* What is being written and will be applied holds its own passwords, and the
\* credentials are those of the configuration about to be stored as soon as
\* they are reloaded.
JobOk ==
  job.stage # "idle" =>
    /\ job = [by |-> job.by, stage |-> job.stage, target |-> job.target, file |-> job.file]
    /\ Running(job.target)
    /\ Kept(job.file)
    /\ job.stage = "store" => auth = AuthOf(job.target)

IdleWhenDown == ~up => job.stage = "idle"

AuthOk ==
  up /\ job.stage # "store" /\ "drop" \notin taint => auth = AuthOf(config)

SaveInv ==
  /\ Running(config)
  /\ Intact(disk)
  /\ Intact(tmp)
  /\ req = [c \in Clients |-> req[c]]
  /\ \A c \in Clients : ReqOk(req[c])
  /\ JobOk
  /\ IdleWhenDown
  /\ AuthOk

\* A document that loads becomes a configuration to run.
LEMMA LoadedRuns ==
  ASSUME NEW doc, Kept(doc)
  PROVE  Running(Parse(doc))
BY ParseKeeps DEF Running

\* What hand-written files and the built-in configuration hold.
LEMMA FilesKept ==
  /\ \A f \in Files : Intact(f)
  /\ Running(Defaults)
<1>1. HasAdmin(Defaults)
  BY ConfigAssumption DEF HasAdmin, Given
<1> QED
  BY <1>1, ConfigAssumption DEF Intact, Kept, Running

LEMMA LoadRuns ==
  ASSUME NEW file, Intact(file), file = NoFile \/ Loadable(file)
  PROVE  Running(IF file = NoFile THEN Defaults ELSE Parse(file))
BY LoadedRuns, FilesKept DEF Intact, Loadable

LEMMA InitInv == Init => SaveInv
<1> SUFFICES ASSUME Init
             PROVE  SaveInv
  OBVIOUS
<1>1. Intact(disk)
  BY FilesKept DEF Init, Intact
<1>2. Running(config)
  BY <1>1, LoadRuns DEF Init
<1>3. Intact(tmp)
  BY DEF Init, Intact
<1>4. req = [c \in Clients |-> req[c]] /\ \A c \in Clients : ReqOk(req[c])
  BY DEF Init, ReqOk
<1>5. JobOk /\ AuthOk /\ IdleWhenDown
  BY DEF Init, Idle, JobOk, AuthOk, IdleWhenDown
<1> QED
  BY <1>1, <1>2, <1>3, <1>4, <1>5 DEF SaveInv

\* A step that replaces one request, or drops it.
LEMMA ReqStep ==
  ASSUME SaveInv, NEW c, NEW r, ReqOk(r), req' = [req EXCEPT ![c] = r]
  PROVE  req' = [d \in Clients |-> req'[d]] /\ \A d \in Clients : ReqOk(req'[d])
<1>1. req = [d \in Clients |-> req[d]] /\ \A d \in Clients : ReqOk(req[d])
  BY DEF SaveInv
<1>2. req' = [d \in Clients |-> IF d = c THEN r ELSE req[d]]
  BY <1>1
<1> QED
  BY <1>1, <1>2

\* A save in progress moves on to its next step.
LEMMA Moves ==
  ASSUME SaveInv, NEW from, from # "idle", At(from), NEW stage, Goto(stage)
  PROVE  /\ job'.stage # "idle" => job' = [by |-> job.by, stage |-> stage, target |-> job.target,
                                   file |-> job.file]
         /\ Running(job.target) /\ Kept(job.file)
         /\ stage # "store" => JobOk'
<1>1. /\ job = [by |-> job.by, stage |-> job.stage, target |-> job.target, file |-> job.file]
      /\ Running(job.target) /\ Kept(job.file)
  BY DEF SaveInv, JobOk, At
<1>2. job' = [by |-> job.by, stage |-> stage, target |-> job.target, file |-> job.file]
  BY <1>1 DEF Goto
<1>3. job'.target = job.target /\ job'.file = job.file /\ job'.stage = stage /\ job'.by = job.by
  BY <1>2
<1>4. job' = [by |-> job'.by, stage |-> job'.stage, target |-> job'.target, file |-> job'.file]
  BY <1>2, <1>3
<1>5. stage # "store" => JobOk'
  BY <1>1, <1>3, <1>4 DEF JobOk
<1> QED
  BY <1>1, <1>2, <1>5

-----------------------------------------------------------------------------
(* The steps.                                                              *)

LEMMA StepIdle == SaveInv /\ [Next]_vars => IdleWhenDown'
<1> SUFFICES ASSUME SaveInv, [Next]_vars
             PROVE  IdleWhenDown'
  OBVIOUS
<1>1. CASE UNCHANGED <<up, job>>
  BY <1>1 DEF SaveInv, IdleWhenDown
<1>2. CASE up'
  BY <1>2 DEF IdleWhenDown
<1>3. CASE job' = Idle
  BY <1>3 DEF Idle, IdleWhenDown
<1>4. UNCHANGED <<up, job>> \/ up' \/ job' = Idle
  <2>1. CASE \E c \in Clients : \/ \E n \in Names : Login(c, n)
                                \/ SessionEnds(c)
                                \/ \E section \in Sections : Gate(c, section)
                                \/ \E section \in Sections : \E b \in Bodies[section] :
                                     Handle(c, section, b)
                                \/ Leave(c)
    BY <2>1 DEF Login, SessionEnds, Gate, Handle, Leave
  <2>2. CASE \E c \in Clients : Persist(c)
    BY <2>2 DEF Persist
  <2>3. CASE CreateTmp \/ FillTmp \/ RenameTmp \/ WriteFails
    BY <2>3 DEF CreateTmp, FillTmp, RenameTmp, WriteFails, At
  <2>4. CASE ReloadAuth \/ ClientGone \/ Store
    BY <2>4 DEF ReloadAuth, ClientGone, Store, At
  <2>5. CASE (\E f \in Files : EditByHand(f)) \/ Sighup \/ Kill \/ Restart
    BY <2>5 DEF EditByHand, Sighup, Kill, Restart, Load
  <2>6. CASE UNCHANGED vars
    BY <2>6 DEF vars
  <2> QED
    BY <2>1, <2>2, <2>3, <2>4, <2>5, <2>6 DEF Next
<1> QED
  BY <1>1, <1>2, <1>3, <1>4

LEMMA StepInv == SaveInv /\ [Next]_vars => SaveInv'
<1> SUFFICES ASSUME SaveInv, [Next]_vars
             PROVE  SaveInv'
  OBVIOUS
<1>idle. IdleWhenDown'
  BY StepIdle
\* What most steps leave alone.
<1>frame. ASSUME UNCHANGED <<config, disk, tmp, auth, up, job, taint>>,
                 req' = [c \in Clients |-> req'[c]], \A c \in Clients : ReqOk(req'[c])
          PROVE  SaveInv'
  <2>1. JobOk' /\ AuthOk'
    BY <1>frame DEF SaveInv, JobOk, AuthOk
  <2> QED
    BY <1>idle, <1>frame, <2>1 DEF SaveInv
<1>none. ReqOk(None)
  BY DEF ReqOk
<1>1. CASE \E c \in Clients, n \in Names : Login(c, n)
  BY <1>1, <1>frame DEF Login, SaveInv
<1>2. CASE \E c \in Clients : SessionEnds(c)
  BY <1>2, <1>frame DEF SessionEnds, SaveInv
<1>3. ASSUME NEW c \in Clients, NEW section \in Sections, Gate(c, section)
      PROVE  SaveInv'
  <2> DEFINE r == [stage |-> "admitted", section |-> section]
  <2>1. r.stage # "waiting"
    OBVIOUS
  <2>2. req' = [req EXCEPT ![c] = r]
    BY <1>3 DEF Gate
  <2> HIDE DEF r
  <2>3. ReqOk(r)
    BY <2>1 DEF ReqOk
  <2> QED
    BY <1>3, <2>2, <2>3, <1>frame, ReqStep DEF Gate
<1>4. ASSUME NEW c \in Clients, NEW section \in Sections, NEW b \in Bodies[section],
             Handle(c, section, b)
      PROVE  SaveInv'
  <2> DEFINE p == Put(config, session[c], section, b)
             w == [stage |-> "waiting", section |-> section, patch |-> p.patch,
                   candidate |-> p.candidate, stale |-> FALSE]
  <2>1. Sound(p, section)
    BY ConfigAssumption, PutSound DEF SaveInv
  <2>2. req' = [req EXCEPT ![c] = IF p = Refused THEN None ELSE w]
    BY <1>4 DEF Handle
  <2> HIDE DEF p
  <2>3. w.stage = "waiting" /\ w.section = section /\ w.patch = p.patch
        /\ w.candidate = p.candidate /\ w.stale = FALSE
    OBVIOUS
  <2>4. w = [stage |-> "waiting", section |-> w.section, patch |-> w.patch,
             candidate |-> w.candidate, stale |-> w.stale]
    BY <2>3
  <2> HIDE DEF w
  <2>5. ReqOk(IF p = Refused THEN None ELSE w)
    BY <1>none, <2>1, <2>3, <2>4 DEF ReqOk, Sound, Running
  <2>6. UNCHANGED <<config, disk, tmp, auth, up, job, taint>>
    BY <1>4 DEF Handle
  <2> QED
    BY <2>2, <2>5, <2>6, <1>frame, ReqStep
<1>5. CASE \E c \in Clients : Leave(c)
  BY <1>5, <1>none, <1>frame, ReqStep DEF Leave
<1>6. ASSUME NEW c \in Clients, Persist(c)
      PROVE  SaveInv'
  <2> DEFINE r == req[c]
             doc == IF origin # "defaults" /\ disk # NoFile THEN disk ELSE r.candidate
             file == ApplyPatch(doc, r.section, r.patch)
  <2>1. r.section \in Sections /\ OwnPatch(r.section, r.patch) /\ Running(r.candidate)
    BY <1>6 DEF Persist, SaveInv, ReqOk
  <2>2. CASE doc = Garbage
    BY <1>6, <2>2, <1>none, <1>frame, ReqStep DEF Persist
  <2>3. CASE doc # Garbage
    <3>1. Kept(doc)
      BY <2>1, <2>3 DEF SaveInv, Intact, Running
    <3>2. Kept(file)
      BY <2>1, <3>1, ApplyPatchKeeps
    <3>3. job' = [by |-> c, stage |-> "create", target |-> r.candidate, file |-> file]
      BY <1>6, <2>3 DEF Persist
    <3> HIDE DEF file
    <3>4. job'.by = c /\ job'.stage = "create" /\ job'.target = r.candidate /\ job'.file = file
      BY <3>3
    <3>5. job' = [by |-> job'.by, stage |-> job'.stage, target |-> job'.target,
                  file |-> job'.file]
      BY <3>3, <3>4
    <3>6. JobOk'
      BY <2>1, <3>2, <3>4, <3>5 DEF JobOk
    <3>7. AuthOk'
      BY <1>6 DEF Persist, SaveInv, AuthOk
    <3> QED
      BY <1>idle, <1>6, <2>3, <3>6, <3>7 DEF Persist, SaveInv
  <2> QED
    BY <2>2, <2>3
<1>7. CASE CreateTmp
  <2>1. JobOk'
    BY <1>7, Moves DEF CreateTmp
  <2>2. AuthOk'
    BY <1>7 DEF CreateTmp, SaveInv, AuthOk, At
  <2> QED
    BY <1>idle, <1>7, <2>1, <2>2 DEF CreateTmp, SaveInv, Intact
<1>8. CASE FillTmp
  <2>1. JobOk' /\ Kept(job.file)
    BY <1>8, Moves DEF FillTmp
  <2>2. AuthOk'
    BY <1>8 DEF FillTmp, SaveInv, AuthOk, At
  <2> QED
    BY <1>idle, <1>8, <2>1, <2>2 DEF FillTmp, SaveInv, Intact
<1>9. CASE RenameTmp
  <2>1. JobOk'
    BY <1>9, Moves DEF RenameTmp
  <2>2. AuthOk'
    BY <1>9 DEF RenameTmp, SaveInv, AuthOk, At
  <2> QED
    BY <1>idle, <1>9, <2>1, <2>2 DEF RenameTmp, SaveInv, Intact
<1>10. CASE WriteFails
  <2>1. AuthOk'
    BY <1>10 DEF WriteFails, SaveInv, AuthOk, At
  <2>2. Intact(tmp')
    BY <1>10 DEF WriteFails, SaveInv, Intact
  <2>3. JobOk'
    BY <1>10 DEF WriteFails, Idle, JobOk
  <2> QED
    BY <1>idle, <1>10, <1>none, <2>1, <2>2, <2>3, ReqStep DEF WriteFails, SaveInv
<1>11. CASE ReloadAuth
  <2>1. /\ Running(job.target) /\ Kept(job.file)
        /\ job'.stage # "idle" => job' = [by |-> job.by, stage |-> "store", target |-> job.target,
                                  file |-> job.file]
    BY <1>11, Moves DEF ReloadAuth
  <2>2. job'.stage # "idle" => job'.by = job.by /\ job'.stage = "store" /\ job'.target = job.target
                       /\ job'.file = job.file
    BY <2>1
  <2>3. job'.stage # "idle" => job' = [by |-> job'.by, stage |-> job'.stage, target |-> job'.target,
                               file |-> job'.file]
    BY <2>1, <2>2
  <2>4. auth' = AuthOf(job.target)
    BY <1>11 DEF ReloadAuth
  <2>5. job'.stage # "idle" => AuthOf(job'.target) = auth'
    BY <2>2, <2>4
  <2>6. JobOk'
    BY <2>1, <2>2, <2>3, <2>5, Zenon DEF JobOk
  <2>7. job'.stage = "store"
    BY <1>11 DEF ReloadAuth, Goto, At, SaveInv, JobOk
  <2>8. AuthOk'
    BY <2>2, <2>7 DEF AuthOk
  <2> QED
    BY <1>idle, <1>11, <2>6, <2>8 DEF ReloadAuth, SaveInv
<1>12. CASE ClientGone
  <2>1. JobOk' /\ AuthOk'
    BY <1>12 DEF ClientGone, Idle, JobOk, AuthOk
  <2> QED
    BY <1>idle, <1>12, <1>none, <2>1, ReqStep DEF ClientGone, SaveInv
<1>13. CASE Store
  <2>1. Running(job.target) /\ auth = AuthOf(job.target)
    BY <1>13 DEF Store, SaveInv, JobOk, At
  <2>2. JobOk' /\ AuthOk'
    BY <1>13, <2>1 DEF Store, Idle, JobOk, AuthOk
  <2>3. req' = [c \in Clients |-> req'[c]]
    BY <1>13 DEF Store
  <2>4. ASSUME NEW c \in Clients
        PROVE  ReqOk(req'[c])
    <3> DEFINE w == [req[c] EXCEPT !.stale = @ \/ job.target # config]
    <3>1. req'[c] \in {None, req[c]} \/ (req[c] # None /\ req[c].stage = "waiting" /\ req'[c] = w)
      BY <1>13 DEF Store
    <3>2. ASSUME req[c] # None, req[c].stage = "waiting"
          PROVE  ReqOk(w)
      <4> DEFINE stale == req[c].stale \/ job.target # config
      <4>1. w = [req[c] EXCEPT !.stale = stale]
        OBVIOUS
      <4> HIDE DEF stale, w
      <4>2. req[c] = [stage |-> "waiting", section |-> req[c].section, patch |-> req[c].patch,
                      candidate |-> req[c].candidate, stale |-> req[c].stale]
        BY <3>2 DEF SaveInv, ReqOk
      <4>3. w = [stage |-> "waiting", section |-> req[c].section, patch |-> req[c].patch,
                 candidate |-> req[c].candidate, stale |-> stale]
        BY <4>1, <4>2
      <4>4. w.section = req[c].section /\ w.patch = req[c].patch
            /\ w.candidate = req[c].candidate /\ w.stale = stale
        BY <4>3
      <4>5. w = [stage |-> "waiting", section |-> w.section, patch |-> w.patch,
                 candidate |-> w.candidate, stale |-> w.stale]
        BY <4>3, <4>4
      <4> QED
        BY <1>idle, <3>2, <4>4, <4>5 DEF SaveInv, ReqOk
    <3>3. ReqOk(req[c])
      BY DEF SaveInv
    <3> HIDE DEF w
    <3> QED
      BY <1>none, <3>1, <3>2, <3>3
  <2> QED
    BY <1>idle, <1>13, <2>1, <2>2, <2>3, <2>4 DEF Store, SaveInv
<1>14. CASE \E f \in Files : EditByHand(f)
  <2>1. JobOk' /\ AuthOk'
    BY <1>14 DEF EditByHand, SaveInv, JobOk, AuthOk
  <2> QED
    BY <1>idle, <1>14, <2>1, FilesKept DEF EditByHand, SaveInv
<1>15. CASE Sighup
  <2>1. Kept(disk) /\ Running(Parse(disk))
    BY <1>15, LoadedRuns DEF Sighup, Loadable, SaveInv, Intact
  <2>2. job' = [by |-> "sighup", stage |-> "auth", target |-> Parse(disk), file |-> disk]
    BY <1>15 DEF Sighup
  <2>3. job'.by = "sighup" /\ job'.stage = "auth" /\ job'.target = Parse(disk) /\ job'.file = disk
    BY <2>2
  <2>4. job' = [by |-> job'.by, stage |-> job'.stage, target |-> job'.target, file |-> job'.file]
    BY <2>2, <2>3
  <2>5. JobOk'
    BY <2>1, <2>3, <2>4 DEF JobOk
  <2>6. AuthOk'
    BY <1>15 DEF Sighup, SaveInv, AuthOk
  <2> QED
    BY <1>idle, <1>15, <2>5, <2>6 DEF Sighup, SaveInv
<1>16. CASE Kill
  <2>1. req' = [c \in Clients |-> req'[c]] /\ \A c \in Clients : ReqOk(req'[c])
    BY <1>16, <1>none DEF Kill
  <2>2. JobOk' /\ AuthOk'
    BY <1>16 DEF Kill, Idle, JobOk, AuthOk
  <2> QED
    BY <1>idle, <1>16, <2>1, <2>2 DEF Kill, SaveInv
<1>17. CASE Restart
  <2>1. config' = IF disk = NoFile THEN Defaults ELSE Parse(disk)
    BY <1>17 DEF Restart, Load
  <2>2. Running(config')
    BY <1>17, <2>1, LoadRuns DEF Restart, Load, SaveInv
  <2>3. auth' = AuthOf(config')
    BY <1>17 DEF Restart, Load
  <2>4. AuthOk'
    BY <2>3 DEF AuthOk
  <2>5. JobOk'
    BY <1>17 DEF Restart, SaveInv, IdleWhenDown, JobOk
  <2> QED
    BY <1>idle, <1>17, <2>2, <2>4, <2>5 DEF Restart, SaveInv
<1>18. CASE UNCHANGED vars
  BY <1>18, <1>frame DEF vars, SaveInv
<1> QED
  BY <1>1, <1>2, <1>3, <1>4, <1>5, <1>6, <1>7, <1>8, <1>9, <1>10, <1>11, <1>12, <1>13, <1>14,
     <1>15, <1>16, <1>17, <1>18 DEF Next

\* SaveInv holds throughout: the running configuration, config.toml, its
\* temporary file, every request that waits for the lock and the save in
\* progress hold each entry's own passwords and an admin, and the credentials
\* in force are those of the configuration that runs, or is about to.
THEOREM SaveInvariant == Spec => []SaveInv
<1>1. Init => SaveInv
  BY InitInv
<1>2. SaveInv /\ [Next]_vars => SaveInv'
  BY StepInv
<1> QED
  BY <1>1, <1>2, PTL DEF Spec

\* No marker, blank field or other entry's password becomes a password, in
\* the configuration that runs or in the file (put_*, apply_*_patch,
\* persist_and_apply, SIGHUP, kill and restart).
THEOREM PasswordsTheorem == Spec => []PasswordsStayPut
<1>1. SaveInv => PasswordsStayPut
  BY DEF SaveInv, Running, Kept, Intact, PasswordsStayPut
<1> QED
  BY <1>1, SaveInvariant, PTL

\* Between saves, credentials are checked against the running configuration
\* (TomlBcryptAuth::reload), unless an apply was dropped half-way.
THEOREM AuthTheorem == Spec => []AuthFollowsConfig
<1>1. SaveInv => AuthFollowsConfig
  BY DEF SaveInv, AuthOk, AuthFollowsConfig
<1> QED
  BY <1>1, SaveInvariant, PTL

\* Some admin of the running configuration can log in (validate_users_patch,
\* user_map, verify_admin).
THEOREM AdminTheorem == Spec => []AdminCanLogIn
<1>1. SaveInv => AdminCanLogIn
  <2> SUFFICES ASSUME SaveInv, up, job.stage = "idle", "drop" \notin taint
               PROVE  \E n \in DOMAIN config.users \cap DOMAIN auth.users :
                        /\ config.users[n].role = "admin"
                        /\ \E p \in PasswordsOf(<<"user", n>>) : auth.users[n] = Hash(p)
    BY DEF AdminCanLogIn
  <2>1. auth = AuthOf(config)
    BY DEF SaveInv, AuthOk
  <2>2. auth.users = [n \in DOMAIN config.users |-> config.users[n].hash]
    BY <2>1 DEF AuthOf, Map
  <2>3. PICK n \in DOMAIN config.users : config.users[n].role = "admin"
    BY DEF SaveInv, Running
  <2>4. \E p \in PasswordsOf(<<"user", n>>) : config.users[n].hash = Hash(p)
    BY <2>3 DEF SaveInv, Running, Kept, OwnPasswords, OwnUser
  <2>5. n \in DOMAIN config.users \cap DOMAIN auth.users
        /\ auth.users[n] = config.users[n].hash
    BY <2>2, <2>3
  <2>6. \E p \in PasswordsOf(<<"user", n>>) : auth.users[n] = Hash(p)
    BY <2>4, <2>5
  <2> QED
    BY <2>3, <2>5, <2>6
<1> QED
  BY <1>1, SaveInvariant, PTL

-----------------------------------------------------------------------------
(* The file and what runs.  A configuration is whole when reading it as a  *)
(* document gives it back.                                                 *)

Whole(c) == Parse(c) = c /\ ValidPaths(c)

\* What a document holds decides what it parses to, key by key.
LEMMA ParsedKeys ==
  ASSUME NEW doc, HasSections(doc), NEW c, c = Parse(doc)
  PROVE  /\ HasSections(c)
         /\ c.settings = doc.settings /\ c.rate = doc.rate
         /\ c.source_password = doc.source_password /\ c.transcode = doc.transcode
         /\ c.users = Map(doc.users, ParseUser) /\ c.mounts = doc.mounts
         /\ c.autodjs = Map(doc.autodjs, ParseAutodj) /\ c.relays = Map(doc.relays, ParseRelay)
<1> DEFINE users == Map(doc.users, ParseUser)
           autodjs == Map(doc.autodjs, ParseAutodj)
           relays == Map(doc.relays, ParseRelay)
           c1 == [doc EXCEPT !.users = users]
           c2 == [c1 EXCEPT !.autodjs = autodjs]
           c3 == [c2 EXCEPT !.relays = relays]
<1>1. c = [doc EXCEPT !.users = Map(@, ParseUser), !.autodjs = Map(@, ParseAutodj),
                      !.relays = Map(@, ParseRelay)]
  BY DEF Parse
<1>2. c = c3
  <2>1. doc.autodjs = c1.autodjs /\ c1.relays = doc.relays /\ c2.relays = doc.relays
    <3>1. HasSections(c1) /\ c1.autodjs = doc.autodjs /\ c1.relays = doc.relays
      <4> HIDE DEF users
      <4> QED
        BY WriteKey
    <3> HIDE DEF c1, autodjs
    <3>2. c2.relays = c1.relays
      BY <3>1, WriteKey
    <3> QED
      BY <3>1, <3>2
  <2> QED
    BY <1>1, <2>1
<1> HIDE DEF users, autodjs, relays
<1>3. /\ HasSections(c1)
      /\ c1.settings = doc.settings /\ c1.rate = doc.rate
      /\ c1.source_password = doc.source_password /\ c1.transcode = doc.transcode
      /\ c1.users = users /\ c1.mounts = doc.mounts
  BY WriteKey
<1> HIDE DEF c1
<1>4. /\ HasSections(c2)
      /\ c2.settings = c1.settings /\ c2.rate = c1.rate
      /\ c2.source_password = c1.source_password /\ c2.transcode = c1.transcode
      /\ c2.users = c1.users /\ c2.mounts = c1.mounts /\ c2.autodjs = autodjs
  BY <1>3, WriteKey
<1> HIDE DEF c2
<1>5. /\ HasSections(c3)
      /\ c3.settings = c2.settings /\ c3.rate = c2.rate
      /\ c3.source_password = c2.source_password /\ c3.transcode = c2.transcode
      /\ c3.users = c2.users /\ c3.mounts = c2.mounts /\ c3.autodjs = c2.autodjs
      /\ c3.relays = relays
  BY <1>4, WriteKey
<1> HIDE DEF c3
<1> QED
  BY <1>2, <1>3, <1>4, <1>5 DEF users, autodjs, relays

\* Two documents with the same sections are the same.
LEMMA SameSections ==
  ASSUME NEW c, HasSections(c), NEW d, HasSections(d),
         c.settings = d.settings, c.rate = d.rate, c.source_password = d.source_password,
         c.transcode = d.transcode, c.users = d.users, c.mounts = d.mounts,
         c.autodjs = d.autodjs, c.relays = d.relays
  PROVE  c = d
<1>1. c = [settings |-> c.settings, rate |-> c.rate, source_password |-> c.source_password,
           transcode |-> c.transcode, users |-> c.users, mounts |-> c.mounts,
           autodjs |-> c.autodjs, relays |-> c.relays]
  BY DEF HasSections
<1>2. d = [settings |-> c.settings, rate |-> c.rate, source_password |-> c.source_password,
           transcode |-> c.transcode, users |-> c.users, mounts |-> c.mounts,
           autodjs |-> c.autodjs, relays |-> c.relays]
  BY DEF HasSections
<1> QED
  BY <1>1, <1>2, Zenon

\* A default that is filled in stays.
LEMMA ParseTwice ==
  /\ \A u : ParseUser(ParseUser(u)) = ParseUser(u)
  /\ \A a : ParseAutodj(ParseAutodj(a)) = ParseAutodj(a)
  /\ \A r : ParseRelay(ParseRelay(r)) = ParseRelay(r)
<1>1. ASSUME NEW u PROVE ParseUser(ParseUser(u)) = ParseUser(u)
  BY DEF ParseUser, Given
<1>2. ASSUME NEW a PROVE ParseAutodj(ParseAutodj(a)) = ParseAutodj(a)
  BY DEF ParseAutodj, Given
<1>3. ASSUME NEW r PROVE ParseRelay(ParseRelay(r)) = ParseRelay(r)
  BY DEF ParseRelay, Given
<1> QED
  BY <1>1, <1>2, <1>3

\* A document read twice is a document read once.
LEMMA ParsedWhole ==
  ASSUME NEW doc, HasSections(doc)
  PROVE  Parse(Parse(doc)) = Parse(doc)
<1> DEFINE c == Parse(doc)
           d == Parse(c)
<1>1. /\ HasSections(c)
      /\ c.users = Map(doc.users, ParseUser)
      /\ c.autodjs = Map(doc.autodjs, ParseAutodj) /\ c.relays = Map(doc.relays, ParseRelay)
  BY ParsedKeys
<1> HIDE DEF c
<1>2. /\ HasSections(d)
      /\ d.settings = c.settings /\ d.rate = c.rate
      /\ d.source_password = c.source_password /\ d.transcode = c.transcode
      /\ d.users = Map(c.users, ParseUser) /\ d.mounts = c.mounts
      /\ d.autodjs = Map(c.autodjs, ParseAutodj) /\ d.relays = Map(c.relays, ParseRelay)
  BY <1>1, ParsedKeys
<1> HIDE DEF d
<1>3. d.users = c.users
  BY <1>1, <1>2, ParseTwice DEF Map
<1>4. d.autodjs = c.autodjs
  BY <1>1, <1>2, ParseTwice DEF Map
<1>5. d.relays = c.relays
  BY <1>1, <1>2, ParseTwice DEF Map
<1>6. d = c
  BY <1>1, <1>2, <1>3, <1>4, <1>5, SameSections
<1> QED
  BY <1>6 DEF c, d

\* An entry as it is written to the file, read back, is the entry.
LEMMA AutodjRoundTrip ==
  ASSUME NEW a,
         a = [at |-> a.at, enabled |-> a.enabled, loop |-> a.loop, order |-> a.order,
              rest |-> a.rest],
         a.enabled \in BOOLEAN, a.loop \in BOOLEAN, a.order = Given(a.order, "shuffle")
  PROVE  ParseAutodj([a EXCEPT !.enabled = IF a.enabled THEN Unset ELSE FALSE,
                               !.loop = IF a.loop THEN Unset ELSE FALSE]) = a
BY DocumentAssumption DEF ParseAutodj, Given

LEMMA RelayRoundTrip ==
  ASSUME NEW r,
         r = [at |-> r.at, enabled |-> r.enabled, username |-> r.username,
              password |-> r.password, rest |-> r.rest],
         r.enabled \in BOOLEAN
  PROVE  ParseRelay([r EXCEPT !.enabled = IF r.enabled THEN Unset ELSE FALSE]) = r
BY DocumentAssumption DEF ParseRelay, Given

\* A document parses to a configuration when it has its keys.
LEMMA ParsesTo ==
  ASSUME NEW doc, HasSections(doc), NEW c, HasSections(c)
  PROVE  Parse(doc) = c <=>
           /\ c.settings = doc.settings /\ c.rate = doc.rate
           /\ c.source_password = doc.source_password /\ c.transcode = doc.transcode
           /\ c.users = Map(doc.users, ParseUser) /\ c.mounts = doc.mounts
           /\ c.autodjs = Map(doc.autodjs, ParseAutodj) /\ c.relays = Map(doc.relays, ParseRelay)
<1> DEFINE d == Parse(doc)
           users == Map(doc.users, ParseUser)
           autodjs == Map(doc.autodjs, ParseAutodj)
           relays == Map(doc.relays, ParseRelay)
<1>1. /\ HasSections(d)
      /\ d.settings = doc.settings /\ d.rate = doc.rate
      /\ d.source_password = doc.source_password /\ d.transcode = doc.transcode
      /\ d.users = users /\ d.mounts = doc.mounts
      /\ d.autodjs = autodjs /\ d.relays = relays
  BY ParsedKeys
<1> HIDE DEF d, users, autodjs, relays
<1>2. (/\ c.settings = doc.settings /\ c.rate = doc.rate
       /\ c.source_password = doc.source_password /\ c.transcode = doc.transcode
       /\ c.users = users /\ c.mounts = doc.mounts
       /\ c.autodjs = autodjs /\ c.relays = relays) => d = c
  BY <1>1, SameSections
<1>3. d = c <=>
           /\ c.settings = doc.settings /\ c.rate = doc.rate
           /\ c.source_password = doc.source_password /\ c.transcode = doc.transcode
           /\ c.users = users /\ c.mounts = doc.mounts
           /\ c.autodjs = autodjs /\ c.relays = relays
  BY <1>1, <1>2
<1> QED
  BY <1>3 DEF d, users, autodjs, relays

LEMMA KeyedMap ==
  \A entries : Keyed(entries) = [k \in DOMAIN Keyed(entries) |-> Keyed(entries)[k]]
BY DEF Keyed

\* A list of entries that are complete is complete as a map.
LEMMA KeyedWhole ==
  ASSUME NEW entries
  PROVE  /\ (\A u \in entries : ParseUser(u) = u) => Map(Keyed(entries), ParseUser) = Keyed(entries)
         /\ (\A a \in entries : ParseAutodj(a) = a) =>
              Map(Keyed(entries), ParseAutodj) = Keyed(entries)
         /\ (\A r \in entries : ParseRelay(r) = r) => Map(Keyed(entries), ParseRelay) = Keyed(entries)
<1> DEFINE map == Keyed(entries)
<1>1. map = [k \in DOMAIN map |-> map[k]]
  BY KeyedMap
<1>2. \A k \in DOMAIN map : map[k] \in entries
  BY KeyedPicks
<1> HIDE DEF map
<1>3. (\A u \in entries : ParseUser(u) = u) => Map(map, ParseUser) = map
  BY <1>1, <1>2 DEF Map
<1>4. (\A a \in entries : ParseAutodj(a) = a) => Map(map, ParseAutodj) = map
  BY <1>1, <1>2 DEF Map
<1>5. (\A r \in entries : ParseRelay(r) = r) => Map(map, ParseRelay) = map
  BY <1>1, <1>2 DEF Map
<1> QED
  BY <1>3, <1>4, <1>5 DEF map

\* The patch of a section, written into any document that parses to base,
\* makes it a document of the candidate.
Fits(section, patch, base, candidate) ==
  \A doc : HasSections(doc) /\ Parse(doc) = base => Parse(ApplyPatch(doc, section, patch)) = candidate

\* What a handler returns is a whole configuration, which the file will hold
\* whether it holds the one that runs now or that one already.
Written(r, section, c) ==
  r # Refused => /\ Whole(r.candidate)
                 /\ Fits(section, r.patch, c, r.candidate)
                 /\ Fits(section, r.patch, r.candidate, r.candidate)

\* Only an accepted candidate is returned.
LEMMA AcceptedValid ==
  ASSUME NEW patch, NEW candidate, AcceptedPaths(patch, candidate) # Refused
  PROVE  /\ ValidPaths(candidate)
         /\ AcceptedPaths(patch, candidate).patch = patch
         /\ AcceptedPaths(patch, candidate).candidate = candidate
BY DEF AcceptedPaths, Accepted

LEMMA ServerWritten ==
  ASSUME NEW c, HasSections(c), Whole(c), NEW b
  PROVE  Written(PutServer(c, b), "server", c)
<1> DEFINE pw == IF Typed(b.source_password) THEN b.source_password ELSE Unset
           p == [settings |-> b.settings, rate |-> b.rate, auth |-> pw]
           c1 == [c EXCEPT !.settings = p.settings]
           c2 == [c1 EXCEPT !.rate = p.rate]
           c3 == [c2 EXCEPT !.source_password = Given(p.auth, @)]
<1>1. PutServer(c, b) # Refused =>
        ValidPaths(c3) /\ PutServer(c, b).patch = p /\ PutServer(c, b).candidate = c3
  BY DEF PutServer, AcceptedPaths, Accepted
<1> HIDE DEF pw
<1>2. p.settings = b.settings /\ p.rate = b.rate /\ p.auth = pw
  OBVIOUS
<1> HIDE DEF p
<1>3. /\ HasSections(c1) /\ c1.settings = b.settings /\ c1.rate = c.rate
      /\ c1.source_password = c.source_password /\ c1.transcode = c.transcode
      /\ c1.users = c.users /\ c1.mounts = c.mounts /\ c1.autodjs = c.autodjs
      /\ c1.relays = c.relays
  BY <1>2, WriteKey
<1> HIDE DEF c1
<1>4. /\ HasSections(c2) /\ c2.settings = c1.settings /\ c2.rate = b.rate
      /\ c2.source_password = c1.source_password /\ c2.transcode = c1.transcode
      /\ c2.users = c1.users /\ c2.mounts = c1.mounts /\ c2.autodjs = c1.autodjs
      /\ c2.relays = c1.relays
  BY <1>2, <1>3, WriteKey
<1> HIDE DEF c2
<1>5. /\ HasSections(c3) /\ c3.settings = c2.settings /\ c3.rate = c2.rate
      /\ c3.source_password = Given(pw, c2.source_password) /\ c3.transcode = c2.transcode
      /\ c3.users = c2.users /\ c3.mounts = c2.mounts /\ c3.autodjs = c2.autodjs
      /\ c3.relays = c2.relays
  BY <1>2, <1>4, WriteKey
<1> HIDE DEF c3
<1>6. Parse(c3) = c3
  BY <1>3, <1>4, <1>5, ParsesTo DEF Whole
<1>7. ASSUME NEW doc, HasSections(doc), Parse(doc) = c \/ Parse(doc) = c3
      PROVE  Parse(ApplyPatch(doc, "server", p)) = c3
  <2> DEFINE d1 == [doc EXCEPT !.settings = p.settings]
             d2 == [d1 EXCEPT !.rate = p.rate]
             d3 == [d2 EXCEPT !.source_password = IF p.auth = Unset THEN @ ELSE p.auth]
  <2>1. ApplyPatch(doc, "server", p) = d3
    BY DEF ApplyPatch, ApplyServerPatch
  <2>2. /\ HasSections(d1) /\ d1.settings = b.settings
        /\ d1.source_password = doc.source_password /\ d1.transcode = doc.transcode
        /\ d1.users = doc.users /\ d1.mounts = doc.mounts /\ d1.autodjs = doc.autodjs
        /\ d1.relays = doc.relays
    BY <1>2, <1>7, WriteKey
  <2> HIDE DEF d1
  <2>3. /\ HasSections(d2) /\ d2.settings = d1.settings /\ d2.rate = b.rate
        /\ d2.source_password = d1.source_password /\ d2.transcode = d1.transcode
        /\ d2.users = d1.users /\ d2.mounts = d1.mounts /\ d2.autodjs = d1.autodjs
        /\ d2.relays = d1.relays
    BY <1>2, <2>2, WriteKey
  <2> HIDE DEF d2
  <2>4. /\ HasSections(d3) /\ d3.settings = d2.settings /\ d3.rate = d2.rate
        /\ d3.source_password = Given(pw, d2.source_password) /\ d3.transcode = d2.transcode
        /\ d3.users = d2.users /\ d3.mounts = d2.mounts /\ d3.autodjs = d2.autodjs
        /\ d3.relays = d2.relays
    BY <1>2, <2>3, WriteKey DEF Given
  <2> HIDE DEF d3
  <2>5. /\ c3.source_password = Given(pw, doc.source_password) /\ c3.transcode = doc.transcode
        /\ c3.users = Map(doc.users, ParseUser) /\ c3.mounts = doc.mounts
        /\ c3.autodjs = Map(doc.autodjs, ParseAutodj) /\ c3.relays = Map(doc.relays, ParseRelay)
    <3>1. CASE Parse(doc) = c
      BY <1>3, <1>4, <1>5, <1>7, <3>1, ParsesTo
    <3>2. CASE Parse(doc) = c3
      <4>1. c3.source_password = doc.source_password
        BY <1>5, <1>7, <3>2, ParsesTo
      <4>2. c3.source_password = Given(pw, c3.source_password)
        BY <1>5 DEF Given
      <4> QED
        BY <1>5, <1>7, <3>2, <4>1, <4>2, ParsesTo
    <3> QED
      BY <1>7, <3>1, <3>2
  <2>6. Parse(d3) = c3
    BY <1>3, <1>4, <1>5, <2>2, <2>3, <2>4, <2>5, ParsesTo
  <2> QED
    BY <2>1, <2>6
<1> QED
  BY <1>1, <1>6, <1>7 DEF Written, Whole, Fits

LEMMA TranscodeWritten ==
  ASSUME NEW c, HasSections(c), Whole(c), NEW t
  PROVE  Written(PutTranscode(c, t), "transcode", c)
<1> DEFINE d == [c EXCEPT !.transcode = t]
<1>1. PutTranscode(c, t) # Refused =>
        ValidPaths(d) /\ PutTranscode(c, t).patch = t /\ PutTranscode(c, t).candidate = d
  BY DEF PutTranscode, AcceptedPaths, Accepted
<1>2. /\ HasSections(d) /\ d.settings = c.settings /\ d.rate = c.rate
      /\ d.source_password = c.source_password /\ d.transcode = t
      /\ d.users = c.users /\ d.mounts = c.mounts /\ d.autodjs = c.autodjs /\ d.relays = c.relays
  BY WriteKey
<1> HIDE DEF d
<1>3. Parse(d) = d
  BY <1>2, ParsesTo DEF Whole
<1>4. ASSUME NEW doc, HasSections(doc), Parse(doc) = c \/ Parse(doc) = d
      PROVE  Parse(ApplyPatch(doc, "transcode", t)) = d
  <2> DEFINE e == [doc EXCEPT !.transcode = t]
  <2>1. ApplyPatch(doc, "transcode", t) = e
    BY DEF ApplyPatch, ApplyTranscodePatch
  <2>2. /\ HasSections(e) /\ e.settings = doc.settings /\ e.rate = doc.rate
        /\ e.source_password = doc.source_password /\ e.transcode = t
        /\ e.users = doc.users /\ e.mounts = doc.mounts /\ e.autodjs = doc.autodjs
        /\ e.relays = doc.relays
    BY <1>4, WriteKey
  <2> HIDE DEF e
  <2>3. Parse(e) = d
    BY <1>2, <1>4, <2>2, ParsesTo
  <2> QED
    BY <2>1, <2>3
<1> QED
  BY <1>1, <1>3, <1>4 DEF Written, Whole, Fits

LEMMA MountsWritten ==
  ASSUME NEW c, HasSections(c), Whole(c), NEW b
  PROVE  Written(PutMounts(c, b), "mounts", c)
<1> DEFINE ms == {[m EXCEPT !.password = MountPassword(c, m)] : m \in b}
           map == Keyed(ms)
           d == [c EXCEPT !.mounts = map]
<1>1. PutMounts(c, b) # Refused =>
        ValidPaths(d) /\ PutMounts(c, b).patch = ms /\ PutMounts(c, b).candidate = d
  BY DEF PutMounts, AcceptedPaths, Accepted
<1> HIDE DEF ms
<1>2. \A doc : ApplyPatch(doc, "mounts", ms) = [doc EXCEPT !.mounts = map]
  BY DEF ApplyPatch, ApplyMountsPatch
<1> HIDE DEF map
<1>3. /\ HasSections(d) /\ d.settings = c.settings /\ d.rate = c.rate
      /\ d.source_password = c.source_password /\ d.transcode = c.transcode
      /\ d.users = c.users /\ d.mounts = map /\ d.autodjs = c.autodjs /\ d.relays = c.relays
  BY WriteKey
<1> HIDE DEF d
<1>4. Parse(d) = d
  BY <1>3, ParsesTo DEF Whole
<1>5. ASSUME NEW doc, HasSections(doc), Parse(doc) = c \/ Parse(doc) = d
      PROVE  Parse(ApplyPatch(doc, "mounts", ms)) = d
  <2> DEFINE e == [doc EXCEPT !.mounts = map]
  <2>1. ApplyPatch(doc, "mounts", ms) = e
    BY <1>2
  <2>2. /\ HasSections(e) /\ e.settings = doc.settings /\ e.rate = doc.rate
        /\ e.source_password = doc.source_password /\ e.transcode = doc.transcode
        /\ e.users = doc.users /\ e.mounts = map /\ e.autodjs = doc.autodjs
        /\ e.relays = doc.relays
    BY <1>5, WriteKey
  <2> HIDE DEF e
  <2>3. Parse(e) = d
    BY <1>3, <1>5, <2>2, ParsesTo
  <2> QED
    BY <2>1, <2>3
<1> QED
  BY <1>1, <1>4, <1>5 DEF Written, Whole, Fits

\* Roles are written in full, so that none is left to its default.
LEMMA UsersWritten ==
  ASSUME NEW c, HasSections(c), Whole(c), NEW who, NEW b
  PROVE  Written(PutUsers(c, who, b), "users", c)
<1> DEFINE us == {[at |-> u.at, hash |-> UserHash(c, u), role |-> u.role] : u \in b}
           map == Keyed(us)
           d == [c EXCEPT !.users = map]
           roles == \A u \in us : u.role \in {"admin", "operator"}
<1>1. PutUsers(c, who, b) # Refused =>
        roles /\ PutUsers(c, who, b).patch = us /\ PutUsers(c, who, b).candidate = d
  BY DEF PutUsers, Accepted, ValidateUsersPatch
<1>2. ASSUME roles, NEW u \in us
      PROVE  ParseUser(u) = u
  <2>1. u = [at |-> u.at, hash |-> u.hash, role |-> u.role]
    OBVIOUS
  <2>2. Given(u.role, "admin") = u.role
    BY <1>2, DocumentAssumption DEF Given
  <2> QED
    BY <2>1, <2>2 DEF ParseUser
<1> HIDE DEF us
<1>3. roles => Map(map, ParseUser) = map
  BY <1>2, KeyedWhole
<1>4. \A doc : ApplyPatch(doc, "users", us) = [doc EXCEPT !.users = map]
  BY DEF ApplyPatch, ApplyUsersPatch
<1> HIDE DEF map, roles
<1>5. /\ HasSections(d) /\ d.settings = c.settings /\ d.rate = c.rate
      /\ d.source_password = c.source_password /\ d.transcode = c.transcode
      /\ d.users = map /\ d.mounts = c.mounts /\ d.autodjs = c.autodjs /\ d.relays = c.relays
  BY WriteKey
<1> HIDE DEF d
<1>6. ValidPaths(d)
  BY <1>5 DEF Whole, ValidPaths
<1>7. roles => Parse(d) = d
  BY <1>3, <1>5, ParsesTo DEF Whole
<1>8. ASSUME roles, NEW doc, HasSections(doc), Parse(doc) = c \/ Parse(doc) = d
      PROVE  Parse(ApplyPatch(doc, "users", us)) = d
  <2> DEFINE e == [doc EXCEPT !.users = map]
  <2>1. ApplyPatch(doc, "users", us) = e
    BY <1>4
  <2>2. /\ HasSections(e) /\ e.settings = doc.settings /\ e.rate = doc.rate
        /\ e.source_password = doc.source_password /\ e.transcode = doc.transcode
        /\ e.users = map /\ e.mounts = doc.mounts /\ e.autodjs = doc.autodjs
        /\ e.relays = doc.relays
    BY <1>8, WriteKey
  <2> HIDE DEF e
  <2>3. Parse(e) = d
    BY <1>3, <1>5, <1>8, <2>2, ParsesTo
  <2> QED
    BY <2>1, <2>3
<1> QED
  BY <1>1, <1>6, <1>7, <1>8 DEF Written, Whole, Fits

\* An autodj of a request, its defaults filled in.
LEMMA ParsedAutodj ==
  ASSUME NEW a,
         a = [at |-> a.at, enabled |-> a.enabled, loop |-> a.loop, order |-> a.order,
              rest |-> a.rest],
         a.enabled \in Opt(BOOLEAN), a.loop \in Opt(BOOLEAN), NEW e, e = ParseAutodj(a)
  PROVE  /\ e = [at |-> e.at, enabled |-> e.enabled, loop |-> e.loop, order |-> e.order,
                 rest |-> e.rest]
         /\ e.at = a.at /\ e.rest = a.rest
         /\ e.enabled \in BOOLEAN /\ e.loop \in BOOLEAN
         /\ e.order = Given(e.order, "shuffle")
<1> DEFINE enabled == Given(a.enabled, TRUE)
           loop == Given(a.loop, TRUE)
           order == Given(a.order, "shuffle")
<1>1. enabled \in BOOLEAN /\ loop \in BOOLEAN /\ order = Given(order, "shuffle")
  BY DEF Given, Opt
<1>2. e = [a EXCEPT !.enabled = enabled, !.loop = loop, !.order = order]
  BY DEF ParseAutodj
<1> HIDE DEF enabled, loop, order
<1>3. e = [at |-> a.at, enabled |-> enabled, loop |-> loop, order |-> order, rest |-> a.rest]
  BY <1>2
<1> QED
  BY <1>1, <1>3

\* The flags that are at their default are left out of the file.
LEMMA AutodjsWritten ==
  ASSUME NEW c, HasSections(c), Whole(c), NEW b,
         \A a \in b : /\ a = [at |-> a.at, enabled |-> a.enabled, loop |-> a.loop,
                              order |-> a.order, rest |-> a.rest]
                      /\ a.enabled \in Opt(BOOLEAN) /\ a.loop \in Opt(BOOLEAN)
  PROVE  Written(PutAutodjs(c, b), "autodjs", c)
<1> DEFINE as == {ParseAutodj(a) : a \in b}
           map == Keyed(as)
           d == [c EXCEPT !.autodjs = map]
           table(a) == [a EXCEPT !.enabled = IF a.enabled THEN Unset ELSE FALSE,
                                 !.loop = IF a.loop THEN Unset ELSE FALSE]
           tables == [k \in DOMAIN map |-> table(map[k])]
<1>1. PutAutodjs(c, b) # Refused =>
        ValidPaths(d) /\ PutAutodjs(c, b).patch = as /\ PutAutodjs(c, b).candidate = d
  BY DEF PutAutodjs, AcceptedPaths, Accepted
<1>2. ASSUME NEW e \in as
      PROVE  ParseAutodj(e) = e /\ ParseAutodj(table(e)) = e
  <2>1. PICK a \in b : e = ParseAutodj(a)
    OBVIOUS
  <2>2. /\ e = [at |-> e.at, enabled |-> e.enabled, loop |-> e.loop, order |-> e.order,
                rest |-> e.rest]
        /\ e.enabled \in BOOLEAN /\ e.loop \in BOOLEAN
        /\ e.order = Given(e.order, "shuffle")
    <3>1. /\ a = [at |-> a.at, enabled |-> a.enabled, loop |-> a.loop, order |-> a.order,
                  rest |-> a.rest]
          /\ a.enabled \in Opt(BOOLEAN) /\ a.loop \in Opt(BOOLEAN)
      OBVIOUS
    <3> QED
      BY ONLY <2>1, <3>1, ParsedAutodj
  <2>3. ParseAutodj(table(e)) = e
    BY ONLY <2>2, AutodjRoundTrip
  <2> QED
    BY <2>1, <2>3, ParseTwice
<1> HIDE DEF as
<1>3. Map(map, ParseAutodj) = map
  BY <1>2, KeyedWhole
<1>4. \A k \in DOMAIN map : map[k] \in as
  BY KeyedPicks
<1>5. map = [k \in DOMAIN map |-> map[k]]
  BY KeyedMap
<1>6. \A doc : ApplyPatch(doc, "autodjs", as) = [doc EXCEPT !.autodjs = tables]
  BY DEF ApplyPatch, ApplyAutodjsPatch, Map
<1> HIDE DEF map
<1>7. Map(tables, ParseAutodj) = map
  <2>1. \A k \in DOMAIN map : ParseAutodj(table(map[k])) = map[k]
    BY <1>2, <1>4
  <2> HIDE DEF table
  <2> QED
    BY <1>5, <2>1 DEF Map
<1> HIDE DEF tables
<1>8. /\ HasSections(d) /\ d.settings = c.settings /\ d.rate = c.rate
      /\ d.source_password = c.source_password /\ d.transcode = c.transcode
      /\ d.users = c.users /\ d.mounts = c.mounts /\ d.autodjs = map /\ d.relays = c.relays
  BY WriteKey
<1> HIDE DEF d
<1>9. Parse(d) = d
  BY <1>3, <1>8, ParsesTo DEF Whole
<1>10. ASSUME NEW doc, HasSections(doc), Parse(doc) = c \/ Parse(doc) = d
       PROVE  Parse(ApplyPatch(doc, "autodjs", as)) = d
  <2> DEFINE e == [doc EXCEPT !.autodjs = tables]
  <2>1. ApplyPatch(doc, "autodjs", as) = e
    BY <1>6
  <2>2. /\ HasSections(e) /\ e.settings = doc.settings /\ e.rate = doc.rate
        /\ e.source_password = doc.source_password /\ e.transcode = doc.transcode
        /\ e.users = doc.users /\ e.mounts = doc.mounts /\ e.autodjs = tables
        /\ e.relays = doc.relays
    BY <1>10, WriteKey
  <2> HIDE DEF e
  <2>3. Parse(e) = d
    BY <1>7, <1>8, <1>10, <2>2, ParsesTo
  <2> QED
    BY <2>1, <2>3
<1> QED
  BY <1>1, <1>9, <1>10 DEF Written, Whole, Fits

LEMMA RelaysWritten ==
  ASSUME NEW c, HasSections(c), Whole(c), NEW b,
         \A r \in b : /\ r = [at |-> r.at, enabled |-> r.enabled, username |-> r.username,
                              password |-> r.password, rest |-> r.rest]
                      /\ r.enabled \in Opt(BOOLEAN)
  PROVE  Written(PutRelays(c, b), "relays", c)
<1> DEFINE rs == {[ParseRelay(r) EXCEPT !.password = RelayPassword(c, r)] : r \in b}
           map == Keyed(rs)
           d == [c EXCEPT !.relays = map]
           table(r) == [r EXCEPT !.enabled = IF r.enabled THEN Unset ELSE FALSE]
           tables == [k \in DOMAIN map |-> table(map[k])]
<1>1. PutRelays(c, b) # Refused =>
        ValidPaths(d) /\ PutRelays(c, b).patch = rs /\ PutRelays(c, b).candidate = d
  BY DEF PutRelays, AcceptedPaths, Accepted
<1>2. ASSUME NEW e \in rs
      PROVE  ParseRelay(e) = e /\ ParseRelay(table(e)) = e
  <2>1. PICK r \in b : e = [ParseRelay(r) EXCEPT !.password = RelayPassword(c, r)]
    OBVIOUS
  <2>2. e = [at |-> r.at, enabled |-> Given(r.enabled, TRUE), username |-> r.username,
             password |-> RelayPassword(c, r), rest |-> r.rest]
    BY <2>1, ResolvedRelay
  <2>3. /\ e = [at |-> e.at, enabled |-> e.enabled, username |-> e.username,
                password |-> e.password, rest |-> e.rest]
        /\ e.enabled \in BOOLEAN
    BY <2>2 DEF Given, Opt
  <2>4. ParseRelay(table(e)) = e
    BY ONLY <2>3, RelayRoundTrip
  <2>5. ParseRelay(e) = e
    <3>1. Given(e.enabled, TRUE) = e.enabled
      <4>1. e.enabled = Given(r.enabled, TRUE)
        BY <2>2
      <4> QED
        BY ONLY <4>1, Zenon DEF Given
    <3>2. ParseRelay(e) = [at |-> e.at, enabled |-> Given(e.enabled, TRUE),
                           username |-> e.username, password |-> e.password, rest |-> e.rest]
      BY ONLY <2>3, ParsedRelay
    <3> QED
      BY <2>3, <3>1, <3>2
  <2> QED
    BY <2>4, <2>5
<1> HIDE DEF rs
<1>3. Map(map, ParseRelay) = map
  BY <1>2, KeyedWhole
<1>4. \A k \in DOMAIN map : map[k] \in rs
  BY KeyedPicks
<1>5. map = [k \in DOMAIN map |-> map[k]]
  BY KeyedMap
<1>6. \A doc : ApplyPatch(doc, "relays", rs) = [doc EXCEPT !.relays = tables]
  BY DEF ApplyPatch, ApplyRelaysPatch, Map
<1> HIDE DEF map
<1>7. Map(tables, ParseRelay) = map
  <2>1. \A k \in DOMAIN map : ParseRelay(table(map[k])) = map[k]
    BY <1>2, <1>4
  <2> HIDE DEF table
  <2> QED
    BY <1>5, <2>1 DEF Map
<1> HIDE DEF tables
<1>8. /\ HasSections(d) /\ d.settings = c.settings /\ d.rate = c.rate
      /\ d.source_password = c.source_password /\ d.transcode = c.transcode
      /\ d.users = c.users /\ d.mounts = c.mounts /\ d.autodjs = c.autodjs /\ d.relays = map
  BY WriteKey
<1> HIDE DEF d
<1>9. Parse(d) = d
  BY <1>3, <1>8, ParsesTo DEF Whole
<1>10. ASSUME NEW doc, HasSections(doc), Parse(doc) = c \/ Parse(doc) = d
       PROVE  Parse(ApplyPatch(doc, "relays", rs)) = d
  <2> DEFINE e == [doc EXCEPT !.relays = tables]
  <2>1. ApplyPatch(doc, "relays", rs) = e
    BY <1>6
  <2>2. /\ HasSections(e) /\ e.settings = doc.settings /\ e.rate = doc.rate
        /\ e.source_password = doc.source_password /\ e.transcode = doc.transcode
        /\ e.users = doc.users /\ e.mounts = doc.mounts /\ e.autodjs = doc.autodjs
        /\ e.relays = tables
    BY <1>10, WriteKey
  <2> HIDE DEF e
  <2>3. Parse(e) = d
    BY <1>7, <1>8, <1>10, <2>2, ParsesTo
  <2> QED
    BY <2>1, <2>3
<1> QED
  BY <1>1, <1>9, <1>10 DEF Written, Whole, Fits

LEMMA PutWritten ==
  ASSUME NEW bodies, OwnRequests(bodies), FlagsAreBooleans(bodies), NEW section \in Sections,
         NEW b \in bodies[section], NEW c, HasSections(c), Whole(c), NEW who
  PROVE  Written(Put(c, who, section, b), section, c)
<1>1. CASE section = "server"
  BY <1>1, ServerWritten DEF Put
<1>2. CASE section = "transcode"
  BY <1>2, TranscodeWritten DEF Put
<1>3. CASE section = "users"
  BY <1>3, UsersWritten DEF Put
<1>4. CASE section = "mounts"
  BY <1>4, MountsWritten DEF Put
<1>5. CASE section = "autodjs"
  <2>1. Put(c, who, section, b) = PutAutodjs(c, b)
    BY <1>5 DEF Put
  <2>2. \A a \in b : /\ a = [at |-> a.at, enabled |-> a.enabled, loop |-> a.loop,
                             order |-> a.order, rest |-> a.rest]
                     /\ a.enabled \in Opt(BOOLEAN) /\ a.loop \in Opt(BOOLEAN)
    BY <1>5 DEF FlagsAreBooleans
  <2>3. Written(PutAutodjs(c, b), "autodjs", c)
    BY <2>2, AutodjsWritten
  <2> QED
    BY <1>5, <2>1, <2>3
<1>6. CASE section = "relays"
  <2>1. Put(c, who, section, b) = PutRelays(c, b)
    BY <1>6 DEF Put
  <2>2. \A r \in b : /\ r = [at |-> r.at, enabled |-> r.enabled, username |-> r.username,
                             password |-> r.password, rest |-> r.rest]
                     /\ r.enabled \in Opt(BOOLEAN)
    BY <1>6 DEF FlagsAreBooleans, OwnRequests
  <2>3. Written(PutRelays(c, b), "relays", c)
    BY <2>2, RelaysWritten
  <2> QED
    BY <1>6, <2>1, <2>3
<1> QED
  BY <1>1, <1>2, <1>3, <1>4, <1>5, <1>6 DEF Sections, AdminSections, StreamSections

-----------------------------------------------------------------------------
(* The inductive invariant of the file.                                    *)

\* A file that is missing or does not parse is no document.
NoDocument == \A doc : HasSections(doc) => doc \notin {NoFile, Garbage}

\* The file parses to this configuration.
Holds(file, c) == file \notin {NoFile, Garbage} /\ Parse(file) = c

\* A request that waits: its patch turns a file of its candidate, and, unless
\* another save was applied since, one of the configuration that runs, into a
\* file of its candidate.
ReqFits(r, running) ==
  r # None /\ r.stage = "waiting" =>
    /\ Whole(r.candidate)
    /\ Fits(r.section, r.patch, r.candidate, r.candidate)
    /\ ~r.stale => Fits(r.section, r.patch, running, r.candidate)

\* The save in progress writes a file of the configuration it will apply,
\* unless it overlapped with another; once written, that is the file.
JobFits ==
  job.stage # "idle" =>
    /\ Whole(job.target)
    /\ job.by = "sighup" => job.stage \in {"auth", "store"} /\ Holds(job.file, job.target)
    /\ job.by # "sighup" => job.by \in Clients /\ req[job.by] # None
                            /\ req[job.by].stage = "waiting"
    /\ job.stage \in {"create", "fill", "rename"} /\ taint = {} /\ ~req[job.by].stale =>
         Parse(job.file) = job.target
    /\ job.stage = "rename" => tmp = job.file
    /\ job.stage \in {"auth", "store"} /\ taint = {} => Holds(disk, job.target)

DiskRuns ==
  up /\ taint = {} /\ job.stage \notin {"auth", "store"} /\ disk # NoFile => Holds(disk, config)

EmptyWhenDown == ~up => \A c \in Clients : req[c] = None

FileInv ==
  /\ Whole(config)
  /\ \A c \in Clients : ReqFits(req[c], config)
  /\ JobFits
  /\ DiskRuns
  /\ RestartLoads
  /\ EmptyWhenDown

\* A file that holds a whole configuration can be loaded.
LEMMA HoldsLoads ==
  ASSUME NEW file, NEW c, Holds(file, c), Whole(c)
  PROVE  Loadable(file)
BY DEF Holds, Whole, Loadable

LEMMA LoadWhole ==
  ASSUME NEW file, Intact(file), file = NoFile \/ Loadable(file), NEW c,
         c = IF file = NoFile THEN Defaults ELSE Parse(file)
  PROVE  Whole(c) /\ (file # NoFile => Holds(file, c))
<1>1. CASE file = NoFile
  BY <1>1, DocumentAssumption DEF Whole
<1>2. CASE file # NoFile
  <2>1. HasSections(file)
    BY <1>2 DEF Loadable, Intact, Kept, OwnPasswords
  <2>2. Parse(Parse(file)) = Parse(file)
    BY <2>1, ParsedWhole
  <2> QED
    BY <1>2, <2>2 DEF Whole, Loadable, Holds
<1> QED
  BY <1>1, <1>2

LEMMA InitFile == Init => FileInv
<1> SUFFICES ASSUME Init
             PROVE  FileInv
  OBVIOUS
<1>1. Intact(disk)
  BY FilesKept DEF Init, Intact
<1>2. Whole(config) /\ (disk # NoFile => Holds(disk, config))
  BY <1>1, LoadWhole DEF Init
<1>3. \A c \in Clients : ReqFits(req[c], config)
  BY DEF Init, ReqFits
<1>4. JobFits
  BY DEF Init, Idle, JobFits
<1>5. RestartLoads
  BY DEF Init, RestartLoads
<1>6. DiskRuns /\ EmptyWhenDown
  BY <1>2 DEF Init, DiskRuns, EmptyWhenDown
<1> QED
  BY <1>2, <1>3, <1>4, <1>5, <1>6 DEF FileInv

\* A step that changes one request, not the one that is being saved, and
\* nothing else that FileInv is about.
LEMMA FileReqStep ==
  ASSUME SaveInv, FileInv, NEW c, NEW r, ReqFits(r, config), up \/ r = None,
         req' = [req EXCEPT ![c] = r],
         job.stage # "idle" /\ job.by # "sighup" => job.by # c,
         UNCHANGED <<config, disk, tmp, up, job, taint>>
  PROVE  FileInv'
<1>1. req = [d \in Clients |-> req[d]]
  BY DEF SaveInv
<1>2. req' = [d \in Clients |-> IF d = c THEN r ELSE req[d]]
  BY <1>1
<1>3. Whole(config)' /\ (\A d \in Clients : ReqFits(req[d], config))'
  <2>1. ASSUME NEW d \in Clients
        PROVE  ReqFits(req'[d], config)
    BY <1>2 DEF FileInv
  <2> QED
    BY <2>1 DEF FileInv
<1>4. JobFits'
  <2>1. CASE job.stage = "idle"
    BY <2>1 DEF JobFits
  <2>2. CASE job.stage # "idle" /\ job.by = "sighup"
    BY <2>2 DEF FileInv, JobFits
  <2>3. CASE job.stage # "idle" /\ job.by # "sighup"
    <3>1. job.by \in Clients /\ req'[job.by] = req[job.by]
      BY <1>2, <2>3 DEF FileInv, JobFits
    <3> QED
      BY <2>3, <3>1 DEF FileInv, JobFits
  <2> QED
    BY <2>1, <2>2, <2>3
<1>5. DiskRuns' /\ RestartLoads'
  BY DEF FileInv, DiskRuns, RestartLoads
<1>6. EmptyWhenDown'
  BY <1>2 DEF FileInv, EmptyWhenDown
<1> QED
  BY <1>3, <1>4, <1>5, <1>6 DEF FileInv

\* The steps before the lock, and those that leave the save where it is.
LEMMA FileStepRequests ==
  ASSUME SaveInv, FileInv, NEW c \in Clients
  PROVE  /\ \A n \in Names : Login(c, n) => FileInv'
         /\ SessionEnds(c) => FileInv'
         /\ \A section \in Sections : Gate(c, section) => FileInv'
         /\ \A section \in Sections : \A b \in Bodies[section] : Handle(c, section, b) => FileInv'
         /\ Leave(c) => FileInv'
<1>none. ReqFits(None, config)
  BY DEF ReqFits
<1>frame. ASSUME UNCHANGED <<config, disk, tmp, up, req, job, taint>>
          PROVE  FileInv'
  BY <1>frame DEF FileInv, ReqFits, JobFits, DiskRuns, RestartLoads, EmptyWhenDown
<1>1. ASSUME NEW n \in Names, Login(c, n) PROVE FileInv'
  BY <1>1, <1>frame DEF Login
<1>2. ASSUME SessionEnds(c) PROVE FileInv'
  BY <1>2, <1>frame DEF SessionEnds
<1>3. ASSUME NEW section \in Sections, Gate(c, section)
      PROVE  FileInv'
  <2> DEFINE r == [stage |-> "admitted", section |-> section]
  <2>1. r.stage # "waiting"
    OBVIOUS
  <2>2. req' = [req EXCEPT ![c] = r] /\ up /\ req[c] = None
    BY <1>3 DEF Gate
  <2> HIDE DEF r
  <2>3. ReqFits(r, config)
    BY <2>1 DEF ReqFits
  <2>4. job.stage # "idle" /\ job.by # "sighup" => job.by # c
    BY <2>2 DEF FileInv, JobFits
  <2>5. UNCHANGED <<config, disk, tmp, up, job, taint>>
    BY <1>3 DEF Gate
  <2> QED
    BY <2>2, <2>3, <2>4, <2>5, FileReqStep
<1>4. ASSUME NEW section \in Sections, NEW b \in Bodies[section], Handle(c, section, b)
      PROVE  FileInv'
  <2> DEFINE p == Put(config, session[c], section, b)
             w == [stage |-> "waiting", section |-> section, patch |-> p.patch,
                   candidate |-> p.candidate, stale |-> FALSE]
  <2>1. Written(p, section, config)
    <3>1. HasSections(config) /\ Whole(config)
      BY DEF SaveInv, FileInv, Running, Kept, OwnPasswords
    <3> QED
      BY <3>1, ConfigAssumption, DocumentAssumption, PutWritten
  <2>2. req' = [req EXCEPT ![c] = IF p = Refused THEN None ELSE w]
    BY <1>4 DEF Handle
  <2> HIDE DEF p
  <2>3. w.stage = "waiting" /\ w.section = section /\ w.patch = p.patch
        /\ w.candidate = p.candidate /\ w.stale = FALSE
    OBVIOUS
  <2> HIDE DEF w
  <2>4. ReqFits(IF p = Refused THEN None ELSE w, config)
    BY <1>none, <2>1, <2>3 DEF ReqFits, Written
  <2>5. job.stage # "idle" /\ job.by # "sighup" => job.by # c
    <3>1. req[c] = [stage |-> "admitted", section |-> section]
      BY <1>4 DEF Handle
    <3>2. req[c].stage = "admitted"
      BY <3>1
    <3> QED
      BY <3>2 DEF FileInv, JobFits
  <2>6. up /\ UNCHANGED <<config, disk, tmp, up, job, taint>>
    BY <1>4 DEF Handle
  <2> QED
    BY <2>2, <2>4, <2>5, <2>6, FileReqStep
<1>5. ASSUME Leave(c) PROVE FileInv'
  BY <1>5, <1>none, FileReqStep DEF Leave
<1> QED
  BY <1>1, <1>2, <1>3, <1>4, <1>5

\* The lock is taken: the patched document is one of the candidate, if the
\* file is what runs, or if there was none to patch.
LEMMA FileStepPersist ==
  ASSUME SaveInv, FileInv, NEW c \in Clients, Persist(c)
  PROVE  FileInv'
<1> DEFINE r == req[c]
           doc == IF origin # "defaults" /\ disk # NoFile THEN disk ELSE r.candidate
           file == ApplyPatch(doc, r.section, r.patch)
<1>1. /\ r # None /\ r.stage = "waiting" /\ up /\ job.stage = "idle"
      /\ UNCHANGED <<config, disk, tmp, up, taint>>
  BY DEF Persist
<1>2. ReqFits(r, config) /\ Running(r.candidate)
  BY <1>1 DEF FileInv, SaveInv, ReqOk
<1>3. CASE doc = Garbage
  <2>1. req' = [req EXCEPT ![c] = None] /\ UNCHANGED job
    BY <1>3 DEF Persist
  <2>2. ReqFits(None, config)
    BY DEF ReqFits
  <2> QED
    BY <1>1, <2>1, <2>2, FileReqStep
<1>4. CASE doc # Garbage
  <2>1. taint = {} /\ ~r.stale => Parse(file) = r.candidate
    <3>1. CASE doc = disk /\ disk # NoFile
      <4>1. HasSections(disk)
        BY <1>4, <3>1 DEF SaveInv, Intact, Kept, OwnPasswords
      <4>2. taint = {} => Parse(disk) = config
        BY <1>1, <3>1 DEF FileInv, DiskRuns, Holds
      <4> HIDE DEF r
      <4> QED
        BY <1>1, <1>2, <3>1, <4>1, <4>2 DEF ReqFits, Fits
    <3>2. CASE doc = r.candidate
      <4>1. HasSections(r.candidate)
        BY <1>2 DEF Running, Kept, OwnPasswords
      <4>2. Parse(r.candidate) = r.candidate
        BY <1>1, <1>2 DEF ReqFits, Whole
      <4> HIDE DEF r
      <4> QED
        BY <1>1, <1>2, <3>2, <4>1, <4>2 DEF ReqFits, Fits
    <3> QED
      BY <3>1, <3>2
  <2>2. UNCHANGED req /\ job' = [by |-> c, stage |-> "create", target |-> r.candidate,
                                 file |-> file]
    BY <1>4 DEF Persist
  <2> HIDE DEF file
  <2>3. job'.by = c /\ job'.stage = "create" /\ job'.target = r.candidate /\ job'.file = file
    BY <2>2
  <2>4. c # "sighup"
    BY DocumentAssumption
  <2>5. JobFits'
    BY <1>1, <1>2, <2>1, <2>2, <2>3, <2>4 DEF JobFits, ReqFits
  <2>6. DiskRuns' /\ RestartLoads' /\ EmptyWhenDown'
    BY <1>1, <2>2, <2>3 DEF FileInv, DiskRuns, RestartLoads, EmptyWhenDown
  <2>7. Whole(config') /\ \A d \in Clients : ReqFits(req'[d], config')
    BY <1>1, <2>2 DEF FileInv
  <2> QED
    BY <2>5, <2>6, <2>7 DEF FileInv
<1> QED
  BY <1>3, <1>4

\* The next step of the save in progress, to "fill", "rename", "auth", "store".
LEMMA FileMoves ==
  ASSUME SaveInv, FileInv, NEW from, from # "idle", At(from), NEW stage, stage # "idle",
         Goto(stage), UNCHANGED <<config, up, req>>
  PROVE  /\ job'.by = job.by /\ job'.stage = stage /\ job'.target = job.target
         /\ job'.file = job.file /\ job.stage = from /\ up
         /\ Whole(config') /\ \A c \in Clients : ReqFits(req'[c], config')
         /\ EmptyWhenDown'
<1>1. job = [by |-> job.by, stage |-> job.stage, target |-> job.target, file |-> job.file]
  BY DEF SaveInv, JobOk, At
<1>2. job' = [by |-> job.by, stage |-> stage, target |-> job.target, file |-> job.file]
  BY <1>1 DEF Goto
<1> QED
  BY <1>2 DEF FileInv, EmptyWhenDown, At

\* The temporary file is written, then renamed over the file: there is a file
\* of what runs, or of what is about to, at each of these steps.
LEMMA FileStepWrite ==
  ASSUME NoDocument, SaveInv, FileInv
  PROVE  /\ CreateTmp => FileInv'
         /\ FillTmp => FileInv'
         /\ RenameTmp => FileInv'
         /\ WriteFails => FileInv'
<1>1. ASSUME CreateTmp PROVE FileInv'
  <2>1. /\ job'.by = job.by /\ job'.stage = "fill" /\ job'.target = job.target
        /\ job'.file = job.file /\ job.stage = "create" /\ up
        /\ Whole(config') /\ \A c \in Clients : ReqFits(req'[c], config')
        /\ EmptyWhenDown'
    BY <1>1, FileMoves DEF CreateTmp
  <2>2. UNCHANGED <<config, up, req, disk, taint>>
    BY <1>1 DEF CreateTmp
  <2>3. JobFits'
    BY <2>1, <2>2 DEF FileInv, JobFits
  <2>4. DiskRuns' /\ RestartLoads'
    BY <2>1, <2>2 DEF FileInv, DiskRuns, RestartLoads
  <2> QED
    BY <2>1, <2>3, <2>4 DEF FileInv
<1>2. ASSUME FillTmp PROVE FileInv'
  <2>1. /\ job'.by = job.by /\ job'.stage = "rename" /\ job'.target = job.target
        /\ job'.file = job.file /\ job.stage = "fill" /\ up
        /\ Whole(config') /\ \A c \in Clients : ReqFits(req'[c], config')
        /\ EmptyWhenDown'
    BY <1>2, FileMoves DEF FillTmp
  <2>2. UNCHANGED <<config, up, req, disk, taint>> /\ tmp' = job.file
    BY <1>2 DEF FillTmp
  <2>3. JobFits'
    BY <2>1, <2>2 DEF FileInv, JobFits
  <2>4. DiskRuns' /\ RestartLoads'
    BY <2>1, <2>2 DEF FileInv, DiskRuns, RestartLoads
  <2> QED
    BY <2>1, <2>3, <2>4 DEF FileInv
<1>3. ASSUME RenameTmp PROVE FileInv'
  <2>1. /\ job'.by = job.by /\ job'.stage = "auth" /\ job'.target = job.target
        /\ job'.file = job.file /\ job.stage = "rename" /\ up
        /\ Whole(config') /\ \A c \in Clients : ReqFits(req'[c], config')
        /\ EmptyWhenDown'
    BY <1>3, FileMoves DEF RenameTmp
  <2>2. /\ UNCHANGED <<config, up, req>> /\ disk' = tmp
        /\ taint' = taint \cup IF req[job.by].stale THEN {"overlap"} ELSE {}
    BY <1>3 DEF RenameTmp
  <2>3. disk' = job.file /\ job.by # "sighup" /\ Whole(job.target)
        /\ job.by \in Clients /\ req[job.by] # None /\ req[job.by].stage = "waiting"
    BY <2>1, <2>2 DEF FileInv, JobFits
  <2>4. taint' = {} => Holds(disk', job.target)
    <3>1. taint' = {} => taint = {} /\ ~req[job.by].stale
      BY <2>2
    <3>2. job.file \notin {NoFile, Garbage}
      BY <2>1 DEF NoDocument, SaveInv, JobOk, Kept, OwnPasswords
    <3>3. taint' = {} => Parse(job.file) = job.target
      BY <2>1, <3>1 DEF FileInv, JobFits
    <3> QED
      BY <2>3, <3>2, <3>3 DEF Holds
  <2>5. JobFits'
    BY <2>1, <2>2, <2>3, <2>4 DEF JobFits
  <2>6. DiskRuns'
    BY <2>1 DEF DiskRuns
  <2>7. RestartLoads'
    BY <2>3, <2>4, HoldsLoads DEF RestartLoads
  <2> QED
    BY <2>1, <2>5, <2>6, <2>7 DEF FileInv
<1>4. ASSUME WriteFails PROVE FileInv'
  <2>1. /\ job.stage \in {"create", "fill", "rename"} /\ up /\ job' = Idle
        /\ req' = [req EXCEPT ![job.by] = None]
        /\ UNCHANGED <<config, disk, up, taint>>
    BY <1>4 DEF WriteFails, At
  <2>2. \A c \in Clients : ReqFits(req'[c], config')
    <3>1. req = [d \in Clients |-> req[d]]
      BY DEF SaveInv
    <3>2. \A c \in Clients : req'[c] = None \/ req'[c] = req[c]
      BY <2>1, <3>1
    <3>3. ReqFits(None, config)
      BY DEF ReqFits
    <3> QED
      BY <2>1, <3>2, <3>3 DEF FileInv
  <2>3. JobFits'
    BY <2>1 DEF Idle, JobFits
  <2>4. DiskRuns' /\ RestartLoads' /\ EmptyWhenDown'
    BY <2>1 DEF FileInv, DiskRuns, RestartLoads, EmptyWhenDown
  <2> QED
    BY <2>1, <2>2, <2>3, <2>4 DEF FileInv
<1> QED
  BY <1>1, <1>2, <1>3, <1>4

\* The apply, finished or dropped.  Requests that were resolved against the
\* configuration that is replaced are marked.
LEMMA FileStepApply ==
  ASSUME SaveInv, FileInv
  PROVE  /\ ReloadAuth => FileInv'
         /\ ClientGone => FileInv'
         /\ Store => FileInv'
<1>1. ASSUME ReloadAuth PROVE FileInv'
  <2>1. /\ job'.by = job.by /\ job'.stage = "store" /\ job'.target = job.target
        /\ job'.file = job.file /\ job.stage = "auth" /\ up
        /\ Whole(config') /\ \A c \in Clients : ReqFits(req'[c], config')
        /\ EmptyWhenDown'
    BY <1>1, FileMoves DEF ReloadAuth
  <2>2. UNCHANGED <<config, up, req, disk, tmp, taint>>
    BY <1>1 DEF ReloadAuth
  <2>3. JobFits'
    BY <2>1, <2>2 DEF FileInv, JobFits
  <2>4. DiskRuns' /\ RestartLoads'
    BY <2>1, <2>2 DEF FileInv, DiskRuns, RestartLoads
  <2> QED
    BY <2>1, <2>3, <2>4 DEF FileInv
<1>2. ASSUME ClientGone PROVE FileInv'
  <2>1. /\ up /\ job' = Idle /\ taint' # {}
        /\ req' = [req EXCEPT ![job.by] = None]
        /\ UNCHANGED <<config, disk, up>>
    BY <1>2 DEF ClientGone, At
  <2>2. \A c \in Clients : ReqFits(req'[c], config')
    <3>1. req = [d \in Clients |-> req[d]]
      BY DEF SaveInv
    <3>2. \A c \in Clients : req'[c] = None \/ req'[c] = req[c]
      BY <2>1, <3>1
    <3>3. ReqFits(None, config)
      BY DEF ReqFits
    <3> QED
      BY <2>1, <3>2, <3>3 DEF FileInv
  <2>3. JobFits'
    BY <2>1 DEF Idle, JobFits
  <2>4. DiskRuns' /\ RestartLoads' /\ EmptyWhenDown'
    BY <2>1 DEF DiskRuns, RestartLoads, EmptyWhenDown
  <2> QED
    BY <2>1, <2>2, <2>3, <2>4 DEF FileInv
<1>3. ASSUME Store PROVE FileInv'
  <2>1. /\ up /\ job.stage = "store" /\ config' = job.target /\ job' = Idle
        /\ taint' = IF job.by = "sighup" /\ disk = job.file THEN {} ELSE taint
        /\ UNCHANGED <<disk, up>>
    BY <1>3 DEF Store, At
  <2>2. Whole(job.target)
    BY <2>1 DEF FileInv, JobFits
  <2>3. taint' = {} => Holds(disk, job.target)
    <3>1. CASE job.by = "sighup" /\ disk = job.file
      BY <2>1, <3>1 DEF FileInv, JobFits
    <3>2. CASE ~(job.by = "sighup" /\ disk = job.file)
      BY <2>1, <3>2 DEF FileInv, JobFits
    <3> QED
      BY <3>1, <3>2
  <2>4. ASSUME NEW c \in Clients
        PROVE  ReqFits(req'[c], job.target)
    <3> DEFINE w == [req[c] EXCEPT !.stale = @ \/ job.target # config]
    <3>1. CASE req'[c] = None \/ (req'[c] = req[c] /\ ~(req[c] # None /\ req[c].stage = "waiting"))
      BY <3>1 DEF ReqFits
    <3>2. CASE req[c] # None /\ req[c].stage = "waiting" /\ req'[c] = w
      <4> DEFINE stale == req[c].stale \/ job.target # config
      <4>1. w = [req[c] EXCEPT !.stale = stale]
        OBVIOUS
      <4>2. ~stale => ~req[c].stale /\ job.target = config
        OBVIOUS
      <4> HIDE DEF stale, w
      <4>3. req[c] = [stage |-> "waiting", section |-> req[c].section, patch |-> req[c].patch,
                      candidate |-> req[c].candidate, stale |-> req[c].stale]
        BY <3>2 DEF SaveInv, ReqOk
      <4>4. w.section = req[c].section /\ w.patch = req[c].patch
            /\ w.candidate = req[c].candidate /\ w.stale = stale
        BY <4>1, <4>3
      <4>5. ReqFits(req[c], config)
        BY DEF FileInv
      <4> QED
        BY <3>2, <4>2, <4>4, <4>5 DEF ReqFits
    <3>3. \/ req'[c] = None \/ (req'[c] = req[c] /\ ~(req[c] # None /\ req[c].stage = "waiting"))
          \/ req[c] # None /\ req[c].stage = "waiting" /\ req'[c] = w
      BY <1>3 DEF Store
    <3> QED
      BY <3>1, <3>2, <3>3
  <2>5. JobFits'
    BY <2>1 DEF Idle, JobFits
  <2>6. DiskRuns' /\ EmptyWhenDown'
    BY <2>1, <2>3 DEF DiskRuns, EmptyWhenDown
  <2>7. RestartLoads'
    BY <2>1, <2>2, <2>3, HoldsLoads DEF RestartLoads
  <2> QED
    BY <2>1, <2>2, <2>4, <2>5, <2>6, <2>7 DEF FileInv
<1> QED
  BY <1>1, <1>2, <1>3

\* Around a save: the file is edited, read again, or read at a start.
LEMMA FileStepAround ==
  ASSUME SaveInv, FileInv
  PROVE  /\ \A f \in Files : EditByHand(f) => FileInv'
         /\ Sighup => FileInv'
         /\ Kill => FileInv'
         /\ Restart => FileInv'
<1>1. ASSUME NEW f \in Files, EditByHand(f) PROVE FileInv'
  <2>1. taint' # {} /\ UNCHANGED <<config, tmp, up, req, job>>
    BY <1>1 DEF EditByHand
  <2> QED
    BY <2>1 DEF FileInv, JobFits, DiskRuns, RestartLoads, EmptyWhenDown
<1>2. ASSUME Sighup PROVE FileInv'
  <2>1. /\ up /\ job.stage = "idle" /\ Loadable(disk)
        /\ job' = [by |-> "sighup", stage |-> "auth", target |-> Parse(disk), file |-> disk]
        /\ UNCHANGED <<config, disk, tmp, up, req, taint>>
    BY <1>2 DEF Sighup
  <2>2. job'.by = "sighup" /\ job'.stage = "auth" /\ job'.target = Parse(disk) /\ job'.file = disk
    BY <2>1
  <2>3. Whole(Parse(disk)) /\ Holds(disk, Parse(disk))
    BY <2>1, LoadWhole DEF SaveInv, Loadable
  <2>4. JobFits'
    BY <2>1, <2>2, <2>3 DEF JobFits
  <2>5. DiskRuns' /\ RestartLoads' /\ EmptyWhenDown'
    BY <2>1, <2>2 DEF FileInv, DiskRuns, RestartLoads, EmptyWhenDown
  <2>6. Whole(config') /\ \A c \in Clients : ReqFits(req'[c], config')
    BY <2>1 DEF FileInv
  <2> QED
    BY <2>4, <2>5, <2>6 DEF FileInv
<1>3. ASSUME Kill PROVE FileInv'
  <2>1. /\ up' = FALSE /\ req' = [c \in Clients |-> None] /\ job' = Idle
        /\ UNCHANGED <<config, disk, taint>>
    BY <1>3 DEF Kill
  <2>2. JobFits' /\ DiskRuns' /\ EmptyWhenDown'
    BY <2>1 DEF Idle, JobFits, DiskRuns, EmptyWhenDown
  <2>3. \A c \in Clients : ReqFits(req'[c], config')
    BY <2>1 DEF ReqFits
  <2> QED
    BY <2>1, <2>2, <2>3 DEF FileInv, RestartLoads
<1>4. ASSUME Restart PROVE FileInv'
  <2>1. /\ ~up /\ (disk = NoFile \/ Loadable(disk)) /\ UNCHANGED <<disk, req, job>>
        /\ config' = IF disk = NoFile THEN Defaults ELSE Parse(disk)
        /\ up' = TRUE
    BY <1>4 DEF Restart, Load
  <2>2. Whole(config') /\ (disk # NoFile => Holds(disk, config'))
    BY <2>1, LoadWhole DEF SaveInv
  <2>3. job.stage = "idle" /\ \A c \in Clients : req[c] = None
    BY <2>1 DEF SaveInv, IdleWhenDown, FileInv, EmptyWhenDown
  <2>4. \A c \in Clients : ReqFits(req'[c], config')
    BY <2>1, <2>3 DEF ReqFits
  <2>5. JobFits' /\ DiskRuns' /\ RestartLoads' /\ EmptyWhenDown'
    BY <2>1, <2>2, <2>3 DEF JobFits, DiskRuns, RestartLoads, EmptyWhenDown
  <2> QED
    BY <2>2, <2>4, <2>5 DEF FileInv
<1> QED
  BY <1>1, <1>2, <1>3, <1>4

LEMMA StepFile ==
  ASSUME NoDocument
  PROVE  SaveInv /\ FileInv /\ [Next]_vars => FileInv'
<1> SUFFICES ASSUME SaveInv, FileInv, [Next]_vars
             PROVE  FileInv'
  OBVIOUS
<1>1. CASE \E c \in Clients : \/ \E n \in Names : Login(c, n)
                              \/ SessionEnds(c)
                              \/ \E section \in Sections : Gate(c, section)
                              \/ \E section \in Sections : \E b \in Bodies[section] :
                                   Handle(c, section, b)
                              \/ Leave(c)
  BY <1>1, FileStepRequests, Zenon
<1>2. CASE \E c \in Clients : Persist(c)
  BY <1>2, FileStepPersist
<1>3. CASE CreateTmp \/ FillTmp \/ RenameTmp \/ WriteFails
  BY <1>3, FileStepWrite
<1>4. CASE ReloadAuth \/ ClientGone \/ Store
  BY <1>4, FileStepApply
<1>5. CASE (\E f \in Files : EditByHand(f)) \/ Sighup \/ Kill \/ Restart
  BY <1>5, FileStepAround
<1>6. CASE UNCHANGED vars
  BY <1>6 DEF vars, FileInv, ReqFits, JobFits, DiskRuns, RestartLoads, EmptyWhenDown
<1> QED
  BY <1>1, <1>2, <1>3, <1>4, <1>5, <1>6, Zenon DEF Next

\* FileInv holds throughout: what runs is whole, every save in progress writes
\* a file of the configuration it will apply, and the file is that of what
\* runs, as far as nothing tainted it (persist_and_apply, atomic_write, and
\* put_* with apply_*_patch, which write each section twice).
THEOREM FileInvariant ==
  ASSUME NoDocument
  PROVE  Spec => []FileInv
<1>1. Init => FileInv
  BY InitFile
<1>2. SaveInv /\ FileInv /\ [Next]_vars => FileInv'
  BY StepFile
<1> QED
  BY <1>1, <1>2, SaveInvariant, PTL DEF Spec

\* At every point of a save, failed or killed half-way, the server would start
\* from the file that is there, unless it was edited by hand, saves overlapped
\* or an apply was dropped before (atomic_write, load_or_default_config).
THEOREM RestartTheorem ==
  ASSUME NoDocument
  PROVE  Spec => []RestartLoads
<1>1. FileInv => RestartLoads
  BY DEF FileInv
<1> QED
  BY <1>1, FileInvariant, PTL

\* Between saves the file is what runs, unless it was edited by hand, saves
\* overlapped or an apply was dropped.
THEOREM FileTheorem ==
  ASSUME NoDocument
  PROVE  Spec => []FileIsRunning
<1>1. FileInv => FileIsRunning
  BY DEF FileInv, DiskRuns, Holds, FileIsRunning
<1> QED
  BY <1>1, FileInvariant, PTL

-----------------------------------------------------------------------------
(* Saving a section as it was shown changes nothing.                       *)

\* Entries that the API accepts, each at its key.
RangedUsers(users) ==
  /\ users = [n \in DOMAIN users |-> users[n]]
  /\ \A n \in DOMAIN users : /\ n \in Names /\ users[n].at = n
                             /\ Given(users[n].role, "admin") \in {"admin", "operator"}
RangedMounts(mounts) ==
  /\ mounts = [at \in DOMAIN mounts |-> mounts[at]]
  /\ \A at \in DOMAIN mounts : at \in Paths /\ mounts[at].at = at /\ mounts[at].rest # Bad
OwnAutodj(a) == a = [at |-> a.at, enabled |-> a.enabled, loop |-> a.loop, order |-> a.order,
                     rest |-> a.rest]
RangedAutodjs(autodjs) ==
  /\ autodjs = [at \in DOMAIN autodjs |-> autodjs[at]]
  /\ \A at \in DOMAIN autodjs :
       /\ at \in Paths /\ autodjs[at].at = at /\ autodjs[at].rest # Bad
       /\ Given(autodjs[at].order, "shuffle") \in {"shuffle", "sequential"}
       /\ OwnAutodj(autodjs[at])
RangedRelays(relays) ==
  /\ relays = [at \in DOMAIN relays |-> relays[at]]
  /\ \A at \in DOMAIN relays : at \in Paths /\ relays[at].at = at /\ relays[at].rest # Bad

\* A document of which the API would accept every section but [server] and
\* [limits].
Ranged(doc) ==
  /\ doc.transcode # Bad
  /\ RangedUsers(doc.users)
  /\ RangedMounts(doc.mounts)
  /\ RangedAutodjs(doc.autodjs)
  /\ RangedRelays(doc.relays)

\* A patch that passed its validator.
Validated(section, patch) ==
  /\ section = "transcode" => ValidateTranscodePatch(patch)
  /\ section = "users" => ValidateUsersPatch(patch)
  /\ section = "mounts" => ValidateMountsPatch(patch)
  /\ section = "autodjs" => ValidateAutodjsPatch(patch) /\ \A a \in patch : OwnAutodj(a)
  /\ section = "relays" => ValidateRelaysPatch(patch)

\* A validated list is in range as a map.
LEMMA KeyedRanged ==
  ASSUME NEW entries
  PROVE  /\ ValidateUsersPatch(entries) => RangedUsers(Keyed(entries))
         /\ ValidateMountsPatch(entries) => RangedMounts(Keyed(entries))
         /\ ValidateAutodjsPatch(entries) /\ (\A a \in entries : OwnAutodj(a)) =>
              RangedAutodjs(Keyed(entries))
         /\ ValidateRelaysPatch(entries) => RangedRelays(Keyed(entries))
<1> DEFINE map == Keyed(entries)
<1>1. map = [k \in DOMAIN map |-> map[k]]
  BY KeyedMap
<1>2. \A k \in DOMAIN map : map[k] \in entries /\ map[k].at = k
  BY KeyedPicks
<1> HIDE DEF map
<1>3. ValidateUsersPatch(entries) => RangedUsers(map)
  BY <1>1, <1>2 DEF ValidateUsersPatch, RangedUsers, Given
<1>4. ValidateMountsPatch(entries) => RangedMounts(map)
  BY <1>1, <1>2 DEF ValidateMountsPatch, RangedMounts
<1>5. ValidateAutodjsPatch(entries) /\ (\A a \in entries : OwnAutodj(a)) => RangedAutodjs(map)
  <2> SUFFICES ASSUME ValidateAutodjsPatch(entries), \A a \in entries : OwnAutodj(a)
               PROVE  RangedAutodjs(map)
    OBVIOUS
  <2>1. \A a \in entries : /\ a.at \in Paths /\ a.rest # Bad
                           /\ Given(a.order, "shuffle") \in {"shuffle", "sequential"}
    BY DEF ValidateAutodjsPatch, Given
  <2> QED
    BY <1>1, <1>2, <2>1 DEF RangedAutodjs
<1>6. ValidateRelaysPatch(entries) => RangedRelays(map)
  BY <1>1, <1>2 DEF ValidateRelaysPatch, RangedRelays
<1> QED
  BY <1>3, <1>4, <1>5, <1>6 DEF map

\* Defaults that are filled in are in range.
LEMMA ParseRanged ==
  ASSUME NEW doc, Kept(doc), Ranged(doc)
  PROVE  Ranged(Parse(doc))
<1> DEFINE c == Parse(doc)
<1>1. /\ c.transcode = doc.transcode /\ c.mounts = doc.mounts
      /\ c.users = [n \in DOMAIN doc.users |-> ParseUser(doc.users[n])]
      /\ c.autodjs = [at \in DOMAIN doc.autodjs |-> ParseAutodj(doc.autodjs[at])]
      /\ c.relays = [at \in DOMAIN doc.relays |-> ParseRelay(doc.relays[at])]
  BY ParsedKeys DEF Map, Kept, OwnPasswords
<1> HIDE DEF c
<1>2. RangedUsers(c.users)
  <2>1. ASSUME NEW n \in DOMAIN doc.users
        PROVE  /\ ParseUser(doc.users[n]).at = n
               /\ Given(ParseUser(doc.users[n]).role, "admin") \in {"admin", "operator"}
    <3>1. /\ OwnUser(doc.users[n], n) /\ doc.users[n].at = n
          /\ Given(doc.users[n].role, "admin") \in {"admin", "operator"}
      BY DEF Kept, OwnPasswords, Ranged, RangedUsers
    <3>2. /\ ParseUser(doc.users[n]).at = n
          /\ ParseUser(doc.users[n]).role = Given(doc.users[n].role, "admin")
      BY <3>1 DEF OwnUser, ParseUser
    <3> QED
      BY <3>1, <3>2 DEF Given
  <2> QED
    BY <1>1, <2>1 DEF Ranged, RangedUsers
<1>3. RangedAutodjs(c.autodjs)
  <2>1. ASSUME NEW at \in DOMAIN doc.autodjs
        PROVE  LET e == ParseAutodj(doc.autodjs[at])
               IN /\ e.at = at /\ e.rest # Bad /\ OwnAutodj(e)
                  /\ Given(e.order, "shuffle") \in {"shuffle", "sequential"}
    <3> DEFINE a == doc.autodjs[at]
               e == ParseAutodj(a)
    <3>1. /\ OwnAutodj(a) /\ a.at = at /\ a.rest # Bad
          /\ Given(a.order, "shuffle") \in {"shuffle", "sequential"}
      BY DEF Ranged, RangedAutodjs
    <3> HIDE DEF a
    <3>2. e = [at |-> a.at, enabled |-> Given(a.enabled, TRUE), loop |-> Given(a.loop, TRUE),
               order |-> Given(a.order, "shuffle"), rest |-> a.rest]
      <4> DEFINE enabled == Given(a.enabled, TRUE)
                 loop == Given(a.loop, TRUE)
                 order == Given(a.order, "shuffle")
      <4>1. e = [a EXCEPT !.enabled = enabled, !.loop = loop, !.order = order]
        BY DEF ParseAutodj
      <4> HIDE DEF e, enabled, loop, order
      <4>2. e = [at |-> a.at, enabled |-> enabled, loop |-> loop, order |-> order, rest |-> a.rest]
        BY <3>1, <4>1 DEF OwnAutodj
      <4> QED
        BY <4>2 DEF enabled, loop, order
    <3> HIDE DEF e
    <3>3. /\ e.at = at /\ e.rest # Bad /\ OwnAutodj(e)
          /\ Given(e.order, "shuffle") \in {"shuffle", "sequential"}
      BY <3>1, <3>2 DEF OwnAutodj, Given
    <3> QED
      BY <3>3 DEF e, a
  <2> QED
    BY <1>1, <2>1 DEF Ranged, RangedAutodjs
<1>4. RangedRelays(c.relays)
  <2>1. ASSUME NEW at \in DOMAIN doc.relays
        PROVE  ParseRelay(doc.relays[at]).at = at /\ ParseRelay(doc.relays[at]).rest # Bad
    <3> DEFINE r == doc.relays[at]
    <3>1. OwnRelay(r, at) /\ r.at = at /\ r.rest # Bad
      BY DEF Kept, OwnPasswords, Ranged, RangedRelays
    <3> HIDE DEF r
    <3>2. ParseRelay(r) = [at |-> r.at, enabled |-> Given(r.enabled, TRUE),
                           username |-> r.username, password |-> r.password, rest |-> r.rest]
      BY <3>1, ParsedRelay DEF OwnRelay
    <3>3. ParseRelay(r).at = at /\ ParseRelay(r).rest # Bad
      BY <3>1, <3>2
    <3> QED
      BY <3>3 DEF r
  <2> QED
    BY <1>1, <2>1 DEF Ranged, RangedRelays
<1> QED
  BY <1>1, <1>2, <1>3, <1>4 DEF c, Ranged

\* What a handler accepts is in range, and so is its candidate.
LEMMA PutRanged ==
  ASSUME NEW bodies, OwnRequests(bodies), FlagsAreBooleans(bodies), NEW section \in Sections,
         NEW b \in bodies[section], NEW c, HasSections(c), Ranged(c), NEW who, NEW r,
         r = Put(c, who, section, b), r # Refused
  PROVE  Validated(section, r.patch) /\ Ranged(r.candidate)
<1>1. CASE section = "server"
  <2>1. r # Refused /\ r = PutServer(c, b)
    BY <1>1 DEF Put
  <2> DEFINE p == [settings |-> b.settings, rate |-> b.rate,
                   auth |-> IF Typed(b.source_password) THEN b.source_password ELSE Unset]
             d1 == [c EXCEPT !.settings = p.settings]
             d2 == [d1 EXCEPT !.rate = p.rate]
             d3 == [d2 EXCEPT !.source_password = Given(p.auth, @)]
  <2>2. r.candidate = d3
    BY <2>1 DEF PutServer, AcceptedPaths, Accepted
  <2> HIDE DEF p
  <2>3. /\ HasSections(d1) /\ d1.transcode = c.transcode /\ d1.users = c.users
        /\ d1.mounts = c.mounts /\ d1.autodjs = c.autodjs /\ d1.relays = c.relays
    BY WriteKey
  <2> HIDE DEF d1
  <2>4. /\ HasSections(d2) /\ d2.transcode = d1.transcode /\ d2.users = d1.users
        /\ d2.mounts = d1.mounts /\ d2.autodjs = d1.autodjs /\ d2.relays = d1.relays
    BY <2>3, WriteKey
  <2> HIDE DEF d2
  <2>5. /\ d3.transcode = d2.transcode /\ d3.users = d2.users
        /\ d3.mounts = d2.mounts /\ d3.autodjs = d2.autodjs /\ d3.relays = d2.relays
    BY <2>4, WriteKey
  <2> HIDE DEF d3
  <2> QED
    BY <1>1, <2>2, <2>3, <2>4, <2>5 DEF Ranged, Validated
<1>2. CASE section = "transcode"
  <2> DEFINE d == [c EXCEPT !.transcode = b]
  <2>1. r.patch = b /\ r.candidate = d /\ ValidateTranscodePatch(b)
    BY <1>2 DEF Put, PutTranscode, AcceptedPaths, Accepted
  <2>2. /\ d.transcode = b /\ d.users = c.users
        /\ d.mounts = c.mounts /\ d.autodjs = c.autodjs /\ d.relays = c.relays
    BY WriteKey
  <2> HIDE DEF d
  <2> QED
    BY <1>2, <2>1, <2>2 DEF Ranged, Validated, ValidateTranscodePatch
<1>3. CASE section = "users"
  <2> DEFINE us == {[at |-> u.at, hash |-> UserHash(c, u), role |-> u.role] : u \in b}
             d == [c EXCEPT !.users = Keyed(us)]
  <2>1. r = PutUsers(c, who, b)
    BY <1>3 DEF Put
  <2>2. r.patch = us /\ r.candidate = d /\ ValidateUsersPatch(us)
    <3>1. PutUsers(c, who, b) # Refused => /\ PutUsers(c, who, b).patch = us
                          /\ PutUsers(c, who, b).candidate = d /\ ValidateUsersPatch(us)
      BY DEF PutUsers, Accepted
    <3> QED
      BY <2>1, <3>1
  <2> HIDE DEF us
  <2>3. /\ d.transcode = c.transcode /\ d.users = Keyed(us)
        /\ d.mounts = c.mounts /\ d.autodjs = c.autodjs /\ d.relays = c.relays
    BY WriteKey
  <2> HIDE DEF d
  <2>4. RangedUsers(Keyed(us))
    BY <2>2, KeyedRanged
  <2> QED
    BY <1>3, <2>2, <2>3, <2>4 DEF Ranged, Validated
<1>4. CASE section = "mounts"
  <2> DEFINE ms == {[m EXCEPT !.password = MountPassword(c, m)] : m \in b}
             d == [c EXCEPT !.mounts = Keyed(ms)]
  <2>1. r = PutMounts(c, b)
    BY <1>4 DEF Put
  <2>2. r.patch = ms /\ r.candidate = d /\ ValidateMountsPatch(ms)
    <3>1. PutMounts(c, b) # Refused => /\ PutMounts(c, b).patch = ms
                          /\ PutMounts(c, b).candidate = d /\ ValidateMountsPatch(ms)
      BY DEF PutMounts, AcceptedPaths, Accepted
    <3> QED
      BY <2>1, <3>1
  <2> HIDE DEF ms
  <2>3. /\ d.transcode = c.transcode /\ d.users = c.users
        /\ d.mounts = Keyed(ms) /\ d.autodjs = c.autodjs /\ d.relays = c.relays
    BY WriteKey
  <2> HIDE DEF d
  <2>4. RangedMounts(Keyed(ms))
    BY <2>2, KeyedRanged
  <2> QED
    BY <1>4, <2>2, <2>3, <2>4 DEF Ranged, Validated
<1>5. CASE section = "autodjs"
  <2> DEFINE as == {ParseAutodj(a) : a \in b}
             d == [c EXCEPT !.autodjs = Keyed(as)]
  <2>1. r = PutAutodjs(c, b)
    BY <1>5 DEF Put
  <2>2. r.patch = as /\ r.candidate = d /\ ValidateAutodjsPatch(as)
    BY <2>1 DEF PutAutodjs, AcceptedPaths, Accepted
  <2>3. \A a \in b : /\ a = [at |-> a.at, enabled |-> a.enabled, loop |-> a.loop,
                             order |-> a.order, rest |-> a.rest]
                     /\ a.enabled \in Opt(BOOLEAN) /\ a.loop \in Opt(BOOLEAN)
    BY <1>5 DEF FlagsAreBooleans
  <2>4. \A e \in as : OwnAutodj(e)
    BY <2>3, ParsedAutodj DEF OwnAutodj
  <2> HIDE DEF as
  <2>5. /\ d.transcode = c.transcode /\ d.users = c.users
        /\ d.mounts = c.mounts /\ d.autodjs = Keyed(as) /\ d.relays = c.relays
    BY WriteKey
  <2> HIDE DEF d
  <2>6. RangedAutodjs(Keyed(as))
    BY <2>2, <2>4, KeyedRanged
  <2> QED
    BY <1>5, <2>2, <2>4, <2>5, <2>6 DEF Ranged, Validated
<1>6. CASE section = "relays"
  <2> DEFINE rs == {[ParseRelay(e) EXCEPT !.password = RelayPassword(c, e)] : e \in b}
             d == [c EXCEPT !.relays = Keyed(rs)]
  <2>1. r = PutRelays(c, b)
    BY <1>6 DEF Put
  <2>2. r.patch = rs /\ r.candidate = d /\ ValidateRelaysPatch(rs)
    <3>1. PutRelays(c, b) # Refused => /\ PutRelays(c, b).patch = rs
                          /\ PutRelays(c, b).candidate = d /\ ValidateRelaysPatch(rs)
      BY DEF PutRelays, AcceptedPaths, Accepted
    <3> QED
      BY <2>1, <3>1
  <2> HIDE DEF rs
  <2>3. /\ d.transcode = c.transcode /\ d.users = c.users
        /\ d.mounts = c.mounts /\ d.autodjs = c.autodjs /\ d.relays = Keyed(rs)
    BY WriteKey
  <2> HIDE DEF d
  <2>4. RangedRelays(Keyed(rs))
    BY <2>2, KeyedRanged
  <2> QED
    BY <1>6, <2>2, <2>3, <2>4 DEF Ranged, Validated
<1> QED
  BY <1>1, <1>2, <1>3, <1>4, <1>5, <1>6 DEF Sections, AdminSections, StreamSections

\* Written into a document in range, a validated patch leaves it in range.
LEMMA PatchRanged ==
  ASSUME NEW doc, HasSections(doc), Ranged(doc), NEW section \in Sections, NEW patch,
         Validated(section, patch), OwnPatch(section, patch), NEW d,
         d = ApplyPatch(doc, section, patch)
  PROVE  Ranged(d)
<1>1. CASE section = "server"
  <2> DEFINE d1 == [doc EXCEPT !.settings = patch.settings]
             d2 == [d1 EXCEPT !.rate = patch.rate]
             d3 == [d2 EXCEPT !.source_password = IF patch.auth = Unset THEN @ ELSE patch.auth]
  <2>1. d = d3
    BY <1>1 DEF ApplyPatch, ApplyServerPatch
  <2>2. /\ HasSections(d1) /\ d1.transcode = doc.transcode /\ d1.users = doc.users
        /\ d1.mounts = doc.mounts /\ d1.autodjs = doc.autodjs /\ d1.relays = doc.relays
    BY WriteKey
  <2> HIDE DEF d1
  <2>3. /\ HasSections(d2) /\ d2.transcode = d1.transcode /\ d2.users = d1.users
        /\ d2.mounts = d1.mounts /\ d2.autodjs = d1.autodjs /\ d2.relays = d1.relays
    BY <2>2, WriteKey
  <2> HIDE DEF d2
  <2>4. /\ d3.transcode = d2.transcode /\ d3.users = d2.users
        /\ d3.mounts = d2.mounts /\ d3.autodjs = d2.autodjs /\ d3.relays = d2.relays
    BY <2>3, WriteKey
  <2> HIDE DEF d3
  <2> QED
    BY <2>1, <2>2, <2>3, <2>4 DEF Ranged
<1>2. CASE section = "transcode"
  <2>1. d = [doc EXCEPT !.transcode = patch] /\ patch # Bad
    BY <1>2 DEF ApplyPatch, ApplyTranscodePatch, Validated, ValidateTranscodePatch
  <2> QED
    BY <2>1, WriteKey DEF Ranged
<1>3. CASE section = "users"
  <2> DEFINE map == Keyed(patch)
  <2>1. d = [doc EXCEPT !.users = map] /\ RangedUsers(map)
    BY <1>3, KeyedRanged DEF ApplyPatch, ApplyUsersPatch, Validated
  <2> HIDE DEF map
  <2> QED
    BY <2>1, WriteKey DEF Ranged
<1>4. CASE section = "mounts"
  <2> DEFINE map == Keyed(patch)
  <2>1. d = [doc EXCEPT !.mounts = map] /\ RangedMounts(map)
    BY <1>4, KeyedRanged DEF ApplyPatch, ApplyMountsPatch, Validated
  <2> HIDE DEF map
  <2> QED
    BY <2>1, WriteKey DEF Ranged
<1>5. CASE section = "autodjs"
  <2> DEFINE map == Keyed(patch)
             table(a) == [a EXCEPT !.enabled = IF a.enabled THEN Unset ELSE FALSE,
                                   !.loop = IF a.loop THEN Unset ELSE FALSE]
             tables == [at \in DOMAIN map |-> table(map[at])]
  <2>1. d = [doc EXCEPT !.autodjs = tables] /\ RangedAutodjs(map)
    BY <1>5, KeyedRanged DEF ApplyPatch, ApplyAutodjsPatch, Validated, Map
  <2> HIDE DEF map
  <2>2. ASSUME NEW a, OwnAutodj(a)
        PROVE  /\ OwnAutodj(table(a)) /\ table(a).at = a.at /\ table(a).rest = a.rest
               /\ table(a).order = a.order
    <3> DEFINE enabled == IF a.enabled THEN Unset ELSE FALSE
               loop == IF a.loop THEN Unset ELSE FALSE
               e == [a EXCEPT !.enabled = enabled, !.loop = loop]
    <3> HIDE DEF enabled, loop
    <3>0. e = [a EXCEPT !.enabled = enabled, !.loop = loop]
      OBVIOUS
    <3> HIDE DEF e
    <3>1. e = [at |-> a.at, enabled |-> enabled, loop |-> loop, order |-> a.order,
               rest |-> a.rest]
      BY <2>2, <3>0 DEF OwnAutodj
    <3>2. OwnAutodj(e) /\ e.at = a.at /\ e.rest = a.rest /\ e.order = a.order
      BY <3>1 DEF OwnAutodj
    <3> QED
      BY <3>2 DEF e, enabled, loop
  <2> HIDE DEF table
  <2>3. RangedAutodjs(tables)
    BY <2>1, <2>2 DEF RangedAutodjs
  <2> HIDE DEF tables
  <2> QED
    BY <2>1, <2>3, WriteKey DEF Ranged
<1>6. CASE section = "relays"
  <2> DEFINE map == Keyed(patch)
             table(r) == [r EXCEPT !.enabled = IF r.enabled THEN Unset ELSE FALSE]
             tables == [at \in DOMAIN map |-> table(map[at])]
  <2>1. d = [doc EXCEPT !.relays = tables] /\ RangedRelays(map)
    BY <1>6, KeyedRanged DEF ApplyPatch, ApplyRelaysPatch, Validated, Map
  <2>2. \A at \in DOMAIN map : OwnRelay(map[at], map[at].at)
    BY <1>6, KeyedPicks DEF OwnPatch
  <2> HIDE DEF map
  <2>3. ASSUME NEW r, OwnRelay(r, r.at)
        PROVE  table(r).at = r.at /\ table(r).rest = r.rest
    <3> DEFINE x == IF r.enabled THEN Unset ELSE FALSE
               e == [r EXCEPT !.enabled = x]
    <3> HIDE DEF x
    <3>1. e = [at |-> r.at, enabled |-> x, username |-> r.username, password |-> r.password,
               rest |-> r.rest]
      BY <2>3, WriteRelayKey DEF OwnRelay
    <3> HIDE DEF e
    <3>2. e.at = r.at /\ e.rest = r.rest
      BY <3>1
    <3> QED
      BY <3>2 DEF e, x
  <2> HIDE DEF table
  <2>4. RangedRelays(tables)
    BY <2>1, <2>2, <2>3 DEF RangedRelays
  <2> HIDE DEF tables
  <2> QED
    BY <2>1, <2>4, WriteKey DEF Ranged
<1> QED
  BY <1>1, <1>2, <1>3, <1>4, <1>5, <1>6 DEF Sections, AdminSections, StreamSections

\* The files an operator writes, and the built-in configuration, hold entries
\* the API accepts.  (Their [server] and [limits] may be out of range.)
FilesRanged == Ranged(Defaults) /\ \A f \in Files \ {NoFile, Garbage} : Ranged(f)

RangedFile(file) == file \notin {NoFile, Garbage} => Ranged(file)

ReqRanged(r) ==
  r # None /\ r.stage = "waiting" => Validated(r.section, r.patch) /\ Ranged(r.candidate)

\* Only validated values get into the configuration or into the file.
RangeInv ==
  /\ Ranged(config)
  /\ RangedFile(disk) /\ RangedFile(tmp)
  /\ \A c \in Clients : ReqRanged(req[c])
  /\ job.stage # "idle" => Ranged(job.target) /\ Ranged(job.file)

LEMMA LoadRanged ==
  ASSUME FilesRanged, NEW file, Intact(file), RangedFile(file), file = NoFile \/ Loadable(file)
  PROVE  Ranged(IF file = NoFile THEN Defaults ELSE Parse(file))
BY ParseRanged DEF FilesRanged, Intact, RangedFile, Loadable

LEMMA InitRanged ==
  ASSUME FilesRanged
  PROVE  Init => RangeInv
<1> SUFFICES ASSUME Init
             PROVE  RangeInv
  OBVIOUS
<1>1. Intact(disk) /\ RangedFile(disk) /\ RangedFile(tmp)
  BY FilesKept DEF Init, Intact, RangedFile, FilesRanged
<1>2. Ranged(config)
  BY <1>1, LoadRanged DEF Init
<1> QED
  BY <1>1, <1>2 DEF Init, Idle, RangeInv, ReqRanged

\* A request is admitted, resolved, dropped, or saved.
LEMMA RangeStepRequests ==
  ASSUME SaveInv, RangeInv, NEW c \in Clients
  PROVE  /\ \A n \in Names : Login(c, n) => RangeInv'
         /\ SessionEnds(c) => RangeInv'
         /\ \A section \in Sections : Gate(c, section) => RangeInv'
         /\ \A section \in Sections : \A b \in Bodies[section] : Handle(c, section, b) => RangeInv'
         /\ Leave(c) => RangeInv'
         /\ Persist(c) => RangeInv'
<1>frame. ASSUME NEW r, ReqRanged(r), req' = [req EXCEPT ![c] = r],
                 UNCHANGED <<config, disk, tmp, job>>
          PROVE  RangeInv'
  <2>1. req' = [d \in Clients |-> IF d = c THEN r ELSE req[d]]
    BY <1>frame DEF SaveInv
  <2>2. \A d \in Clients : ReqRanged(req'[d])
    BY <1>frame, <2>1 DEF RangeInv
  <2> QED
    BY <1>frame, <2>2 DEF RangeInv
<1>none. ReqRanged(None)
  BY DEF ReqRanged
<1>same. ASSUME UNCHANGED <<config, disk, tmp, req, job>>
         PROVE  RangeInv'
  BY <1>same DEF RangeInv
<1>1. ASSUME NEW n \in Names, Login(c, n) PROVE RangeInv'
  BY <1>1, <1>same DEF Login
<1>2. ASSUME SessionEnds(c) PROVE RangeInv'
  BY <1>2, <1>same DEF SessionEnds
<1>3. ASSUME NEW section \in Sections, Gate(c, section)
      PROVE  RangeInv'
  <2> DEFINE r == [stage |-> "admitted", section |-> section]
  <2>1. r.stage # "waiting"
    OBVIOUS
  <2>2. req' = [req EXCEPT ![c] = r] /\ UNCHANGED <<config, disk, tmp, job>>
    BY <1>3 DEF Gate
  <2> HIDE DEF r
  <2>3. ReqRanged(r)
    BY <2>1 DEF ReqRanged
  <2> QED
    BY <2>2, <2>3, <1>frame
<1>4. ASSUME NEW section \in Sections, NEW b \in Bodies[section], Handle(c, section, b)
      PROVE  RangeInv'
  <2> DEFINE p == Put(config, session[c], section, b)
             w == [stage |-> "waiting", section |-> section, patch |-> p.patch,
                   candidate |-> p.candidate, stale |-> FALSE]
  <2>1. p # Refused => Validated(section, p.patch) /\ Ranged(p.candidate)
    <3>1. HasSections(config) /\ Ranged(config)
      BY DEF SaveInv, RangeInv, Running, Kept, OwnPasswords
    <3> QED
      BY <3>1, ConfigAssumption, DocumentAssumption, PutRanged
  <2>2. /\ req' = [req EXCEPT ![c] = IF p = Refused THEN None ELSE w]
        /\ UNCHANGED <<config, disk, tmp, job>>
    BY <1>4 DEF Handle
  <2> HIDE DEF p
  <2>3. w.section = section /\ w.patch = p.patch /\ w.candidate = p.candidate
    OBVIOUS
  <2> HIDE DEF w
  <2>4. ReqRanged(IF p = Refused THEN None ELSE w)
    BY <1>none, <2>1, <2>3 DEF ReqRanged
  <2> QED
    BY <2>2, <2>4, <1>frame
<1>5. ASSUME Leave(c) PROVE RangeInv'
  BY <1>5, <1>none, <1>frame DEF Leave
<1>6. ASSUME Persist(c) PROVE RangeInv'
  <2> DEFINE r == req[c]
             doc == IF origin # "defaults" /\ disk # NoFile THEN disk ELSE r.candidate
             file == ApplyPatch(doc, r.section, r.patch)
  <2>1. /\ r.section \in Sections /\ OwnPatch(r.section, r.patch) /\ Running(r.candidate)
        /\ Validated(r.section, r.patch) /\ Ranged(r.candidate)
        /\ UNCHANGED <<config, disk, tmp>>
    BY <1>6 DEF Persist, SaveInv, ReqOk, RangeInv, ReqRanged
  <2>2. CASE doc = Garbage
    BY <1>6, <2>1, <2>2, <1>none, <1>frame DEF Persist
  <2>3. CASE doc # Garbage
    <3>1. HasSections(doc) /\ Ranged(doc)
      BY <2>1, <2>3 DEF SaveInv, Intact, Running, Kept, OwnPasswords, RangeInv, RangedFile
    <3>2. Ranged(file)
      BY <2>1, <3>1, PatchRanged
    <3>3. UNCHANGED req /\ job' = [by |-> c, stage |-> "create", target |-> r.candidate,
                                   file |-> file]
      BY <1>6, <2>3 DEF Persist
    <3> HIDE DEF file
    <3>4. job'.target = r.candidate /\ job'.file = file
      BY <3>3
    <3> QED
      BY <2>1, <3>2, <3>3, <3>4 DEF RangeInv
  <2> QED
    BY <2>2, <2>3
<1> QED
  BY <1>1, <1>2, <1>3, <1>4, <1>5, <1>6

\* The save moves on: what it writes and what it applies stay the same.
LEMMA RangeStepSave ==
  ASSUME SaveInv, RangeInv
  PROVE  /\ CreateTmp \/ FillTmp \/ RenameTmp \/ WriteFails => RangeInv'
         /\ ReloadAuth \/ ClientGone \/ Store => RangeInv'
<1>1. ASSUME NEW from, from # "idle", At(from), NEW stage, Goto(stage)
      PROVE  Ranged(job.target) /\ Ranged(job.file) /\ job'.target = job.target
             /\ job'.file = job.file
  <2>1. job = [by |-> job.by, stage |-> job.stage, target |-> job.target, file |-> job.file]
    BY <1>1 DEF SaveInv, JobOk, At
  <2>2. job' = [by |-> job.by, stage |-> stage, target |-> job.target, file |-> job.file]
    BY <1>1, <2>1 DEF Goto
  <2> QED
    BY <1>1, <2>2 DEF RangeInv, At
<1>2. ASSUME CreateTmp PROVE RangeInv'
  <2>1. At("create") /\ Goto("fill") /\ tmp' = Garbage /\ UNCHANGED <<config, disk, req>>
    BY <1>2 DEF CreateTmp
  <2> QED
    BY <1>1, <2>1 DEF RangeInv, RangedFile
<1>3. ASSUME FillTmp PROVE RangeInv'
  <2>1. At("fill") /\ Goto("rename") /\ tmp' = job.file /\ UNCHANGED <<config, disk, req>>
    BY <1>3 DEF FillTmp
  <2> QED
    BY <1>1, <2>1 DEF RangeInv, RangedFile
<1>4. ASSUME RenameTmp PROVE RangeInv'
  <2>1. At("rename") /\ Goto("auth") /\ disk' = tmp /\ tmp' = NoFile /\ UNCHANGED <<config, req>>
    BY <1>4 DEF RenameTmp
  <2> QED
    BY <1>1, <2>1 DEF RangeInv, RangedFile
<1>5. ASSUME ReloadAuth PROVE RangeInv'
  <2>1. At("auth") /\ Goto("store") /\ UNCHANGED <<config, disk, tmp, req>>
    BY <1>5 DEF ReloadAuth
  <2> QED
    BY <1>1, <2>1 DEF RangeInv
\* The request and the save end.
<1>6. ASSUME WriteFails \/ ClientGone PROVE RangeInv'
  <2>1. /\ job' = Idle /\ req' = [req EXCEPT ![job.by] = None] /\ UNCHANGED <<config, disk>>
        /\ tmp' = NoFile \/ tmp' = tmp
    BY <1>6 DEF WriteFails, ClientGone
  <2>2. \A c \in Clients : req'[c] = None \/ req'[c] = req[c]
    <3>1. req = [d \in Clients |-> req[d]]
      BY DEF SaveInv
    <3> QED
      BY <2>1, <3>1
  <2>3. \A c \in Clients : ReqRanged(req'[c])
    BY <2>2 DEF RangeInv, ReqRanged
  <2> QED
    BY <2>1, <2>3 DEF Idle, RangeInv, RangedFile
<1>7. ASSUME Store PROVE RangeInv'
  <2>1. job.stage = "store" /\ config' = job.target /\ job' = Idle /\ UNCHANGED <<disk, tmp>>
    BY <1>7 DEF Store, At
  <2>2. ASSUME NEW c \in Clients
        PROVE  ReqRanged(req'[c])
    <3> DEFINE w == [req[c] EXCEPT !.stale = @ \/ job.target # config]
    <3>1. req'[c] \in {None, req[c]} \/ (req[c] # None /\ req[c].stage = "waiting" /\ req'[c] = w)
      BY <1>7 DEF Store
    <3>2. ASSUME req[c] # None, req[c].stage = "waiting"
          PROVE  ReqRanged(w)
      <4> DEFINE stale == req[c].stale \/ job.target # config
      <4>1. w = [req[c] EXCEPT !.stale = stale]
        OBVIOUS
      <4> HIDE DEF stale, w
      <4>2. req[c] = [stage |-> "waiting", section |-> req[c].section, patch |-> req[c].patch,
                      candidate |-> req[c].candidate, stale |-> req[c].stale]
        BY <3>2 DEF SaveInv, ReqOk
      <4>3. w.section = req[c].section /\ w.patch = req[c].patch /\ w.candidate = req[c].candidate
        BY <4>1, <4>2
      <4> QED
        BY <3>2, <4>3 DEF RangeInv, ReqRanged
    <3>3. ReqRanged(None) /\ ReqRanged(req[c])
      BY DEF RangeInv, ReqRanged
    <3> HIDE DEF w
    <3> QED
      BY <3>1, <3>2, <3>3
  <2> QED
    BY <2>1, <2>2 DEF Idle, RangeInv
<1> QED
  BY <1>2, <1>3, <1>4, <1>5, <1>6, <1>7

LEMMA RangeStepAround ==
  ASSUME FilesRanged, SaveInv, RangeInv
  PROVE  /\ \A f \in Files : EditByHand(f) => RangeInv'
         /\ Sighup \/ Kill \/ Restart => RangeInv'
<1>1. ASSUME NEW f \in Files, EditByHand(f) PROVE RangeInv'
  BY <1>1 DEF EditByHand, RangeInv, RangedFile, FilesRanged
<1>2. ASSUME Sighup PROVE RangeInv'
  <2>1. /\ Loadable(disk) /\ UNCHANGED <<config, disk, tmp, req>>
        /\ job' = [by |-> "sighup", stage |-> "auth", target |-> Parse(disk), file |-> disk]
    BY <1>2 DEF Sighup
  <2>2. job'.target = Parse(disk) /\ job'.file = disk
    BY <2>1
  <2>3. Ranged(disk) /\ Ranged(Parse(disk))
    BY <2>1, ParseRanged DEF Loadable, SaveInv, Intact, RangeInv, RangedFile
  <2> QED
    BY <2>1, <2>2, <2>3 DEF RangeInv
<1>3. ASSUME Kill PROVE RangeInv'
  BY <1>3 DEF Kill, Idle, RangeInv, ReqRanged
<1>4. ASSUME Restart PROVE RangeInv'
  <2>1. /\ disk = NoFile \/ Loadable(disk)
        /\ config' = IF disk = NoFile THEN Defaults ELSE Parse(disk)
        /\ UNCHANGED <<disk, tmp, req, job>>
    BY <1>4 DEF Restart, Load
  <2>2. Ranged(config')
    BY <2>1, LoadRanged DEF SaveInv, RangeInv
  <2> QED
    BY <2>1, <2>2 DEF RangeInv
<1> QED
  BY <1>1, <1>2, <1>3, <1>4

LEMMA StepRanged ==
  ASSUME FilesRanged
  PROVE  SaveInv /\ RangeInv /\ [Next]_vars => RangeInv'
<1> SUFFICES ASSUME SaveInv, RangeInv, [Next]_vars
             PROVE  RangeInv'
  OBVIOUS
<1>1. CASE \E c \in Clients : \/ \E n \in Names : Login(c, n)
                              \/ SessionEnds(c)
                              \/ \E section \in Sections : Gate(c, section)
                              \/ \E section \in Sections : \E b \in Bodies[section] :
                                   Handle(c, section, b)
                              \/ Leave(c)
                              \/ Persist(c)
  BY <1>1, RangeStepRequests, Zenon
<1>2. CASE CreateTmp \/ FillTmp \/ RenameTmp \/ WriteFails \/ ReloadAuth \/ ClientGone \/ Store
  BY <1>2, RangeStepSave
<1>3. CASE (\E f \in Files : EditByHand(f)) \/ Sighup \/ Kill \/ Restart
  BY <1>3, RangeStepAround
<1>4. CASE UNCHANGED vars
  BY <1>4 DEF vars, RangeInv
<1> QED
  BY <1>1, <1>2, <1>3, <1>4, Zenon DEF Next

\* Only values the API accepts get into the running configuration or into the
\* file, whatever requests are refused, overlap or are dropped (validate_*).
THEOREM RangeInvariant ==
  ASSUME FilesRanged
  PROVE  Spec => []RangeInv
<1>1. Init => RangeInv
  BY InitRanged
<1>2. SaveInv /\ RangeInv /\ [Next]_vars => RangeInv'
  BY StepRanged
<1> QED
  BY <1>1, <1>2, SaveInvariant, PTL DEF Spec

\* What GET shows, key by key.
VeiledUser(u) == [u EXCEPT !.hash = Marker]
VeiledMount(m) == [m EXCEPT !.password = Marker]
VeiledRelay(r) == [r EXCEPT !.password = Veil(r.password)]

LEMMA ShownKeys ==
  ASSUME NEW c, HasSections(c), NEW isAdmin \in BOOLEAN
  PROVE  /\ Shown(c, isAdmin).mounts = [at \in DOMAIN c.mounts |-> VeiledMount(c.mounts[at])]
         /\ Shown(c, isAdmin).autodjs = c.autodjs
         /\ Shown(c, isAdmin).relays = [at \in DOMAIN c.relays |-> VeiledRelay(c.relays[at])]
         /\ isAdmin =>
              /\ Shown(c, isAdmin).settings = c.settings /\ Shown(c, isAdmin).rate = c.rate
              /\ Shown(c, isAdmin).source_password = Veil(c.source_password)
              /\ Shown(c, isAdmin).transcode = c.transcode
              /\ Shown(c, isAdmin).users = [n \in DOMAIN c.users |-> VeiledUser(c.users[n])]
<1> DEFINE s == Shown(c, isAdmin)
           users == [n \in DOMAIN c.users |-> VeiledUser(c.users[n])]
           mounts == [at \in DOMAIN c.mounts |-> VeiledMount(c.mounts[at])]
           relays == [at \in DOMAIN c.relays |-> VeiledRelay(c.relays[at])]
           c1 == [c EXCEPT !.users = users]
           c2 == [c1 EXCEPT !.source_password = Veil(@)]
           c3 == [c2 EXCEPT !.mounts = mounts]
           c4 == [c3 EXCEPT !.relays = relays]
           s1 == [c4 EXCEPT !.settings = Unset]
           s2 == [s1 EXCEPT !.rate = Unset]
           s3 == [s2 EXCEPT !.source_password = Unset]
           nobody == <<>>
           s4 == [s3 EXCEPT !.users = nobody]
           s5 == [s4 EXCEPT !.transcode = Unset]
<1>1. Redact(c) = [c EXCEPT !.users = users, !.source_password = Veil(c.source_password),
                            !.mounts = mounts, !.relays = relays]
  <2>1. /\ Redact(c) = [c EXCEPT !.users = [n \in DOMAIN c.users |->
                                              [c.users[n] EXCEPT !.hash = Marker]],
                        !.source_password = Veil(@),
                        !.mounts = [at \in DOMAIN c.mounts |->
                                      [c.mounts[at] EXCEPT !.password = Marker]],
                        !.relays = [at \in DOMAIN c.relays |->
                                      [c.relays[at] EXCEPT !.password = Veil(@)]]]
    BY DEF Redact, Map
  <2> QED
    BY <2>1 DEF VeiledUser, VeiledMount, VeiledRelay
<1>2. s = IF isAdmin THEN Redact(c)
          ELSE [Redact(c) EXCEPT !.settings = Unset, !.rate = Unset, !.source_password = Unset,
                                 !.users = <<>>, !.transcode = Unset]
  BY DEF Shown
<1> HIDE DEF s, users, mounts, relays
<1>3. /\ HasSections(c1) /\ c1.users = users /\ c1.settings = c.settings /\ c1.rate = c.rate
      /\ c1.source_password = c.source_password /\ c1.transcode = c.transcode
      /\ c1.autodjs = c.autodjs
  BY WriteKey
<1>4. Redact(c) = c4
  BY <1>1, <1>3
<1> HIDE DEF c1
<1>5. /\ HasSections(c2) /\ c2.users = users /\ c2.settings = c.settings /\ c2.rate = c.rate
      /\ c2.source_password = Veil(c.source_password) /\ c2.transcode = c.transcode
      /\ c2.autodjs = c.autodjs
  BY <1>3, WriteKey
<1> HIDE DEF c2
<1>6. /\ HasSections(c3) /\ c3.users = users /\ c3.settings = c.settings /\ c3.rate = c.rate
      /\ c3.source_password = Veil(c.source_password) /\ c3.transcode = c.transcode
      /\ c3.autodjs = c.autodjs /\ c3.mounts = mounts
  BY <1>5, WriteKey
<1> HIDE DEF c3
<1>7. /\ HasSections(c4) /\ c4.users = users /\ c4.settings = c.settings /\ c4.rate = c.rate
      /\ c4.source_password = Veil(c.source_password) /\ c4.transcode = c.transcode
      /\ c4.autodjs = c.autodjs /\ c4.mounts = mounts /\ c4.relays = relays
  BY <1>6, WriteKey
<1> HIDE DEF c4
<1>8. ASSUME ~isAdmin
      PROVE  s.mounts = mounts /\ s.autodjs = c.autodjs /\ s.relays = relays
  <2>1. s = s5
    BY <1>2, <1>4, <1>8
  <2>2. HasSections(s1) /\ s1.mounts = mounts /\ s1.autodjs = c.autodjs /\ s1.relays = relays
    BY <1>7, WriteKey
  <2> HIDE DEF s1
  <2>3. HasSections(s2) /\ s2.mounts = mounts /\ s2.autodjs = c.autodjs /\ s2.relays = relays
    BY <2>2, WriteKey
  <2> HIDE DEF s2
  <2>4. HasSections(s3) /\ s3.mounts = mounts /\ s3.autodjs = c.autodjs /\ s3.relays = relays
    BY <2>3, WriteKey
  <2> HIDE DEF s3
  <2> HIDE DEF nobody
  <2>5. HasSections(s4) /\ s4.mounts = mounts /\ s4.autodjs = c.autodjs /\ s4.relays = relays
    BY <2>4, WriteKey
  <2> HIDE DEF s4
  <2>6. s5.mounts = mounts /\ s5.autodjs = c.autodjs /\ s5.relays = relays
    BY <2>5, WriteKey
  <2> QED
    BY <2>1, <2>6
<1>9. isAdmin => s = c4
  BY <1>2, <1>4
<1> QED
  BY <1>7, <1>8, <1>9 DEF s, users, mounts, relays

\* The entries of a map, each at its key, make that map again.
LEMMA KeyedListed ==
  ASSUME NEW map, map = [k \in DOMAIN map |-> map[k]], \A k \in DOMAIN map : map[k].at = k
  PROVE  Keyed(Listed(map)) = map /\ Unique(Listed(map))
<1>1. Unique(Listed(map))
  BY DEF Listed, Unique
<1>2. {e.at : e \in Listed(map)} = DOMAIN map
  BY DEF Listed
<1> DEFINE m == Keyed(Listed(map))
<1>3. DOMAIN m = DOMAIN map
  BY <1>2, KeyedPicks
<1>4. \A k \in DOMAIN m : m[k] \in Listed(map) /\ m[k].at = k
  BY KeyedPicks
<1>5. m = [k \in DOMAIN m |-> m[k]]
  BY KeyedMap
<1> HIDE DEF m
<1>6. \A k \in DOMAIN map : m[k] = map[k]
  BY <1>3, <1>4 DEF Listed
<1>7. m = map
  BY <1>3, <1>5, <1>6
<1> QED
  BY <1>1, <1>7 DEF m

\* A section written as it is.
LEMMA WriteSame ==
  ASSUME NEW c, HasSections(c)
  PROVE  /\ [c EXCEPT !.transcode = c.transcode] = c
         /\ [c EXCEPT !.users = c.users] = c
         /\ [c EXCEPT !.mounts = c.mounts] = c
         /\ [c EXCEPT !.autodjs = c.autodjs] = c
         /\ [c EXCEPT !.relays = c.relays] = c
BY DEF HasSections

\* Absent keys and refusals are none of the values built from passwords.
NoValue ==
  /\ \A patch, candidate : Accepted(patch, candidate) # Refused
  /\ \A password : Hash(password) # Unset
  /\ \A owner : Unset \notin PasswordsOf(owner)

\* What a save of a section as it is shown returns.
Same(r, c) == r # Refused /\ r.candidate = c

LEMMA AcceptedSame ==
  ASSUME NoValue, NEW patch, NEW c
  PROVE  /\ Same(Accepted(patch, c), c)
         /\ ValidPaths(c) => Same(AcceptedPaths(patch, c), c)
BY DEF NoValue, Accepted, AcceptedPaths, Same

LEMMA EchoServer ==
  ASSUME NoValue, NEW c, HasSections(c), Whole(c), NEW s, s = Shown(c, TRUE), NEW r,
         r = PutServer(c, Echo(s, "server"))
  PROVE  IF c.settings # Bad THEN Same(r, c) ELSE r = Refused
<1> DEFINE b == Echo(s, "server")
           p == [settings |-> b.settings, rate |-> b.rate,
                 auth |-> IF Typed(b.source_password) THEN b.source_password ELSE Unset]
           c1 == [c EXCEPT !.settings = p.settings]
           c2 == [c1 EXCEPT !.rate = p.rate]
           c3 == [c2 EXCEPT !.source_password = Given(p.auth, @)]
<1>1. /\ s.settings = c.settings /\ s.rate = c.rate
      /\ s.source_password = Veil(c.source_password)
  BY ShownKeys
<1>2. b = [settings |-> s.settings, rate |-> s.rate, source_password |-> s.source_password]
  BY DEF Echo
<1>3. r = IF p.settings # Bad THEN AcceptedPaths(p, c3) ELSE Refused
  BY DEF PutServer, ValidateServerPatch
<1> HIDE DEF b
<1>4. b.settings = c.settings /\ b.rate = c.rate /\ b.source_password = Veil(c.source_password)
  BY <1>1, <1>2
<1>5. p.settings = c.settings /\ p.rate = c.rate /\ p.auth = Unset
  BY <1>4 DEF Veil, Typed
<1> HIDE DEF p
<1>6. c3 = c
  <2>1. /\ HasSections(c1) /\ c1.settings = c.settings /\ c1.rate = c.rate
        /\ c1.source_password = c.source_password /\ c1.transcode = c.transcode
        /\ c1.users = c.users /\ c1.mounts = c.mounts /\ c1.autodjs = c.autodjs
        /\ c1.relays = c.relays
    BY <1>5, WriteKey
  <2> HIDE DEF c1
  <2>2. /\ HasSections(c2) /\ c2.settings = c.settings /\ c2.rate = c.rate
        /\ c2.source_password = c.source_password /\ c2.transcode = c.transcode
        /\ c2.users = c.users /\ c2.mounts = c.mounts /\ c2.autodjs = c.autodjs
        /\ c2.relays = c.relays
    BY <1>5, <2>1, WriteKey
  <2> HIDE DEF c2
  <2>3. /\ HasSections(c3) /\ c3.settings = c.settings /\ c3.rate = c.rate
        /\ c3.source_password = c.source_password /\ c3.transcode = c.transcode
        /\ c3.users = c.users /\ c3.mounts = c.mounts /\ c3.autodjs = c.autodjs
        /\ c3.relays = c.relays
    BY <1>5, <2>2, WriteKey DEF Given
  <2> HIDE DEF c3
  <2> QED
    BY <2>3, SameSections
<1>7. Same(AcceptedPaths(p, c), c)
  BY AcceptedSame DEF Whole
<1> QED
  BY <1>3, <1>5, <1>6, <1>7

\* Users come back with the marker for their hashes, which stay.
LEMMA EchoUsers ==
  ASSUME NoValue, NEW c, Running(c), Whole(c), Ranged(c), NEW who \in DOMAIN c.users,
         c.users[who].role = "admin", NEW s, s = Shown(c, TRUE), NEW r,
         r = PutUsers(c, who, Echo(s, "users"))
  PROVE  Same(r, c)
<1> DEFINE b == Echo(s, "users")
           us == {[at |-> u.at, hash |-> UserHash(c, u), role |-> u.role] : u \in b}
           e(n) == [at |-> n, password |-> Marker, role |-> c.users[n].role]
<1>1. HasSections(c) /\ RangedUsers(c.users)
  BY DEF Running, Kept, OwnPasswords, Ranged
<1>2. ASSUME NEW n \in DOMAIN c.users
      PROVE  /\ c.users[n] = [at |-> n, hash |-> c.users[n].hash, role |-> c.users[n].role]
             /\ n \in Names /\ c.users[n].at = n /\ c.users[n].hash # Unset
             /\ c.users[n].role \in {"admin", "operator"}
  <2>1. OwnUser(c.users[n], n) /\ c.users[n].at = n /\ n \in Names
        /\ Given(c.users[n].role, "admin") \in {"admin", "operator"}
    BY <1>1 DEF Running, Kept, OwnPasswords, RangedUsers
  <2>2. c.users[n].role = Given(c.users[n].role, "admin")
    <3>1. c.users = [k \in DOMAIN c.users |-> ParseUser(c.users[k])]
      BY <1>1, ParsesTo DEF Whole, Map
    <3>2. c.users[n] = ParseUser(c.users[n])
      BY <3>1
    <3>3. ParseUser(c.users[n]).role = Given(c.users[n].role, "admin")
      BY <2>1, ParseUserKeeps
    <3> QED
      BY <3>2, <3>3
  <2>3. c.users[n].hash # Unset
    BY <2>1 DEF OwnUser, NoValue
  <2> QED
    BY <2>1, <2>2, <2>3 DEF OwnUser
<1>3. b = {e(n) : n \in DOMAIN c.users}
  <2>1. s.users = [n \in DOMAIN c.users |-> VeiledUser(c.users[n])]
    BY <1>1, ShownKeys
  <2>2. b = {[at |-> u.at, password |-> u.hash, role |-> u.role] : u \in Listed(s.users)}
    BY DEF Echo
  <2>3. ASSUME NEW n \in DOMAIN c.users
        PROVE  /\ VeiledUser(c.users[n]).at = n /\ VeiledUser(c.users[n]).hash = Marker
               /\ VeiledUser(c.users[n]).role = c.users[n].role
    <3> DEFINE u == c.users[n]
    <3>1. u = [at |-> n, hash |-> u.hash, role |-> u.role]
      BY <1>2
    <3> HIDE DEF u
    <3>2. VeiledUser(u).at = n /\ VeiledUser(u).hash = Marker /\ VeiledUser(u).role = u.role
      BY <3>1 DEF VeiledUser
    <3> QED
      BY <3>2 DEF u
  <2> DEFINE f(u) == [at |-> u.at, password |-> u.hash, role |-> u.role]
  <2>4. \A n \in DOMAIN c.users : f(VeiledUser(c.users[n])) = e(n)
    BY <2>3
  <2>5. b = {f(u) : u \in Listed(s.users)}
    BY <2>2
  <2>6. DOMAIN s.users = DOMAIN c.users
        /\ \A n \in DOMAIN c.users : s.users[n] = VeiledUser(c.users[n])
    BY <2>1
  <2> HIDE DEF b, e, f
  <2>7. ASSUME NEW n \in DOMAIN c.users
        PROVE  e(n) \in b
    <3>1. VeiledUser(c.users[n]) \in Listed(s.users)
      BY <2>6 DEF Listed
    <3> QED
      BY <2>4, <2>5, <3>1
  <2>8. ASSUME NEW x \in b
        PROVE  \E n \in DOMAIN c.users : x = e(n)
    <3>1. PICK u \in Listed(s.users) : x = f(u)
      BY <2>5
    <3>2. PICK n \in DOMAIN s.users : u = s.users[n]
      BY DEF Listed
    <3> QED
      BY <2>4, <2>6, <3>1, <3>2
  <2> QED
    BY <2>7, <2>8
<1> HIDE DEF b
<1>4. us = Listed(c.users)
  <2>1. \A n \in DOMAIN c.users :
          [at |-> e(n).at, hash |-> UserHash(c, e(n)), role |-> e(n).role] = c.users[n]
    <3>1. ASSUME NEW n \in DOMAIN c.users
          PROVE  [at |-> e(n).at, hash |-> UserHash(c, e(n)), role |-> e(n).role] = c.users[n]
      <4>1. UserHash(c, e(n)) = c.users[n].hash
        BY DEF UserHash, Typed
      <4> QED
        BY <1>2, <4>1
    <3> QED
      BY <3>1
  <2> HIDE DEF e
  <2>2. us = {[at |-> e(n).at, hash |-> UserHash(c, e(n)), role |-> e(n).role] :
                n \in DOMAIN c.users}
    BY <1>3
  <2> QED
    BY <2>1, <2>2 DEF Listed
<1>5. (who \in Names => \E u \in b : u.at = who /\ u.role = "admin")
  <2>1. e(who) \in b
    BY <1>3
  <2>2. e(who).at = who /\ e(who).role = "admin"
    OBVIOUS
  <2> QED
    BY <2>1, <2>2
<1>6. Keyed(Listed(c.users)) = c.users /\ Unique(Listed(c.users))
  BY <1>1, KeyedListed DEF RangedUsers
<1>7. ValidateUsersPatch(Listed(c.users))
  <2>1. \A u \in Listed(c.users) : \E n \in DOMAIN c.users : u = c.users[n]
    BY DEF Listed
  <2>2. \A u \in Listed(c.users) :
          u.at \in Names /\ u.hash # Unset /\ u.role \in {"admin", "operator"}
    <3>1. ASSUME NEW n \in DOMAIN c.users
          PROVE  /\ c.users[n].at \in Names /\ c.users[n].hash # Unset
                 /\ c.users[n].role \in {"admin", "operator"}
      BY <1>2
    <3> QED
      BY <2>1, <3>1
  <2>3. c.users[who] \in Listed(c.users)
    BY DEF Listed
  <2> QED
    BY <1>6, <2>2, <2>3 DEF ValidateUsersPatch
<1>8. r = Accepted(us, [c EXCEPT !.users = Keyed(us)])
  <2>1. r = IF (who \in Names => \E u \in b : u.at = who /\ u.role = "admin") /\ ValidateUsersPatch(us)
            THEN Accepted(us, [c EXCEPT !.users = Keyed(us)]) ELSE Refused
    BY DEF PutUsers, b
  <2> QED
    BY <1>4, <1>5, <1>7, <2>1
<1>9. r = Accepted(us, c)
  BY <1>1, <1>4, <1>6, <1>8, WriteSame
<1> QED
  BY <1>9, AcceptedSame

LEMMA EchoTranscode ==
  ASSUME NoValue, NEW c, HasSections(c), Whole(c), Ranged(c), NEW s, s = Shown(c, TRUE), NEW r,
         r = PutTranscode(c, Echo(s, "transcode"))
  PROVE  Same(r, c)
<1>1. s.transcode = c.transcode
  BY ShownKeys
<1>2. Echo(s, "transcode") = c.transcode
  BY <1>1 DEF Echo
<1>3. r = AcceptedPaths(c.transcode, [c EXCEPT !.transcode = c.transcode])
  BY <1>2 DEF PutTranscode, ValidateTranscodePatch, Ranged
<1>4. r = AcceptedPaths(c.transcode, c)
  BY <1>3, WriteSame
<1> QED
  BY <1>4, AcceptedSame DEF Whole

\* Mounts come back with the marker for their passwords, which stay.
LEMMA EchoMounts ==
  ASSUME NoValue, NEW c, Running(c), Whole(c), Ranged(c), NEW isAdmin \in BOOLEAN,
         NEW s, s = Shown(c, isAdmin), NEW r, r = PutMounts(c, Echo(s, "mounts"))
  PROVE  Same(r, c)
<1> DEFINE b == Echo(s, "mounts")
           f(m) == [m EXCEPT !.password = MountPassword(c, m)]
           ms == {f(m) : m \in b}
<1>1. HasSections(c) /\ RangedMounts(c.mounts)
  BY DEF Running, Kept, OwnPasswords, Ranged
<1>2. /\ DOMAIN s.mounts = DOMAIN c.mounts
      /\ \A at \in DOMAIN c.mounts : s.mounts[at] = VeiledMount(c.mounts[at])
  <2>1. HasSections(c) /\ isAdmin \in BOOLEAN /\ s = Shown(c, isAdmin)
    BY <1>1
  <2>2. s.mounts = [at \in DOMAIN c.mounts |-> VeiledMount(c.mounts[at])]
    BY ONLY <2>1, ShownKeys
  <2> QED
    BY <2>2
<1>3. b = Listed(s.mounts)
  BY DEF Echo
<1>4. r = IF (\A m \in ms : m.password # Unset) /\ ValidateMountsPatch(ms)
          THEN AcceptedPaths(ms, [c EXCEPT !.mounts = Keyed(ms)]) ELSE Refused
  BY DEF PutMounts
<1> HIDE DEF b
<1>5. ASSUME NEW at \in DOMAIN c.mounts
      PROVE  /\ f(VeiledMount(c.mounts[at])) = c.mounts[at]
             /\ at \in Paths /\ c.mounts[at].at = at /\ c.mounts[at].rest # Bad
             /\ c.mounts[at].password # Unset
  <2> DEFINE m == c.mounts[at]
             v == [m EXCEPT !.password = Marker]
  <2>1. /\ m = [at |-> m.at, password |-> m.password, rest |-> m.rest]
        /\ at \in Paths /\ m.at = at /\ m.rest # Bad /\ m.password # Unset
    <3>1. OwnMount(m, at)
      BY DEF Running, Kept, OwnPasswords
    <3>2. at \in Paths /\ m.at = at /\ m.rest # Bad
      BY <1>1 DEF RangedMounts
    <3> HIDE DEF m
    <3>3. m.password # Unset
      BY <3>1 DEF OwnMount, NoValue
    <3> QED
      BY <3>1, <3>2, <3>3 DEF OwnMount
  <2>2. VeiledMount(m) = v
    BY DEF VeiledMount
  <2>3. \A w : w.password = Marker /\ w.at = at => MountPassword(c, w) = m.password
    BY DEF MountPassword, Typed
  <2> HIDE DEF m
  <2>4. v = [at |-> m.at, password |-> Marker, rest |-> m.rest]
    BY <2>1
  <2> HIDE DEF v
  <2>5. v.password = Marker /\ v.at = at /\ v.rest = m.rest
    BY <2>1, <2>4
  <2>6. MountPassword(c, v) = m.password
    BY <2>3, <2>5
  <2>7. v = [at |-> v.at, password |-> v.password, rest |-> v.rest]
    BY <2>4, <2>5
  <2>8. f(v) = [at |-> v.at, password |-> m.password, rest |-> v.rest]
    BY <2>6, <2>7
  <2>9. f(v) = m
    BY <2>1, <2>5, <2>8
  <2> QED
    BY <2>1, <2>2, <2>9 DEF m
<1> HIDE DEF f
<1>6. ms = Listed(c.mounts)
  <2>1. ASSUME NEW x \in ms PROVE x \in Listed(c.mounts)
    <3>1. PICK m \in Listed(s.mounts) : x = f(m)
      BY <1>3
    <3>2. PICK at \in DOMAIN s.mounts : m = s.mounts[at]
      BY DEF Listed
    <3>3. x = c.mounts[at] /\ at \in DOMAIN c.mounts
      BY <1>2, <1>5, <3>1, <3>2
    <3> QED
      BY <3>3 DEF Listed
  <2>2. ASSUME NEW at \in DOMAIN c.mounts PROVE c.mounts[at] \in ms
    <3>1. s.mounts[at] \in Listed(s.mounts)
      BY <1>2 DEF Listed
    <3>2. f(s.mounts[at]) \in ms
      BY <1>3, <3>1
    <3> QED
      BY <1>2, <1>5, <3>2
  <2> HIDE DEF ms
  <2>3. \A x \in Listed(c.mounts) : x \in ms
    BY <2>2 DEF Listed
  <2> QED
    BY <2>1, <2>3
<1> HIDE DEF ms
<1>7. Keyed(Listed(c.mounts)) = c.mounts /\ Unique(Listed(c.mounts))
  BY <1>1, KeyedListed DEF RangedMounts
<1>8. \A m \in Listed(c.mounts) : m.at \in Paths /\ m.rest # Bad /\ m.password # Unset
  BY <1>5 DEF Listed
<1>9. r = AcceptedPaths(ms, c)
  BY <1>1, <1>4, <1>6, <1>7, <1>8, WriteSame DEF ValidateMountsPatch
<1> QED
  BY <1>9, AcceptedSame DEF Whole

LEMMA EchoAutodjs ==
  ASSUME NoValue, NEW c, Running(c), Whole(c), Ranged(c), NEW isAdmin \in BOOLEAN,
         NEW s, s = Shown(c, isAdmin), NEW r, r = PutAutodjs(c, Echo(s, "autodjs"))
  PROVE  Same(r, c)
<1> DEFINE as == {ParseAutodj(a) : a \in Listed(c.autodjs)}
<1>1. HasSections(c) /\ RangedAutodjs(c.autodjs)
  BY DEF Running, Kept, OwnPasswords, Ranged
<1>2. Echo(s, "autodjs") = Listed(c.autodjs)
  BY <1>1, ShownKeys DEF Echo
<1>3. \A at \in DOMAIN c.autodjs : ParseAutodj(c.autodjs[at]) = c.autodjs[at]
  <2>1. c.autodjs = [at \in DOMAIN c.autodjs |-> ParseAutodj(c.autodjs[at])]
    BY <1>1, ParsesTo DEF Whole, Map
  <2> QED
    BY <2>1
<1>4. \A a \in Listed(c.autodjs) : ParseAutodj(a) = a
  BY <1>3 DEF Listed
<1>5. as = Listed(c.autodjs)
  BY <1>4
<1>6. \A a \in Listed(c.autodjs) :
        a.at \in Paths /\ a.order \in {"shuffle", "sequential"} /\ a.rest # Bad
  <2>1. ASSUME NEW at \in DOMAIN c.autodjs
        PROVE  LET a == c.autodjs[at]
               IN a.at \in Paths /\ a.order \in {"shuffle", "sequential"} /\ a.rest # Bad
    <3> DEFINE a == c.autodjs[at]
    <3>1. /\ a.at \in Paths /\ a.rest # Bad /\ ParseAutodj(a) = a /\ OwnAutodj(a)
          /\ Given(a.order, "shuffle") \in {"shuffle", "sequential"}
      BY <1>1, <1>3 DEF RangedAutodjs
    <3> HIDE DEF a
    <3>2. ParseAutodj(a).order = Given(a.order, "shuffle")
      BY <3>1 DEF OwnAutodj, ParseAutodj
    <3>3. a.at \in Paths /\ a.order \in {"shuffle", "sequential"} /\ a.rest # Bad
      BY <3>1, <3>2
    <3> QED
      BY <3>3 DEF a
  <2> QED
    BY <2>1 DEF Listed
<1>7. Keyed(Listed(c.autodjs)) = c.autodjs /\ Unique(Listed(c.autodjs))
  BY <1>1, KeyedListed DEF RangedAutodjs
<1>8. r = IF ValidateAutodjsPatch(as) THEN AcceptedPaths(as, [c EXCEPT !.autodjs = Keyed(as)])
          ELSE Refused
  BY <1>2 DEF PutAutodjs
<1> HIDE DEF as
<1>9. r = AcceptedPaths(as, c)
  BY <1>1, <1>5, <1>6, <1>7, <1>8, WriteSame DEF ValidateAutodjsPatch
<1> QED
  BY <1>9, AcceptedSame DEF Whole

\* Relays come back with the marker for a password they have and nothing for
\* one they have not; both stay.
LEMMA EchoRelays ==
  ASSUME NoValue, NEW c, Running(c), Whole(c), Ranged(c), NEW isAdmin \in BOOLEAN,
         NEW s, s = Shown(c, isAdmin), NEW r, r = PutRelays(c, Echo(s, "relays"))
  PROVE  Same(r, c)
<1> DEFINE b == Echo(s, "relays")
           f(e) == [ParseRelay(e) EXCEPT !.password = RelayPassword(c, e)]
           rs == {f(e) : e \in b}
<1>1. HasSections(c) /\ RangedRelays(c.relays) /\ ValidPaths(c)
  BY DEF Running, Kept, OwnPasswords, Ranged, Whole
<1>2. /\ DOMAIN s.relays = DOMAIN c.relays
      /\ \A at \in DOMAIN c.relays : s.relays[at] = VeiledRelay(c.relays[at])
  <2>1. HasSections(c) /\ isAdmin \in BOOLEAN /\ s = Shown(c, isAdmin)
    BY <1>1
  <2>2. s.relays = [at \in DOMAIN c.relays |-> VeiledRelay(c.relays[at])]
    BY ONLY <2>1, ShownKeys
  <2> QED
    BY <2>2
<1>3. b = Listed(s.relays)
  BY DEF Echo
<1>4. r = IF ValidateRelaysPatch(rs) THEN AcceptedPaths(rs, [c EXCEPT !.relays = Keyed(rs)])
          ELSE Refused
  BY DEF PutRelays
<1> HIDE DEF b
<1>5. ASSUME NEW at \in DOMAIN c.relays
      PROVE  /\ f(VeiledRelay(c.relays[at])) = c.relays[at]
             /\ at \in Paths /\ c.relays[at].at = at /\ c.relays[at].rest # Bad
             /\ c.relays[at].username = Unset <=> c.relays[at].password = Unset
  <2> DEFINE e == c.relays[at]
             x == Veil(e.password)
             v == [e EXCEPT !.password = x]
  <2>1. /\ e = [at |-> e.at, enabled |-> e.enabled, username |-> e.username,
                password |-> e.password, rest |-> e.rest]
        /\ at \in Paths /\ e.at = at /\ e.rest # Bad
        /\ e.username = Unset <=> e.password = Unset
    BY <1>1 DEF Running, Kept, OwnPasswords, OwnRelay, RangedRelays, ValidPaths
  <2>2. VeiledRelay(e) = v
    BY DEF VeiledRelay
  <2>3. x \in {Unset, Marker}
    BY DEF Veil
  <2>4. \A w : w.password = x /\ w.at = at => RelayPassword(c, w) = e.password
    BY <2>3 DEF RelayPassword, Typed
  <2>5. ParseRelay(e) = e
    <3>1. c.relays = [k \in DOMAIN c.relays |-> ParseRelay(c.relays[k])]
      BY <1>1, ParsesTo DEF Whole, Map
    <3> QED
      BY <3>1
  <2> HIDE DEF e, x
  <2>6. Given(e.enabled, TRUE) = e.enabled
    <3>1. ParseRelay(e) = [at |-> e.at, enabled |-> Given(e.enabled, TRUE),
                           username |-> e.username, password |-> e.password, rest |-> e.rest]
      BY <2>1, ParsedRelay
    <3>2. ParseRelay(e).enabled = Given(e.enabled, TRUE)
      BY <3>1
    <3> QED
      BY <2>5, <3>2
  <2>7. v = [at |-> e.at, enabled |-> e.enabled, username |-> e.username,
             password |-> x, rest |-> e.rest]
    BY <2>1, WriteRelayKey
  <2> HIDE DEF v
  <2>8. /\ v.at = e.at /\ v.enabled = e.enabled /\ v.username = e.username
        /\ v.password = x /\ v.rest = e.rest
    BY <2>7
  <2>9. RelayPassword(c, v) = e.password
    BY <2>1, <2>4, <2>8
  <2>10. v = [at |-> v.at, enabled |-> v.enabled, username |-> v.username,
              password |-> v.password, rest |-> v.rest]
    BY <2>7, <2>8
  <2>11. f(v) = [at |-> v.at, enabled |-> Given(v.enabled, TRUE), username |-> v.username,
                 password |-> e.password, rest |-> v.rest]
    BY <2>9, <2>10, ResolvedRelay
  <2>12. f(v) = e
    BY <2>1, <2>6, <2>8, <2>11
  <2> QED
    BY <2>1, <2>2, <2>12 DEF e
<1> HIDE DEF f
<1>6. rs = Listed(c.relays)
  <2>1. ASSUME NEW x \in rs PROVE x \in Listed(c.relays)
    <3>1. PICK e \in Listed(s.relays) : x = f(e)
      BY <1>3
    <3>2. PICK at \in DOMAIN s.relays : e = s.relays[at]
      BY DEF Listed
    <3>3. x = c.relays[at] /\ at \in DOMAIN c.relays
      BY <1>2, <1>5, <3>1, <3>2
    <3> QED
      BY <3>3 DEF Listed
  <2>2. ASSUME NEW at \in DOMAIN c.relays PROVE c.relays[at] \in rs
    <3>1. s.relays[at] \in Listed(s.relays)
      BY <1>2 DEF Listed
    <3>2. f(s.relays[at]) \in rs
      BY <1>3, <3>1
    <3> QED
      BY <1>2, <1>5, <3>2
  <2> HIDE DEF rs
  <2>3. \A x \in Listed(c.relays) : x \in rs
    BY <2>2 DEF Listed
  <2> QED
    BY <2>1, <2>3
<1> HIDE DEF rs
<1>7. Keyed(Listed(c.relays)) = c.relays /\ Unique(Listed(c.relays))
  BY <1>1, KeyedListed DEF RangedRelays
<1>8. \A e \in Listed(c.relays) : /\ e.at \in Paths /\ e.rest # Bad
                                  /\ e.username = Unset <=> e.password = Unset
  BY <1>5 DEF Listed
<1>9. ValidateRelaysPatch(Listed(c.relays))
  BY <1>7, <1>8 DEF ValidateRelaysPatch
<1>10. r = AcceptedPaths(rs, c)
  BY <1>1, <1>4, <1>6, <1>7, <1>9, WriteSame
<1> QED
  BY <1>10, AcceptedSame DEF Whole

\* Every section, sent back as it was shown.
LEMMA EchoSame ==
  ASSUME NoValue, SaveInv, FileInv, RangeInv
  PROVE  EchoIsNoop
<1> SUFFICES ASSUME NEW n \in DOMAIN config.users, NEW isAdmin,
                    isAdmin = (config.users[n].role = "admin"),
                    NEW section \in IF isAdmin THEN Sections ELSE StreamSections, NEW r,
                    r = Put(config, n, section, Echo(Shown(config, isAdmin), section))
             PROVE  IF InRange(section) THEN Same(r, config) ELSE r = Refused
  BY DEF EchoIsNoop, Same
<1> DEFINE s == Shown(config, isAdmin)
<1>1. Running(config) /\ HasSections(config) /\ Whole(config) /\ Ranged(config)
  BY DEF SaveInv, FileInv, RangeInv, Running, Kept, OwnPasswords
<1>2. isAdmin \in BOOLEAN
  OBVIOUS
<1>3. section \in AdminSections => isAdmin /\ s = Shown(config, TRUE)
  BY DEF AdminSections, StreamSections
<1> HIDE DEF s
<1>4. r = Put(config, n, section, Echo(s, section))
  BY DEF s
<1>5. CASE section = "server"
  <2>1. r = PutServer(config, Echo(s, "server")) /\ s = Shown(config, TRUE)
    BY <1>3, <1>4, <1>5 DEF Put, AdminSections
  <2>2. IF config.settings # Bad THEN Same(r, config) ELSE r = Refused
    BY <1>1, <2>1, EchoServer
  <2> QED
    BY <1>5, <2>2 DEF InRange
<1>6. CASE section = "transcode"
  <2>1. r = PutTranscode(config, Echo(s, "transcode")) /\ s = Shown(config, TRUE)
    BY <1>3, <1>4, <1>6 DEF Put, AdminSections
  <2>2. Same(r, config)
    BY <1>1, <2>1, EchoTranscode
  <2> QED
    BY <1>6, <2>2 DEF InRange
<1>7. CASE section = "users"
  <2>1. r = PutUsers(config, n, Echo(s, "users")) /\ s = Shown(config, TRUE)
        /\ config.users[n].role = "admin"
    BY <1>3, <1>4, <1>7 DEF Put, AdminSections
  <2>2. Same(r, config)
    BY <1>1, <2>1, EchoUsers
  <2> QED
    BY <1>7, <2>2 DEF InRange
<1>8. CASE section = "mounts"
  <2>1. r = PutMounts(config, Echo(s, "mounts"))
    BY <1>4, <1>8 DEF Put
  <2>2. Same(r, config)
    BY <1>1, <1>2, <2>1, EchoMounts DEF s
  <2> QED
    BY <1>8, <2>2 DEF InRange
<1>9. CASE section = "autodjs"
  <2>1. r = PutAutodjs(config, Echo(s, "autodjs"))
    BY <1>4, <1>9 DEF Put
  <2>2. Same(r, config)
    BY <1>1, <1>2, <2>1, EchoAutodjs DEF s
  <2> QED
    BY <1>9, <2>2 DEF InRange
<1>10. CASE section = "relays"
  <2>1. r = PutRelays(config, Echo(s, "relays"))
    BY <1>4, <1>10 DEF Put
  <2>2. Same(r, config)
    BY <1>1, <1>2, <2>1, EchoRelays DEF s
  <2> QED
    BY <1>10, <2>2 DEF InRange
<1> QED
  BY <1>5, <1>6, <1>7, <1>8, <1>9, <1>10 DEF Sections, AdminSections, StreamSections

\* Saving a section as GET showed it, passwords redacted, is accepted and
\* changes nothing, for every user and at every point of every run (redact,
\* get_config, put_*), unless [server] holds a value only a file can hold.
THEOREM EchoTheorem ==
  ASSUME NoDocument, NoValue, FilesRanged
  PROVE  Spec => []EchoIsNoop
<1>1. SaveInv /\ FileInv /\ RangeInv => EchoIsNoop
  BY EchoSame
<1> QED
  BY <1>1, SaveInvariant, FileInvariant, RangeInvariant, PTL
=============================================================================
