---------------------------- MODULE MCConfigSave ----------------------------
(* Model checking of ConfigSave.                                           *)
EXTENDS ConfigSave, TLC

CONSTANTS main, side, root, dj, ca, cb, s1, s2, r1, t1, x1

NoMap == [k \in {} |-> k]
Pw(kind, key, v) == <<<<kind, key>>, v>>

User(n, v, role) == [at |-> n, hash |-> Hash(Pw("user", n, v)), role |-> role]
Mount(at, pw, rest) == [at |-> at, password |-> pw, rest |-> rest]
Autodj(at, enabled, loop, order) ==
  [at |-> at, enabled |-> enabled, loop |-> loop, order |-> order, rest |-> x1]
Relay(at, enabled, name, pw) ==
  [at |-> at, enabled |-> enabled, username |-> name, password |-> pw, rest |-> x1]

\* The default configuration: one admin, a generated global password.
Built == [settings |-> s1, rate |-> Unset, source_password |-> <<Global, 1>>,
          transcode |-> Unset, users |-> root :> User(root, 1, "admin"),
          mounts |-> NoMap, autodjs |-> NoMap, relays |-> NoMap]

\* Hand-written files: keys left to their defaults, a setting the API would
\* refuse, no password but the mount's own; and one path in two sections.
Written == [settings |-> Bad, rate |-> r1, source_password |-> Unset, transcode |-> Unset,
            users |-> root :> User(root, 1, Unset) @@ dj :> User(dj, 1, "operator"),
            mounts |-> main :> Mount(main, Pw("mount", main, 1), x1),
            autodjs |-> NoMap,
            relays |-> side :> Relay(side, Unset, root, Pw("relay", side, 1))]
Colliding == [Written EXCEPT !.autodjs = main :> Autodj(main, TRUE, Unset, "sequential")]
HandWritten == {Written, Colliding, Garbage}

Requests == [
  server |-> {[settings |-> s2, rate |-> Unset, source_password |-> <<Global, 2>>],
              [settings |-> s1, rate |-> r1, source_password |-> Marker],
              [settings |-> Bad, rate |-> r1, source_password |-> Blank]},
  transcode |-> {t1, Bad},
  users |-> {{[at |-> root, password |-> Marker, role |-> "admin"],
              [at |-> dj, password |-> Pw("user", dj, 2), role |-> "admin"]},
             {[at |-> root, password |-> Pw("user", root, 2), role |-> "admin"],
              [at |-> dj, password |-> Blank, role |-> "operator"]},
             {[at |-> dj, password |-> Unset, role |-> "admin"]},
             {[at |-> root, password |-> Blank, role |-> "operator"]}},
  mounts |-> {{Mount(main, Marker, x1), Mount(side, Blank, x1)},
              {Mount(main, Pw("mount", main, 2), x1), Mount(main, Unset, x1)},
              {Mount(Bad, Marker, x1)}},
  autodjs |-> {{Autodj(main, FALSE, Unset, Unset)},
               {Autodj(side, Unset, FALSE, "sequential")}, {Autodj(side, TRUE, TRUE, Bad)}},
  relays |-> {{Relay(side, FALSE, root, Pw("relay", side, 2))}, {Relay(main, Unset, Unset, Unset)},
              {Relay(side, Unset, Blank, Unset)}, {Relay(side, TRUE, Unset, Marker)}}]

ConsoleSymmetry == Permutations({ca, cb})
=============================================================================
