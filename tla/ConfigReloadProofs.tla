------------------------- MODULE ConfigReloadProofs -------------------------
(***************************************************************************)
(* Proofs about ConfigReload, for any paths, sections, settings, clients   *)
(* and number of requests.                                                 *)
(***************************************************************************)
EXTENDS ConfigReload, TLAPS

Runs(e) == IF Enabled(e) THEN e ELSE Absent

Gone(j, k) == Listed(config, k) \ Listed(j.target, k)
Respawned(j, k) ==
  {p \in Listed(j.target, k) :
     IF config[k][p] = Absent THEN Enabled(j.target[k][p])
                              ELSE config[k][p] # j.target[k][p]}

\* The apply waits for the task of this entry, and its handle is out.
Held(j, k, p) == j # None /\ j.wait = p /\ j.stage \in {<<k, "drop">>, <<k, "start">>}

\* The apply has brought this entry in line with its target.
Swapped(j, k, p) ==
  /\ j # None
  /\ \/ j.stage = <<"commit">>
     \/ k = "autodj" /\ j.stage \in {<<"relay", "drop">>, <<"relay", "start">>}
     \/ j.stage = <<k, "start">> /\ p \notin j.todo
     \/ j.stage = <<k, "drop">> /\ p \in Gone(j, k) \ j.todo

Expected(j, k, p) ==
  IF Held(j, k, p) THEN Absent
  ELSE IF Swapped(j, k, p) THEN Runs(j.target[k][p]) ELSE Runs(config[k][p])

ReqOK == \A s \in Savers : req[s] # None =>
  /\ req[s].section \in Sections
  /\ req[s].candidate \in Config
  /\ req[s].entries = req[s].candidate[req[s].section]

\* An apply works through the difference between what runs and its target,
\* and waits for entries of its stage only.
JobShape(j) ==
  /\ \A k \in Workers : j.stage = <<k, "drop">> => j.todo \subseteq Gone(j, k)
  /\ \A k \in Workers : j.stage = <<k, "start">> => j.todo \subseteq Respawned(j, k)
  /\ j.stage \in {<<"mounts">>, <<"commit">>} => j.wait = None
  /\ j.wait # None => j.wait \in j.todo
JobOK == job # None => JobShape(job)

HandlesExact == ~torn =>
  \A k \in Workers, p \in Paths : handles[k][p] = Expected(job, k, p)

TasksExact == ~torn =>
  \A t \in tasks :
    /\ t.phase = "live" => t.cfg = handles[t.kind][t.path]
    /\ t.phase = "awaited" => Held(job, t.kind, t.path)
    /\ t.phase # "loose"

ApplyInv ==
  /\ TypeOK /\ ReqOK /\ JobOK /\ HandlesExact /\ TasksExact /\ OneTaskPerEntry

USE ConfigAssumption

LEMMA StageFacts ==
  ASSUME NEW k \in Workers, NEW j \in Workers
  PROVE  /\ <<"mounts">> # <<k, "drop">> /\ <<"mounts">> # <<k, "start">>
         /\ <<"commit">> # <<k, "drop">> /\ <<"commit">> # <<k, "start">>
         /\ <<"mounts">> # <<"commit">>
         /\ <<k, "drop">> # <<j, "start">>
         /\ <<k, "drop">> = <<j, "drop">> => k = j
         /\ <<k, "start">> = <<j, "start">> => k = j
         /\ {<<"mounts">>, <<"commit">>, <<k, "drop">>, <<k, "start">>} \subseteq Stages
BY DEF Workers, Stages

LEMMA Cell ==
  ASSUME NEW c \in Config, NEW k \in Workers, NEW p \in Paths
  PROVE  c[k][p] \in {Absent, Off} \cup Versions
BY DEF Config, Entries, Workers, Sections

\* The entries of a job that moves on are those of the job it was.
LEMMA Stage ==
  ASSUME job \in Jobs, NEW stage \in Stages, NEW todo \in SUBSET Paths,
         job' = [job EXCEPT !.stage = stage, !.todo = todo]
  PROVE  /\ job' \in Jobs /\ job # None /\ job' # None
         /\ job'.target = job.target /\ job'.by = job.by /\ job'.wait = job.wait
         /\ job'.stage = stage /\ job'.todo = todo
BY DEF Jobs

LEMMA Wait ==
  ASSUME job \in Jobs, NEW p \in Paths, job' = [job EXCEPT !.wait = p]
  PROVE  /\ job' \in Jobs /\ job # None /\ job' # None
         /\ job'.target = job.target /\ job'.by = job.by
         /\ job'.stage = job.stage /\ job'.todo = job.todo /\ job'.wait = p
BY DEF Jobs

LEMMA Finish ==
  ASSUME job \in Jobs, NEW p \in Paths, job' = Finished(p)
  PROVE  /\ job' \in Jobs /\ job # None /\ job' # None
         /\ job'.target = job.target /\ job'.by = job.by
         /\ job'.stage = job.stage /\ job'.todo = job.todo \ {p} /\ job'.wait = None
<1> DEFINE todo == job.todo \ {p}
<1>1. todo \in SUBSET Paths
  BY DEF Jobs
<1>2. job' = [job EXCEPT !.wait = None, !.todo = todo]
  BY DEF Finished
<1>3. job'.todo = todo
  BY <1>2 DEF Jobs
<1> HIDE DEF todo
<1>4. /\ job' \in Jobs /\ job # None /\ job' # None
      /\ job'.target = job.target /\ job'.by = job.by
      /\ job'.stage = job.stage /\ job'.wait = None
  BY <1>1, <1>2 DEF Jobs
<1> QED
  BY <1>3, <1>4 DEF todo

LEMMA TaskTyped ==
  ASSUME NEW k \in Workers, NEW p \in Paths, NEW e \in Versions
  PROVE  Task(k, p, e) \in TaskSet
BY DEF Task, TaskSet, Phases

LEMMA InitInv == Init => ApplyInv
<1> SUFFICES ASSUME Init PROVE ApplyInv
  OBVIOUS
<1> USE DEF Init
<1>1. config \in Config /\ disk \in Config \cup {NoFile}
  BY DEF Valid
<1>2. \A k \in Workers, p \in Paths : config[k][p] \in {Absent, Off} \cup Versions
  BY <1>1, Cell
<1>3. \A t \in tasks : /\ t.kind \in Workers /\ t.path \in Paths
                       /\ t = Task(t.kind, t.path, config[t.kind][t.path])
                       /\ Enabled(config[t.kind][t.path])
  BY DEF Task
<1>4. tasks \subseteq TaskSet
  <2> SUFFICES ASSUME NEW t \in tasks PROVE t \in TaskSet
    OBVIOUS
  <2>1. config[t.kind][t.path] \in Versions
    BY <1>2, <1>3 DEF Enabled
  <2>2. /\ t.kind \in Workers /\ t.path \in Paths
        /\ t = Task(t.kind, t.path, config[t.kind][t.path])
    BY <1>3
  <2> QED
    BY <2>1, <2>2, TaskTyped
<1>5. handles \in [Workers -> [Paths -> {Absent} \cup Versions]]
  BY <1>2 DEF Enabled
<1>6. mounts \subseteq Paths
  BY DEF Listed
<1>70. origin \in Origins /\ torn \in BOOLEAN /\ stale \in BOOLEAN
  <2>1. torn \in BOOLEAN /\ stale \in BOOLEAN
    BY Zenon
  <2>2. origin \in Origins
    BY DEF Origins
  <2> QED
    BY <2>1, <2>2
<1>71. \A s \in Savers : req[s] = None
  OBVIOUS
<1>72. job = None /\ spent = 0
  BY Zenon
<1> HIDE DEF Init
<1>7. TypeOK
  BY <1>1, <1>4, <1>5, <1>6, <1>70, <1>71, <1>72 DEF TypeOK
<1> USE DEF Init
<1>8. ReqOK /\ JobOK
  BY DEF ReqOK, JobOK
<1>9. \A k \in Workers, p \in Paths : Expected(job, k, p) = Runs(config[k][p])
  BY DEF Expected, Held, Swapped
<1>90. HandlesExact
  BY <1>9 DEF HandlesExact, Runs
<1>10. \A t \in tasks : t.phase = "live" /\ t.cfg = handles[t.kind][t.path]
  BY <1>3 DEF Task
<1>11. TasksExact
  BY <1>10 DEF TasksExact
<1>12. OneTaskPerEntry
  BY <1>3 DEF OneTaskPerEntry
<1> QED
  BY <1>7, <1>8, <1>90, <1>11, <1>12 DEF ApplyInv

-----------------------------------------------------------------------------
(* Requests.                                                               *)

LEMMA SubmitInv ==
  ASSUME ApplyInv, NEW s \in Savers, NEW sec \in Sections, NEW entries, Submit(s, sec, entries)
  PROVE  ApplyInv'
<1> USE DEF ApplyInv, Submit
<1> DEFINE candidate == [config EXCEPT ![sec] = entries]
<1>1. candidate \in Config /\ candidate[sec] = entries
  BY DEF TypeOK, Config
<1>2. ReqOK'
  BY <1>1 DEF ReqOK, TypeOK
<1>3. TypeOK'
  BY <1>1 DEF TypeOK, Spend
<1> QED
  BY <1>2, <1>3 DEF JobOK, JobShape, HandlesExact, TasksExact, OneTaskPerEntry,
                    Expected, Held, Swapped, Gone, Respawned

\* A job that has just begun has changed nothing.
LEMMA NewJobInv ==
  ASSUME ApplyInv, job = None, NEW who \in Savers \cup {"sighup"}, NEW target \in Config,
         job' = NewJob(who, target), UNCHANGED <<config, mounts, handles, tasks, torn>>
  PROVE  /\ job' \in Jobs
         /\ (JobOK /\ HandlesExact /\ TasksExact /\ OneTaskPerEntry)'
<1> USE DEF ApplyInv
<1>1. /\ job' \in Jobs /\ job' # None /\ job'.wait = None /\ job'.todo = {}
      /\ job'.stage = <<"mounts">>
  BY DEF NewJob, Jobs, Stages
<1>2. \A k \in Workers : job'.stage \notin {<<k, "drop">>, <<k, "start">>}
  BY <1>1, StageFacts
<1>3. JobOK'
  BY <1>1, <1>2 DEF JobOK, JobShape
<1>4. \A k \in Workers, p \in Paths : ~Held(job', k, p) /\ ~Swapped(job', k, p)
  BY <1>1, <1>2, StageFacts DEF Held, Swapped, Workers
<1>40. \A k \in Workers, p \in Paths : Expected(job, k, p)' = Expected(job, k, p)
  BY <1>4 DEF Expected, Held, Swapped, Runs, Gone, Listed
<1>5. HandlesExact'
  BY <1>40 DEF HandlesExact
<1>6. (TasksExact /\ OneTaskPerEntry)'
  BY DEF TasksExact, OneTaskPerEntry, Held
<1> QED
  BY <1>1, <1>3, <1>5, <1>6

\* A section of one configuration in another.
LEMMA SplicedConfig ==
  ASSUME NEW c \in Config, NEW d \in Config, NEW sec \in Sections
  PROVE  [c EXCEPT ![sec] = d[sec]] \in Config
<1> DEFINE e == [c EXCEPT ![sec] = d[sec]]
<1>1. /\ c \in [Sections -> [Paths -> {Absent, Off, "on"} \cup Versions]]
      /\ d \in [Sections -> [Paths -> {Absent, Off, "on"} \cup Versions]]
  BY DEF Config
<1>2. /\ e \in [Sections -> [Paths -> {Absent, Off, "on"} \cup Versions]]
      /\ \A s \in Sections : e[s] = IF s = sec THEN d[s] ELSE c[s]
  BY <1>1
<1> HIDE DEF e
<1>3. \A s \in Sections, p \in Paths :
        e[s][p] \in Entries(s) /\ (e[s][p] # Absent => s \in Place[p])
  BY <1>2 DEF Config
<1>4. e \in Config
  BY <1>2, <1>3 DEF Config
<1> QED
  BY <1>4 DEF e

LEMMA PersistInv == ASSUME ApplyInv, NEW s \in Savers, Persist(s) PROVE ApplyInv'
<1> USE DEF ApplyInv, Persist
<1>1. req[s].candidate \in Config
  BY DEF ReqOK
<1>2. job' \in Jobs /\ (JobOK /\ HandlesExact /\ TasksExact /\ OneTaskPerEntry)'
  BY <1>1, NewJobInv
<1>3. disk' \in Config
  <2>1. CASE origin = "defaults" \/ disk = NoFile
    BY <1>1, <2>1
  <2>2. CASE ~(origin = "defaults" \/ disk = NoFile)
    <3>1. disk \in Config /\ disk' = [disk EXCEPT ![req[s].section] = req[s].entries]
      BY <2>2 DEF TypeOK
    <3>2. /\ req[s].section \in Sections
          /\ req[s].entries = req[s].candidate[req[s].section]
      BY DEF ReqOK
    <3>3. PICK sec \in Sections : sec = req[s].section
      BY <3>2
    <3>4. disk' = [disk EXCEPT ![sec] = req[s].candidate[sec]]
      BY <3>1, <3>2, <3>3
    <3> QED
      <4>1. [disk EXCEPT ![sec] = req[s].candidate[sec]] \in Config
        BY <1>1, <3>1, SplicedConfig, Zenon
      <4> QED
        BY <3>4, <4>1, Zenon
  <2> QED
    BY <2>1, <2>2
<1>4. (TypeOK /\ ReqOK)'
  BY <1>2, <1>3 DEF TypeOK, ReqOK
<1> QED
  BY <1>2, <1>4

LEMMA SighupInv == ASSUME ApplyInv, Sighup PROVE ApplyInv'
<1> USE DEF ApplyInv, Sighup
<1>1. job' \in Jobs /\ (JobOK /\ HandlesExact /\ TasksExact /\ OneTaskPerEntry)'
  BY NewJobInv DEF TypeOK
<1>2. TypeOK'
  <2>1. spent' \in 0..MaxRequests
    <3>1. spent \in 0..MaxRequests /\ spent < MaxRequests /\ spent' = spent + 1
      BY Zenon DEF TypeOK, Spend
    <3> QED
      BY <3>1
  <2>2. stale' \in BOOLEAN /\ origin' \in Origins /\ torn' \in BOOLEAN
    BY Zenon DEF TypeOK
  <2>3. /\ config' \in Config /\ disk' \in Config \cup {NoFile}
        /\ \A s \in Savers : req'[s] = None \/ req'[s].candidate \in Config
        /\ mounts' \subseteq Paths /\ tasks' \subseteq TaskSet
        /\ handles' \in [Workers -> [Paths -> {Absent} \cup Versions]]
    BY Zenon DEF TypeOK
  <2> QED
    BY <1>1, <2>1, <2>2, <2>3, Zenon DEF TypeOK
<1>3. ReqOK'
  BY DEF ReqOK
<1> QED
  BY <1>1, <1>2, <1>3

LEMMA GiveUpInv == ASSUME ApplyInv, NEW s \in Savers, GiveUp(s) PROVE ApplyInv'
<1> USE DEF ApplyInv, GiveUp
<1>1. (TypeOK /\ ReqOK)'
  BY DEF TypeOK, ReqOK
<1> QED
  BY <1>1 DEF JobOK, JobShape, HandlesExact, TasksExact, OneTaskPerEntry,
              Expected, Held, Swapped, Gone, Respawned

LEMMA EditFileInv == ASSUME ApplyInv, NEW c \in Edits, EditFile(c) PROVE ApplyInv'
<1> USE DEF ApplyInv, EditFile
<1>1. (TypeOK /\ ReqOK)'
  BY DEF TypeOK, ReqOK, Spend
<1> QED
  BY <1>1 DEF JobOK, JobShape, HandlesExact, TasksExact, OneTaskPerEntry,
              Expected, Held, Swapped, Gone, Respawned

-----------------------------------------------------------------------------
(* apply_config.                                                           *)

LEMMA UnheardTasks ==
  ASSUME tasks \subseteq TaskSet, NEW gone, NEW u \in Unheard(tasks, gone)
  PROVE  /\ u \in TaskSet
         /\ \E t \in tasks :
              /\ u = [t EXCEPT !.heard = t.heard /\ t.path \notin gone]
              /\ u.kind = t.kind /\ u.path = t.path /\ u.cfg = t.cfg /\ u.phase = t.phase
<1>1. PICK t \in tasks : u = [t EXCEPT !.heard = t.heard /\ t.path \notin gone]
  BY Zenon DEF Unheard
<1> DEFINE h == t.heard /\ t.path \notin gone
<1>2. h \in BOOLEAN
  BY Zenon
<1>3. u = [t EXCEPT !.heard = h]
  BY <1>1, Zenon
<1> HIDE DEF h
<1>4. t \in TaskSet
  OBVIOUS
<1>5. /\ u \in TaskSet
      /\ u.kind = t.kind /\ u.path = t.path /\ u.cfg = t.cfg /\ u.phase = t.phase
  BY <1>2, <1>3, <1>4 DEF TaskSet
<1> QED
  BY <1>1, <1>5, Zenon

\* Tasks that are heard by fewer listeners are otherwise what they were.
LEMMA UnheardExact ==
  ASSUME ApplyInv, NEW gone, tasks' = Unheard(tasks, gone), torn' = torn, handles' = handles,
         \A t \in tasks : t.phase = "awaited" /\ Held(job, t.kind, t.path) =>
                           Held(job', t.kind, t.path)
  PROVE  tasks' \subseteq TaskSet /\ (TasksExact /\ OneTaskPerEntry)'
<1>1. tasks \subseteq TaskSet
  BY Zenon DEF ApplyInv, TypeOK
<1>2. \A u \in tasks' :
        /\ u \in TaskSet
        /\ \E t \in tasks :
             /\ u = [t EXCEPT !.heard = t.heard /\ t.path \notin gone]
             /\ u.kind = t.kind /\ u.path = t.path /\ u.cfg = t.cfg /\ u.phase = t.phase
  <2> SUFFICES ASSUME NEW u \in tasks'
               PROVE  /\ u \in TaskSet
                      /\ \E t \in tasks :
                           /\ u = [t EXCEPT !.heard = t.heard /\ t.path \notin gone]
                           /\ u.kind = t.kind /\ u.path = t.path /\ u.cfg = t.cfg
                           /\ u.phase = t.phase
    BY Zenon
  <2>1. u \in Unheard(tasks, gone)
    BY Zenon
  <2> QED
    BY <1>1, <2>1, UnheardTasks
<1>3. ASSUME ~torn', NEW u \in tasks'
      PROVE  /\ u.phase = "live" => u.cfg = handles'[u.kind][u.path]
             /\ u.phase = "awaited" => Held(job', u.kind, u.path)
             /\ u.phase # "loose"
  <2>1. PICK t \in tasks : u.kind = t.kind /\ u.path = t.path /\ u.cfg = t.cfg /\ u.phase = t.phase
    BY <1>2, Zenon
  <2>2. /\ t.phase = "live" => t.cfg = handles[t.kind][t.path]
        /\ t.phase = "awaited" => Held(job, t.kind, t.path)
        /\ t.phase # "loose"
    BY <1>3, Zenon DEF ApplyInv, TasksExact
  <2> QED
    BY <2>1, <2>2, Zenon
<1>4. ASSUME ~torn', NEW u \in tasks', NEW v \in tasks', u.kind = v.kind, u.path = v.path
      PROVE  u = v
  <2>1. PICK t \in tasks : u = [t EXCEPT !.heard = t.heard /\ t.path \notin gone]
                           /\ u.kind = t.kind /\ u.path = t.path
    BY <1>2, Zenon
  <2>2. PICK w \in tasks : v = [w EXCEPT !.heard = w.heard /\ w.path \notin gone]
                           /\ v.kind = w.kind /\ v.path = w.path
    BY <1>2, Zenon
  <2>3. t = w
    BY <1>4, <2>1, <2>2, Zenon DEF ApplyInv, OneTaskPerEntry
  <2> QED
    BY <2>1, <2>2, <2>3, Zenon
<1>5. TasksExact'
  BY <1>3, Zenon DEF TasksExact, Held
<1>6. OneTaskPerEntry'
  BY <1>4, Zenon DEF OneTaskPerEntry
<1> QED
  BY <1>2, <1>5, <1>6, Zenon

LEMMA ApplyMountsInv == ASSUME ApplyInv, ApplyMounts PROVE ApplyInv'
<1> USE DEF ApplyInv
<1> DEFINE gone == Listed(config, "mounts") \ Listed(job.target, "mounts")
           todo == Listed(config, "autodj") \ Listed(job.target, "autodj")
<1>1. job \in Jobs /\ job # None /\ job.stage = <<"mounts">>
  BY Zenon DEF ApplyMounts, TypeOK
<1>2. /\ job' \in Jobs /\ job' # None
      /\ job'.target = job.target /\ job'.wait = job.wait
      /\ job'.stage = <<"autodj", "drop">> /\ job'.todo = todo
  <2>1. todo \in SUBSET Paths /\ <<"autodj", "drop">> \in Stages
    BY DEF Listed, Stages, Workers
  <2>2. job' = [job EXCEPT !.stage = <<"autodj", "drop">>, !.todo = todo]
    BY Zenon DEF ApplyMounts
  <2> HIDE DEF todo
  <2> QED
    BY <1>1, <2>1, <2>2, Stage
<1>3. job.wait = None
  BY <1>1 DEF JobOK, JobShape
<1>4. UNCHANGED <<config, disk, origin, req, handles, torn, stale, spent>>
  BY Zenon DEF ApplyMounts
<1>5. mounts' \subseteq Paths
  BY DEF ApplyMounts, Listed, TypeOK
<1>6. JobOK'
  BY <1>2, <1>3, <1>4, StageFacts DEF JobOK, JobShape, Gone, Listed, Workers
<1>7. \A k \in Workers, p \in Paths :
        /\ ~Held(job, k, p) /\ ~Held(job', k, p)
        /\ ~Swapped(job, k, p) /\ ~Swapped(job', k, p)
  BY <1>1, <1>2, <1>3, StageFacts DEF Held, Swapped, Gone, Listed, Workers
<1>8. HandlesExact'
  <2>1. \A k \in Workers, p \in Paths : Expected(job, k, p)' = Expected(job, k, p)
    BY <1>2, <1>4, <1>7 DEF Expected, Held, Swapped, Runs, Gone, Listed
  <2> QED
    BY <1>4, <2>1 DEF HandlesExact
<1>9. tasks' \subseteq TaskSet /\ (TasksExact /\ OneTaskPerEntry)'
  <2>1. tasks' = Unheard(tasks, gone)
    BY Zenon DEF ApplyMounts
  <2>2. \A t \in tasks : t.kind \in Workers /\ t.path \in Paths
    BY DEF TypeOK, TaskSet
  <2> HIDE DEF gone
  <2> QED
    BY <1>4, <1>7, <2>1, <2>2, UnheardExact
<1>10. (TypeOK /\ ReqOK)'
  BY <1>2, <1>4, <1>5, <1>9 DEF TypeOK, ReqOK
<1> QED
  BY <1>6, <1>8, <1>9, <1>10

\* The entry whose task is waited for is one the stage works through.
LEMMA HeldIsTodo ==
  ASSUME ApplyInv, job \in Jobs, NEW k \in Workers, NEW p \in Paths, job.wait = p,
         job.stage \in {<<k, "drop">>, <<k, "start">>}
  PROVE  /\ p \in job.todo
         /\ job.stage = <<k, "drop">> => p \in Gone(job, k)
         /\ job.stage = <<k, "start">> => p \in Respawned(job, k)
         /\ ~torn => handles[k][p] = Absent
<1>1. job # None /\ p # None
  OBVIOUS
<1>2. JobShape(job) /\ Held(job, k, p)
  BY <1>1 DEF ApplyInv, JobOK, Held
<1>3. ~torn => handles[k][p] = Absent
  BY <1>2 DEF ApplyInv, HandlesExact, Expected
<1> QED
  BY <1>1, <1>2, <1>3 DEF JobShape

LEMMA CancelEntryInv ==
  ASSUME ApplyInv, NEW k \in Workers, NEW p \in Paths, CancelEntry(k, p)
  PROVE  ApplyInv'
<1> USE DEF ApplyInv
<1>1. /\ job \in Jobs /\ job # None /\ job.wait = None /\ p \in job.todo
      /\ job.stage \in {<<k, "drop">>, <<k, "start">>}
  BY Zenon DEF CancelEntry, TypeOK
<1>2. /\ job' \in Jobs /\ job' # None /\ job'.target = job.target
      /\ job'.stage = job.stage /\ job'.todo = job.todo /\ job'.wait = p
  <2>1. job' = [job EXCEPT !.wait = p]
    BY Zenon DEF CancelEntry
  <2> QED
    BY <1>1, <2>1, Wait
<1>3. UNCHANGED <<config, disk, origin, req, mounts, torn, stale, spent>>
  BY Zenon DEF CancelEntry
<1>4. handles' = [handles EXCEPT ![k][p] = Absent]
  BY Zenon DEF CancelEntry
<1>5. handles' \in [Workers -> [Paths -> {Absent} \cup Versions]]
  BY <1>4 DEF TypeOK
<1>6. JobOK'
  BY <1>1, <1>2, <1>3 DEF JobOK, JobShape, Gone, Respawned, Listed
<1>7. \A w \in Workers, q \in Paths : <<w, q>> # <<k, p>> =>
        /\ handles'[w][q] = handles[w][q]
        /\ ~Held(job, w, q) /\ ~Held(job', w, q)
        /\ Expected(job, w, q)' = Expected(job, w, q)
  <2> SUFFICES ASSUME NEW w \in Workers, NEW q \in Paths, <<w, q>> # <<k, p>>
               PROVE  /\ handles'[w][q] = handles[w][q]
                      /\ ~Held(job, w, q) /\ ~Held(job', w, q)
                      /\ Expected(job, w, q)' = Expected(job, w, q)
    OBVIOUS
  <2>1. handles'[w][q] = handles[w][q]
    BY <1>4 DEF TypeOK
  <2>2. ~Held(job, w, q)
    BY <1>1 DEF Held
  <2>3. ~Held(job', w, q)
    BY <1>1, <1>2, StageFacts DEF Held
  <2>4. Swapped(job, w, q)' <=> Swapped(job, w, q)
    BY <1>1, <1>2, <1>3 DEF Swapped, Gone, Listed
  <2>5. Expected(job, w, q)' = Expected(job, w, q)
    BY <1>2, <1>3, <2>2, <2>3, <2>4 DEF Expected, Held, Runs
  <2> QED
    BY <2>1, <2>2, <2>3, <2>5
<1>8. handles'[k][p] = Absent /\ Held(job', k, p) /\ Expected(job, k, p)' = Absent
  BY <1>1, <1>2, <1>4 DEF Held, Expected, TypeOK
<1>9. HandlesExact'
  BY <1>3, <1>7, <1>8 DEF HandlesExact
<1> DEFINE hit(t) == t.kind = k /\ t.path = p /\ t.phase = "live" /\ handles[k][p] # Absent
           f(t) == IF hit(t) THEN [t EXCEPT !.phase = "awaited"] ELSE t
<1>10. tasks' = {f(t) : t \in tasks}
  BY Zenon DEF CancelEntry
<1>11. \A t \in tasks : f(t) \in TaskSet /\ f(t).kind = t.kind /\ f(t).path = t.path
                        /\ f(t).cfg = t.cfg /\ f(t).phase = IF hit(t) THEN "awaited" ELSE t.phase
  BY DEF TypeOK, TaskSet, Phases
<1> HIDE DEF f
<1>12. \A u \in tasks' : \E t \in tasks : u = f(t)
  BY <1>10
<1>13. tasks' \subseteq TaskSet
  BY <1>11, <1>12
<1>14. OneTaskPerEntry'
  BY <1>3, <1>11, <1>12 DEF OneTaskPerEntry
<1>15. ASSUME ~torn, NEW t \in tasks
       PROVE  /\ f(t).phase = "live" => f(t).cfg = handles'[t.kind][t.path]
              /\ f(t).phase = "awaited" => Held(job', t.kind, t.path)
              /\ f(t).phase # "loose"
  <2>1. /\ t.phase = "live" => t.cfg = handles[t.kind][t.path]
        /\ t.phase = "awaited" => Held(job, t.kind, t.path)
        /\ t.phase # "loose" /\ t \in TaskSet
    BY <1>15 DEF TasksExact, TypeOK
  <2>2. t.kind \in Workers /\ t.path \in Paths /\ t.cfg \in Versions
    BY <2>1 DEF TaskSet
  <2>3. t.phase # "awaited"
    BY <1>1, <2>1, <2>2 DEF Held
  <2>4. CASE hit(t)
    BY <1>8, <1>11, <2>4
  <2>5. CASE ~hit(t) /\ <<t.kind, t.path>> = <<k, p>>
    BY <1>11, <2>1, <2>2, <2>3, <2>5
  <2>6. CASE <<t.kind, t.path>> # <<k, p>>
    BY <1>7, <1>11, <2>1, <2>2, <2>3, <2>6
  <2> QED
    BY <2>4, <2>5, <2>6
<1>16. TasksExact'
  <2> SUFFICES ASSUME ~torn', NEW u \in tasks'
               PROVE  /\ u.phase = "live" => u.cfg = handles'[u.kind][u.path]
                      /\ u.phase = "awaited" => Held(job', u.kind, u.path)
                      /\ u.phase # "loose"
    BY Zenon DEF TasksExact, Held
  <2>1. PICK t \in tasks : u = f(t)
    BY <1>12
  <2>2. ~torn
    BY <1>3
  <2> QED
    BY <1>11, <1>15, <2>1, <2>2
<1>17. (TypeOK /\ ReqOK)'
  BY <1>2, <1>3, <1>5, <1>13 DEF TypeOK, ReqOK
<1> QED
  BY <1>6, <1>9, <1>14, <1>16, <1>17

\* The wait is over: the entry is done.  What its stage has seen to grows by it.
LEMMA FinishFacts ==
  ASSUME ApplyInv, job \in Jobs, NEW k \in Workers, NEW p \in Paths, job.wait = p,
         job.stage \in {<<k, "drop">>, <<k, "start">>}, job' = Finished(p), config' = config
  PROVE  /\ job' \in Jobs /\ job # None /\ job' # None /\ JobOK'
         /\ \A w \in Workers, q \in Paths : ~Held(job', w, q)
         /\ \A w \in Workers, q \in Paths : <<w, q>> # <<k, p>> =>
              ~Held(job, w, q) /\ Expected(job, w, q)' = Expected(job, w, q)
         /\ Expected(job, k, p)' = Runs(job.target[k][p])
<1>1. /\ job' \in Jobs /\ job # None /\ job' # None /\ job'.target = job.target
      /\ job'.stage = job.stage /\ job'.todo = job.todo \ {p} /\ job'.wait = None
  BY Finish
<1>2. JobShape(job)
  BY <1>1 DEF ApplyInv, JobOK
<1>3. JobOK'
  BY <1>1, <1>2, StageFacts DEF JobOK, JobShape, Gone, Respawned, Listed
<1>4. \A w \in Workers, q \in Paths : ~Held(job', w, q)
  BY <1>1 DEF Held
<1>5. ASSUME NEW w \in Workers, NEW q \in Paths, <<w, q>> # <<k, p>>
      PROVE  ~Held(job, w, q) /\ Expected(job, w, q)' = Expected(job, w, q)
  <2>1. ~Held(job, w, q)
    BY <1>5, StageFacts DEF Held
  <2>2. q # p \/ job.stage \notin {<<w, "drop">>, <<w, "start">>}
    BY <1>5, StageFacts
  <2>3. Swapped(job, w, q)' <=> Swapped(job, w, q)
    BY <1>1, <2>2 DEF Swapped, Gone, Listed
  <2> QED
    BY <1>1, <1>4, <2>1, <2>3 DEF Expected, Held, Runs
<1>6. p \in job.todo /\ (job.stage = <<k, "drop">> => p \in Gone(job, k))
  BY HeldIsTodo
<1>7. Swapped(job, k, p)'
  BY <1>1, <1>6 DEF Swapped, Gone, Listed
<1>8. Expected(job, k, p)' = Runs(job.target[k][p])
  BY <1>1, <1>4, <1>7 DEF Expected, Held, Runs
<1> QED
  BY <1>1, <1>3, <1>4, <1>5, <1>8

LEMMA DropMountInv ==
  ASSUME ApplyInv, NEW k \in Workers, NEW p \in Paths, DropMount(k, p)
  PROVE  ApplyInv'
<1> USE DEF ApplyInv
<1>1. job \in Jobs /\ job # None /\ job.wait = p /\ job.stage = <<k, "drop">>
  BY Zenon DEF DropMount, TypeOK
<1>2. UNCHANGED <<config, disk, origin, req, handles, torn, stale, spent>>
  BY Zenon DEF DropMount
<1>3. job' = Finished(p) /\ tasks' = Unheard(tasks, {p}) /\ mounts' = mounts \ {p} /\ Ended
  BY Zenon DEF DropMount
<1>4. /\ job' \in Jobs /\ job' # None /\ JobOK'
      /\ \A w \in Workers, q \in Paths : <<w, q>> # <<k, p>> =>
           ~Held(job, w, q) /\ Expected(job, w, q)' = Expected(job, w, q)
      /\ Expected(job, k, p)' = Runs(job.target[k][p])
  BY <1>1, <1>2, <1>3, FinishFacts
<1>5. p \in Gone(job, k) /\ (~torn => handles[k][p] = Absent)
  BY <1>1, HeldIsTodo
<1>6. Runs(job.target[k][p]) = Absent
  BY <1>5 DEF Gone, Listed, Runs, Enabled
<1>7. HandlesExact'
  BY <1>2, <1>4, <1>5, <1>6 DEF HandlesExact
<1>8. tasks' \subseteq TaskSet /\ (TasksExact /\ OneTaskPerEntry)'
  <2>1. \A t \in tasks : t.phase # "awaited"
    BY <1>3, Zenon DEF Ended
  <2> QED
    BY <1>2, <1>3, <2>1, UnheardExact, Zenon
<1>9. mounts' \subseteq Paths
  BY <1>3 DEF TypeOK
<1>10. (TypeOK /\ ReqOK)'
  BY <1>2, <1>4, <1>8, <1>9 DEF TypeOK, ReqOK
<1> QED
  BY <1>4, <1>7, <1>8, <1>10

LEMMA StartTaskInv ==
  ASSUME ApplyInv, NEW k \in Workers, NEW p \in Paths, StartTask(k, p)
  PROVE  ApplyInv'
<1> USE DEF ApplyInv
<1> DEFINE e == job.target[k][p]
<1>1. job \in Jobs /\ job # None /\ job.wait = p /\ job.stage = <<k, "start">>
  BY Zenon DEF StartTask, TypeOK
<1>2. UNCHANGED <<config, disk, origin, req, torn, stale, spent>>
  BY Zenon DEF StartTask
<1>3. job' = Finished(p) /\ mounts' = mounts \cup {p} /\ Ended
  BY Zenon DEF StartTask
<1>4. /\ job' \in Jobs /\ job' # None /\ JobOK'
      /\ \A w \in Workers, q \in Paths : <<w, q>> # <<k, p>> =>
           ~Held(job, w, q) /\ Expected(job, w, q)' = Expected(job, w, q)
      /\ Expected(job, k, p)' = Runs(e)
  BY <1>1, <1>2, <1>3, FinishFacts
<1>5. ~torn => handles[k][p] = Absent
  BY <1>1, HeldIsTodo
<1>6. e \in {Absent, Off} \cup Versions
  BY <1>1, Cell DEF Jobs
<1>7. CASE Enabled(e)
  <2>1. handles' = [handles EXCEPT ![k][p] = e] /\ tasks' = tasks \cup {Task(k, p, e)}
    BY <1>7, Zenon DEF StartTask
  <2>2. e \in Versions /\ Runs(e) = e
    BY <1>6, <1>7 DEF Enabled, Runs
  <2> HIDE DEF e
  <2>3. Task(k, p, e) \in TaskSet
    BY <2>2, TaskTyped
  <2>4. /\ handles' \in [Workers -> [Paths -> {Absent} \cup Versions]]
        /\ handles'[k][p] = e
        /\ \A w \in Workers, q \in Paths : <<w, q>> # <<k, p>> => handles'[w][q] = handles[w][q]
    BY <2>1, <2>2 DEF TypeOK
  <2>5. HandlesExact'
    BY <1>2, <1>4, <2>2, <2>4 DEF HandlesExact
  <2>6. ~torn => \A t \in tasks :
          /\ t \in TaskSet /\ t.phase = "live" /\ t.cfg = handles[t.kind][t.path]
          /\ <<t.kind, t.path>> # <<k, p>>
    <3> SUFFICES ASSUME ~torn, NEW t \in tasks
                 PROVE  /\ t \in TaskSet /\ t.phase = "live" /\ t.cfg = handles[t.kind][t.path]
                        /\ <<t.kind, t.path>> # <<k, p>>
      OBVIOUS
    <3>1. t \in TaskSet /\ t.phase # "awaited"
      BY <1>3 DEF TypeOK, Ended
    <3>2. t.phase = "live" /\ t.cfg = handles[t.kind][t.path] /\ t.cfg \in Versions
      BY <3>1 DEF TasksExact, TaskSet, Phases
    <3> QED
      BY <1>5, <3>1, <3>2
  <2>7. /\ Task(k, p, e).kind = k /\ Task(k, p, e).path = p
        /\ Task(k, p, e).cfg = e /\ Task(k, p, e).phase = "live"
    BY DEF Task
  <2>8. TasksExact'
    BY <1>2, <2>1, <2>4, <2>6, <2>7 DEF TasksExact, TaskSet
  <2>9. OneTaskPerEntry'
    BY <1>2, <2>1, <2>6, <2>7 DEF OneTaskPerEntry
  <2>10. (TypeOK /\ ReqOK)'
    BY <1>2, <1>3, <1>4, <2>1, <2>3, <2>4 DEF TypeOK, ReqOK
  <2> QED
    BY <1>4, <2>5, <2>8, <2>9, <2>10
<1>8. CASE ~Enabled(e)
  <2>1. UNCHANGED <<handles, tasks>>
    BY <1>8, Zenon DEF StartTask
  <2>2. Runs(e) = Absent
    BY <1>8 DEF Runs
  <2> HIDE DEF e
  <2>3. HandlesExact'
    BY <1>2, <1>4, <1>5, <2>1, <2>2 DEF HandlesExact
  <2>4. \A t \in tasks : t.phase # "awaited"
    BY <1>3 DEF Ended
  <2>5. (TasksExact /\ OneTaskPerEntry)'
    BY <1>2, <2>1, <2>4 DEF TasksExact, OneTaskPerEntry
  <2>6. (TypeOK /\ ReqOK)'
    BY <1>2, <1>3, <1>4, <2>1 DEF TypeOK, ReqOK
  <2> QED
    BY <1>4, <2>3, <2>5, <2>6
<1> QED
  BY <1>7, <1>8

\* Between two stages nothing is held, and what a stage has seen to is what
\* the next one takes for granted: an entry that is neither gone nor respawned
\* runs what the target says.
LEMMA StageDone ==
  ASSUME ApplyInv, job \in Jobs, NEW k \in Workers, NEW p \in Paths,
         p \notin Gone(job, k), p \notin Respawned(job, k)
  PROVE  Runs(config[k][p]) = Runs(job.target[k][p])
<1>1. config[k][p] \in {Absent, Off} \cup Versions /\ job.target[k][p] \in {Absent, Off} \cup Versions
  BY Cell DEF ApplyInv, TypeOK, Jobs
<1> QED
  BY <1>1 DEF Gone, Respawned, Listed, Runs, Enabled

LEMMA NextStageInv == ASSUME ApplyInv, NextStage PROVE ApplyInv'
<1> USE DEF ApplyInv
<1>1. job \in Jobs /\ job # None /\ job.wait = None /\ job.todo = {}
  BY Zenon DEF NextStage, TypeOK
<1>2. UNCHANGED <<config, disk, origin, req, mounts, handles, tasks, torn, stale, spent>>
  BY Zenon DEF NextStage
<1>3. ASSUME NEW stage \in Stages, NEW todo \in SUBSET Paths,
             job' = [job EXCEPT !.stage = stage, !.todo = todo],
             \A k \in Workers : stage = <<k, "drop">> => todo \subseteq Gone(job, k),
             \A k \in Workers : stage = <<k, "start">> => todo \subseteq Respawned(job, k),
             stage # <<"mounts">>,
             \A k \in Workers, p \in Paths : Expected(job', k, p) = Expected(job, k, p)
      PROVE  ApplyInv'
  <2>1. /\ job' \in Jobs /\ job' # None /\ job'.target = job.target /\ job'.wait = None
        /\ job'.stage = stage /\ job'.todo = todo
    BY <1>1, <1>3, Stage
  <2>2. JobOK'
    BY <1>2, <1>3, <2>1 DEF JobOK, JobShape, Gone, Respawned, Listed
  <2>3. \A k \in Workers, p \in Paths : Expected(job, k, p)' = Expected(job', k, p)
    BY <1>2 DEF Expected, Held, Swapped, Runs, Gone, Listed
  <2>4. HandlesExact'
    BY <1>2, <1>3, <2>3 DEF HandlesExact
  <2>5. \A t \in tasks : ~Held(job, t.kind, t.path)
    BY <1>1 DEF Held, TypeOK, TaskSet
  <2>6. (TasksExact /\ OneTaskPerEntry)'
    BY <1>2, <2>5 DEF TasksExact, OneTaskPerEntry
  <2>7. (TypeOK /\ ReqOK)'
    BY <1>2, <2>1 DEF TypeOK, ReqOK
  <2> QED
    BY <2>2, <2>4, <2>6, <2>7
<1>4. ASSUME NEW w \in Workers, job.stage = <<w, "drop">>,
             job' = [job EXCEPT !.stage = <<w, "start">>,
                                !.todo = {p \in Listed(job.target, w) : NeedsRespawn(w, p)}]
      PROVE  ApplyInv'
  <2> DEFINE todo == Respawned(job, w)
  <2>1. todo \in SUBSET Paths /\ <<w, "start">> \in Stages /\ <<w, "start">> # <<"mounts">>
    BY StageFacts DEF Listed, Respawned
  <2>2. job' = [job EXCEPT !.stage = <<w, "start">>, !.todo = todo]
    BY <1>4 DEF Respawned, NeedsRespawn
  <2>3. /\ job' # None /\ job'.target = job.target /\ job'.wait = None
        /\ job'.stage = <<w, "start">> /\ job'.todo = todo
    <3> HIDE DEF todo
    <3> QED
      BY <1>1, <2>1, <2>2, Stage
  <2>4. ASSUME NEW k \in Workers, NEW p \in Paths
        PROVE  Expected(job', k, p) = Expected(job, k, p)
    <3>1. ~Held(job, k, p) /\ ~Held(job', k, p)
      BY <1>1, <2>3 DEF Held
    <3>2. CASE k # w
      <4>1. Swapped(job', k, p) <=> Swapped(job, k, p)
        BY <1>1, <1>4, <2>3, <3>2, StageFacts DEF Swapped, Workers
      <4> QED
        BY <2>3, <3>1, <4>1 DEF Expected
    <3>3. CASE k = w
      <4>1. Swapped(job, w, p) <=> p \in Gone(job, w)
        BY <1>1, <1>4, StageFacts DEF Swapped, Workers
      <4>2. Swapped(job', w, p) <=> p \notin Respawned(job, w)
        BY <2>3, StageFacts DEF Swapped, Workers
      <4>3. p \in Gone(job, w) => p \notin Respawned(job, w)
        BY DEF Gone, Respawned
      <4>4. p \notin Gone(job, w) /\ p \notin Respawned(job, w) =>
              Runs(config[w][p]) = Runs(job.target[w][p])
        BY <1>1, StageDone
      <4> QED
        BY <2>3, <3>1, <3>3, <4>1, <4>2, <4>3, <4>4 DEF Expected
    <3> QED
      BY <3>2, <3>3
  <2>5. \A k \in Workers : <<w, "start">> = <<k, "start">> => todo \subseteq Respawned(job, k)
    BY StageFacts
  <2>6. \A k \in Workers : <<w, "start">> # <<k, "drop">>
    BY StageFacts
  <2> HIDE DEF todo
  <2> QED
    BY <1>3, <2>1, <2>2, <2>4, <2>5, <2>6
<1>5. ASSUME job.stage = <<"autodj", "start">>,
             job' = [job EXCEPT !.stage = <<"relay", "drop">>,
                                !.todo = Listed(config, "relay") \ Listed(job.target, "relay")]
      PROVE  ApplyInv'
  <2> DEFINE todo == Gone(job, "relay")
  <2>1. todo \in SUBSET Paths /\ <<"relay", "drop">> \in Stages /\ <<"relay", "drop">> # <<"mounts">>
    BY StageFacts DEF Listed, Gone, Workers
  <2>2. job' = [job EXCEPT !.stage = <<"relay", "drop">>, !.todo = todo]
    BY <1>5 DEF Gone
  <2>3. /\ job' # None /\ job'.target = job.target /\ job'.wait = None
        /\ job'.stage = <<"relay", "drop">> /\ job'.todo = todo
    <3> HIDE DEF todo
    <3> QED
      BY <1>1, <2>1, <2>2, Stage
  <2>4. ASSUME NEW k \in Workers, NEW p \in Paths
        PROVE  Expected(job', k, p) = Expected(job, k, p)
    <3>1. ~Held(job, k, p) /\ ~Held(job', k, p)
      BY <1>1, <2>3 DEF Held
    <3>2. CASE k = "autodj"
      <4>1. Swapped(job', k, p) /\ Swapped(job, k, p)
        BY <1>1, <1>5, <2>3, <3>2 DEF Swapped
      <4> QED
        BY <2>3, <3>1, <4>1 DEF Expected
    <3>3. CASE k = "relay"
      <4>1. ~Swapped(job', k, p) /\ ~Swapped(job, k, p)
        BY <1>1, <1>5, <2>3, <3>3, StageFacts DEF Swapped, Gone, Workers
      <4> QED
        BY <2>3, <3>1, <4>1 DEF Expected
    <3> QED
      BY <3>2, <3>3 DEF Workers
  <2>5. \A k \in Workers : <<"relay", "drop">> = <<k, "drop">> => todo \subseteq Gone(job, k)
    BY StageFacts
  <2>6. \A k \in Workers : <<"relay", "drop">> # <<k, "start">>
    BY StageFacts DEF Workers
  <2> HIDE DEF todo
  <2> QED
    BY <1>3, <2>1, <2>2, <2>4, <2>5, <2>6
<1>6. ASSUME job.stage = <<"relay", "start">>,
             job' = [job EXCEPT !.stage = <<"commit">>, !.todo = {}]
      PROVE  ApplyInv'
  <2>1. /\ job' # None /\ job'.target = job.target /\ job'.wait = None
        /\ job'.stage = <<"commit">> /\ job'.todo = {} /\ <<"commit">> \in Stages
    <3>1. <<"commit">> \in Stages /\ {} \in SUBSET Paths
      BY DEF Stages
    <3> QED
      BY <1>1, <1>6, <3>1, Stage
  <2>2. ASSUME NEW k \in Workers, NEW p \in Paths
        PROVE  Expected(job', k, p) = Expected(job, k, p)
    <3>1. ~Held(job, k, p) /\ ~Held(job', k, p)
      BY <1>1, <2>1 DEF Held
    <3>2. Swapped(job', k, p) /\ Swapped(job, k, p)
      BY <1>1, <1>6, <2>1 DEF Swapped, Workers
    <3> QED
      BY <2>1, <3>1, <3>2 DEF Expected
  <2>3. \A k \in Workers : <<"commit">> \notin {<<k, "drop">>, <<k, "start">>}
    BY StageFacts
  <2>4. <<"commit">> # <<"mounts">>
    BY StageFacts DEF Workers
  <2> QED
    BY <1>3, <1>6, <2>1, <2>2, <2>3, <2>4
<1>7. \/ \E k \in Workers :
            /\ job.stage = <<k, "drop">>
            /\ job' = [job EXCEPT !.stage = <<k, "start">>,
                                  !.todo = {p \in Listed(job.target, k) : NeedsRespawn(k, p)}]
      \/ /\ job.stage = <<"autodj", "start">>
         /\ job' = [job EXCEPT !.stage = <<"relay", "drop">>,
                               !.todo = Listed(config, "relay") \ Listed(job.target, "relay")]
      \/ /\ job.stage = <<"relay", "start">>
         /\ job' = [job EXCEPT !.stage = <<"commit">>, !.todo = {}]
  BY Zenon DEF NextStage
<1> QED
  BY <1>4, <1>5, <1>6, <1>7

LEMMA CommitInv == ASSUME ApplyInv, Commit PROVE ApplyInv'
<1> USE DEF ApplyInv
<1>1. job \in Jobs /\ job # None /\ job.stage = <<"commit">>
  BY Zenon DEF Commit, TypeOK
<1>2. /\ UNCHANGED <<disk, mounts, handles, tasks, torn, stale, spent>>
      /\ config' = job.target /\ job' = None
  BY Zenon DEF Commit
<1>3. job.target \in Config /\ job.wait = None
  BY <1>1 DEF Jobs, JobOK, JobShape
<1>4. \A k \in Workers, p \in Paths : Expected(job, k, p)' = Expected(job, k, p)
  BY <1>1, <1>2, <1>3 DEF Expected, Held, Swapped, Runs
<1>5. HandlesExact'
  BY <1>2, <1>4 DEF HandlesExact
<1>6. (TasksExact /\ OneTaskPerEntry)'
  BY <1>1, <1>2, <1>3 DEF TasksExact, OneTaskPerEntry, Held, TypeOK, TaskSet
<1>7. \A s \in Savers : req'[s] = None \/ req'[s] = req[s]
  BY DEF Commit
<1>8. origin' \in Origins
  <2>1. origin \in Origins /\ origin' \in {"saved", origin}
    BY Zenon DEF Commit, TypeOK
  <2> QED
    BY <2>1 DEF Origins
<1>9. (TypeOK /\ ReqOK /\ JobOK)'
  BY <1>2, <1>3, <1>7, <1>8 DEF TypeOK, ReqOK, JobOK
<1> QED
  BY <1>5, <1>6, <1>9

-----------------------------------------------------------------------------
(* Around it.                                                              *)

LEMMA ClientGoneInv == ASSUME ApplyInv, ClientGone PROVE ApplyInv'
<1> USE DEF ApplyInv
<1>1. /\ UNCHANGED <<config, disk, origin, mounts, handles, stale, spent>>
      /\ job' = None /\ torn' = TRUE /\ torn' \in BOOLEAN
  BY Zenon DEF ClientGone
<1>2. tasks' \subseteq TaskSet
  <2>1. tasks' = {IF t.phase = "awaited" THEN [t EXCEPT !.phase = "loose"] ELSE t : t \in tasks}
    BY Zenon DEF ClientGone
  <2>2. \A t \in tasks : [t EXCEPT !.phase = "loose"] \in TaskSet /\ t \in TaskSet
    BY DEF TypeOK, TaskSet, Phases
  <2> QED
    BY <2>1, <2>2
<1>3. \A s \in Savers : req'[s] = None \/ req'[s] = req[s]
  <2>1. PICK s \in Savers : req' = [req EXCEPT ![s] = None]
    BY Zenon DEF ClientGone
  <2> QED
    BY <2>1
<1>4. (HandlesExact /\ TasksExact /\ OneTaskPerEntry)'
  BY <1>1, Zenon DEF HandlesExact, TasksExact, OneTaskPerEntry
<1>5. (TypeOK /\ ReqOK /\ JobOK)'
  BY <1>1, <1>2, <1>3 DEF TypeOK, ReqOK, JobOK
<1> QED
  BY <1>4, <1>5

LEMMA TaskEndsInv == ASSUME ApplyInv, NEW t \in tasks, TaskEnds(t) PROVE ApplyInv'
<1> USE DEF ApplyInv
<1>1. /\ UNCHANGED <<config, disk, origin, req, job, mounts, handles, torn, stale, spent>>
      /\ tasks' \subseteq tasks
  BY DEF TaskEnds
<1>2. (TypeOK /\ ReqOK)'
  BY <1>1 DEF TypeOK, ReqOK
<1>3. (JobOK /\ HandlesExact)'
  BY <1>1 DEF JobOK, JobShape, HandlesExact, Expected, Held, Swapped, Gone, Respawned
<1>4. (TasksExact /\ OneTaskPerEntry)'
  BY <1>1 DEF TasksExact, OneTaskPerEntry, Held
<1> QED
  BY <1>2, <1>3, <1>4

LEMMA StutterInv == ASSUME ApplyInv, UNCHANGED vars PROVE ApplyInv'
BY DEF vars, ApplyInv, TypeOK, ReqOK, JobOK, JobShape, HandlesExact, TasksExact,
       OneTaskPerEntry, Expected, Held, Swapped, Gone, Respawned

LEMMA NextInv == ASSUME ApplyInv, [Next]_vars PROVE ApplyInv'
<1>1. ASSUME NEW s \in Savers, PutMounts(s) \/ PutAutodjs(s) \/ PutRelays(s)
      PROVE  ApplyInv'
  BY <1>1, SubmitInv DEF PutMounts, PutAutodjs, PutRelays, Sections, Workers
<1>2. ASSUME NEW s \in Savers, Persist(s) \/ GiveUp(s) PROVE ApplyInv'
  BY <1>2, PersistInv, GiveUpInv
<1>3. ASSUME NEW c \in Edits, EditFile(c) PROVE ApplyInv'
  BY <1>3, EditFileInv
<1>4. ASSUME NEW k \in Workers, NEW p \in Paths,
             CancelEntry(k, p) \/ DropMount(k, p) \/ StartTask(k, p)
      PROVE  ApplyInv'
  BY <1>4, CancelEntryInv, DropMountInv, StartTaskInv
<1>5. CASE Sighup \/ ApplyMounts \/ NextStage \/ Commit \/ ClientGone
  BY <1>5, SighupInv, ApplyMountsInv, NextStageInv, CommitInv, ClientGoneInv
<1>6. ASSUME NEW t \in tasks, TaskEnds(t) PROVE ApplyInv'
  BY <1>6, TaskEndsInv
<1>7. CASE Rest \/ UNCHANGED vars
  BY <1>7, StutterInv DEF Rest
<1> QED
  BY <1>1, <1>2, <1>3, <1>4, <1>5, <1>6, <1>7 DEF Next

\* The inductive invariant: where an apply stands, and what each entry's
\* handle and tasks are there.
THEOREM ApplyInvariant == Spec => []ApplyInv
BY InitInv, NextInv, PTL DEF Spec

\* Whatever saves and reloads came before, the registries and the tasks are
\* those of the running configuration (the diffs of apply_config).
THEOREM TasksFollowConfig == Spec => []TasksMatchConfig
<1>1. ApplyInv => TasksMatchConfig
  <2> SUFFICES ASSUME ApplyInv, Settled
               PROVE  /\ \A k \in Workers, p \in Paths :
                           handles[k][p] = IF Enabled(config[k][p]) THEN config[k][p] ELSE Absent
                      /\ \A t \in tasks : t.phase = "live" /\ t.cfg = handles[t.kind][t.path]
    BY DEF TasksMatchConfig
  <2>1. job = None /\ ~torn
    BY Zenon DEF Settled
  <2>2. \A k \in Workers, p \in Paths : Expected(job, k, p) = Runs(config[k][p])
    BY <2>1 DEF Expected, Held, Swapped
  <2>3. \A k \in Workers, p \in Paths :
          handles[k][p] = IF Enabled(config[k][p]) THEN config[k][p] ELSE Absent
    BY <2>1, <2>2 DEF ApplyInv, HandlesExact, Runs
  <2>4. \A t \in tasks : t.phase = "live" /\ t.cfg = handles[t.kind][t.path]
    BY <2>1 DEF ApplyInv, TasksExact, Held, TypeOK, TaskSet, Phases
  <2> QED
    BY <2>3, <2>4
<1> QED
  BY <1>1, ApplyInvariant, PTL

\* An entry's old task has ended before its new one is spawned (cancel awaits
\* the handle).
THEOREM NoSecondTask == Spec => []OneTaskPerEntry
<1>1. ApplyInv => OneTaskPerEntry
  BY DEF ApplyInv
<1> QED
  BY <1>1, ApplyInvariant, PTL

-----------------------------------------------------------------------------
(* Unchanged entries.                                                      *)

Undisturbed(p) ==
  job # None /\ (\A s \in Sections : config[s][p] = job.target[s][p]) =>
    /\ p \in mounts => p \in mounts'
    /\ \A k \in Workers : handles'[k][p] = handles[k][p]

\* No step of an apply removes the mount or stops the task of a path whose
\* entry is the same before and after (apply_config: mounts and listeners of
\* unchanged entries stay).
THEOREM UnchangedStay == Spec => UnchangedUndisturbed
<1>1. ASSUME ApplyInv, [Next]_vars PROVE \A p \in Paths : Undisturbed(p)
  <2> SUFFICES ASSUME NEW p \in Paths, job # None,
                      \A s \in Sections : config[s][p] = job.target[s][p]
               PROVE  /\ p \in mounts => p \in mounts'
                      /\ \A k \in Workers : handles'[k][p] = handles[k][p]
    BY Zenon DEF Undisturbed
  <2>1. job \in Jobs
    BY <1>1 DEF ApplyInv, TypeOK
  <2>2. \A k \in Workers : p \notin Gone(job, k) /\ p \notin Respawned(job, k)
    BY DEF Gone, Respawned, Listed, Sections
  <2>3. ASSUME NEW k \in Workers, NEW q \in Paths, CancelEntry(k, q)
        PROVE  p # q
    BY <1>1, <2>2, <2>3 DEF CancelEntry, ApplyInv, JobOK, JobShape
  <2>4. ASSUME NEW k \in Workers, NEW q \in Paths, DropMount(k, q) \/ StartTask(k, q)
        PROVE  p # q
    <3>1. job.wait = q /\ job.stage \in {<<k, "drop">>, <<k, "start">>}
      BY <2>4 DEF DropMount, StartTask
    <3> QED
      BY <1>1, <2>1, <2>2, <3>1, HeldIsTodo
  <2>5. ASSUME NEW k \in Workers, NEW q \in Paths,
               CancelEntry(k, q) \/ DropMount(k, q) \/ StartTask(k, q)
        PROVE  /\ p \in mounts => p \in mounts'
               /\ \A w \in Workers : handles'[w][p] = handles[w][p]
    <3>1. p # q
      BY <2>3, <2>4, <2>5
    <3>2. /\ mounts' \in {mounts, mounts \ {q}, mounts \cup {q}}
          /\ \/ handles' = handles
             \/ \E e : handles' = [handles EXCEPT ![k][q] = e]
      BY <2>5, Zenon DEF CancelEntry, DropMount, StartTask
    <3>3. handles \in [Workers -> [Paths -> {Absent} \cup Versions]]
      BY <1>1 DEF ApplyInv, TypeOK
    <3> QED
      BY <3>1, <3>2, <3>3
  <2>6. ASSUME ApplyMounts
        PROVE  /\ p \in mounts => p \in mounts'
               /\ \A w \in Workers : handles'[w][p] = handles[w][p]
    BY <2>6 DEF ApplyMounts, Listed, Sections
  <2>7. CASE UNCHANGED <<mounts, handles>>
    BY <2>7
  <2>8. ASSUME NEW s \in Savers,
               PutMounts(s) \/ PutAutodjs(s) \/ PutRelays(s) \/ Persist(s) \/ GiveUp(s)
        PROVE  UNCHANGED <<mounts, handles>>
    BY <2>8 DEF PutMounts, PutAutodjs, PutRelays, Submit, Persist, GiveUp
  <2>9. ASSUME \/ \E c \in Edits : EditFile(c)
               \/ Sighup \/ NextStage \/ Commit \/ ClientGone \/ Rest
               \/ \E t \in tasks : TaskEnds(t)
               \/ UNCHANGED vars
        PROVE  UNCHANGED <<mounts, handles>>
    BY <2>9, Zenon DEF EditFile, Sighup, NextStage, Commit, ClientGone, Rest, TaskEnds, vars
  <2> QED
    BY <1>1, <2>5, <2>6, <2>7, <2>8, <2>9 DEF Next
<1>2. ASSUME ApplyInv, [Next]_vars
      PROVE  [\A p \in Paths : Undisturbed(p)]_vars
  BY <1>1, <1>2
<1>3. [](ApplyInv) /\ [][Next]_vars => [][\A p \in Paths : Undisturbed(p)]_vars
  BY <1>2, PTL
<1>4. Spec => [][\A p \in Paths : Undisturbed(p)]_vars
  BY <1>3, ApplyInvariant, PTL DEF Spec
<1> QED
  BY <1>4 DEF UnchangedUndisturbed, Undisturbed

-----------------------------------------------------------------------------
(* Mounts.  An operator who lists a path in one section and later in       *)
(* another may lose its mount: the diff of the old section drops what the  *)
(* diff of the new one has just registered.                                *)

OnePlace == \A p \in Paths : \A s, u \in Place[p] : s = u

\* The [[mounts]] an apply has already registered, else those that run.
MountsListed == ~torn =>
  /\ (job = None \/ job.stage = <<"mounts">>) => Listed(config, "mounts") \subseteq mounts
  /\ job # None /\ job.stage # <<"mounts">> => Listed(job.target, "mounts") \subseteq mounts

\* A handle that is in stands for a task whose mount is registered.
HandlesListed == ~torn =>
  \A k \in Workers, p \in Paths : handles[k][p] # Absent => p \in mounts

TasksHeard == ~torn => \A t \in tasks : t.heard

MountsInv == ApplyInv /\ MountsListed /\ HandlesListed /\ TasksHeard

LEMMA PlaceOf ==
  ASSUME NEW c \in Config, NEW s \in Sections, NEW p \in Listed(c, s)
  PROVE  s \in Place[p]
BY DEF Listed, Config

LEMMA PlaceOfHandle ==
  ASSUME ApplyInv, ~torn, NEW k \in Workers, NEW p \in Paths, handles[k][p] # Absent
  PROVE  k \in Place[p]
<1>1. /\ handles[k][p] = Expected(job, k, p)
      /\ config \in Config /\ (job # None => job.target \in Config)
  BY DEF ApplyInv, HandlesExact, TypeOK, Jobs
<1>2. \/ config[k][p] # Absent
      \/ job # None /\ job.target[k][p] # Absent
  BY <1>1 DEF Expected, Swapped, Runs, Enabled
<1> QED
  BY <1>1, <1>2 DEF Config, Sections

\* No task runs where an entry is taken out, or [[mounts]] drops a path.
LEMMA NobodyAt ==
  ASSUME ApplyInv, OnePlace, ~torn, NEW t \in tasks, NEW s \in Place[t.path], t.kind # s
  PROVE  t.phase = "awaited"
<1>1. t \in TaskSet /\ t.phase # "loose" /\ (t.phase = "live" => t.cfg = handles[t.kind][t.path])
  BY DEF ApplyInv, TypeOK, TasksExact
<1>2. t.kind \in Workers /\ t.path \in Paths /\ t.cfg # Absent
  BY <1>1 DEF TaskSet
<1>3. t.phase = "live" => t.kind \in Place[t.path]
  BY <1>1, <1>2, PlaceOfHandle
<1> QED
  BY <1>1, <1>2, <1>3 DEF OnePlace, TaskSet, Phases

LEMMA TaskHeard == ASSUME NEW k, NEW p, NEW e PROVE Task(k, p, e).heard = TRUE
BY DEF Task

LEMMA MountsInit == Init => MountsInv
<1> SUFFICES ASSUME Init PROVE MountsInv
  OBVIOUS
<1>1. ApplyInv
  BY InitInv
<1>2. job = None /\ mounts = UNION {Listed(config, s) : s \in Sections}
  BY Zenon DEF Init
<1>3. MountsListed
  BY <1>2 DEF MountsListed, Sections
<1>4. \A k \in Workers, p \in Paths : handles[k][p] # Absent => config[k][p] # Absent
  BY DEF Init, Enabled
<1>5. HandlesListed
  BY <1>2, <1>4 DEF HandlesListed, Listed, Sections
<1>6. TasksHeard
  <2> SUFFICES ASSUME NEW t \in tasks PROVE t.heard
    BY Zenon DEF TasksHeard
  <2>1. tasks \subseteq {Task(k, p, config[k][p]) : k \in Workers, p \in Paths}
    BY DEF Init
  <2>2. PICK k \in Workers, p \in Paths : t = Task(k, p, config[k][p])
    BY <2>1
  <2>3. t.heard = TRUE
    BY <2>2, TaskHeard, Zenon
  <2> QED
    BY <2>3, Zenon
<1> QED
  BY <1>1, <1>3, <1>5, <1>6 DEF MountsInv

\* Nobody is cut off who does not run at a path that was dropped.
LEMMA HeardKept ==
  ASSUME MountsInv, NEW gone, tasks' = Unheard(tasks, gone), torn' = torn,
         ~torn => \A t \in tasks : t.path \notin gone
  PROVE  TasksHeard'
<1> SUFFICES ASSUME ~torn, NEW u \in tasks' PROVE u.heard
  BY Zenon DEF TasksHeard
<1>1. PICK t \in tasks : u = [t EXCEPT !.heard = t.heard /\ t.path \notin gone]
  BY Zenon DEF Unheard
<1>2. t \in TaskSet /\ t.heard /\ t.path \notin gone
  BY Zenon DEF MountsInv, ApplyInv, TypeOK, TasksHeard
<1>3. u.heard = (t.heard /\ t.path \notin gone)
  <2> DEFINE h == t.heard /\ t.path \notin gone
  <2>1. u = [t EXCEPT !.heard = h]
    BY <1>1, Zenon
  <2> HIDE DEF h
  <2>2. u.heard = h
    BY <1>2, <2>1 DEF TaskSet
  <2> QED
    BY <2>2, Zenon DEF h
<1> QED
  BY <1>2, <1>3, Zenon

LEMMA MountsNext == ASSUME OnePlace, MountsInv, [Next]_vars PROVE MountsInv'
<1>1. ApplyInv /\ ApplyInv'
  BY NextInv DEF MountsInv
<1>2. ASSUME UNCHANGED <<config, job, mounts, handles, tasks, torn>> PROVE MountsInv'
  BY <1>1, <1>2 DEF MountsInv, MountsListed, HandlesListed, TasksHeard, Listed
<1>3. ASSUME ApplyMounts PROVE MountsInv'
  <2> DEFINE gone == Listed(config, "mounts") \ Listed(job.target, "mounts")
  <2>1. /\ job \in Jobs /\ job # None /\ job.stage = <<"mounts">> /\ config \in Config
        /\ mounts' = (mounts \cup Listed(job.target, "mounts")) \ gone
        /\ tasks' = Unheard(tasks, gone)
        /\ UNCHANGED <<config, handles, torn>>
    BY <1>1, <1>3, Zenon DEF ApplyMounts, ApplyInv, TypeOK
  <2>2. job' # None /\ job'.target = job.target /\ job'.stage = <<"autodj", "drop">>
    <3> DEFINE todo == Listed(config, "autodj") \ Listed(job.target, "autodj")
    <3>1. todo \in SUBSET Paths /\ <<"autodj", "drop">> \in Stages
      BY DEF Listed, Stages, Workers
    <3>2. job' = [job EXCEPT !.stage = <<"autodj", "drop">>, !.todo = todo]
      BY <1>3, Zenon DEF ApplyMounts
    <3> HIDE DEF todo
    <3> QED
      BY <2>1, <3>1, <3>2, Stage
  <2>3. MountsListed'
    BY <2>1, <2>2, StageFacts DEF MountsListed, Listed, Workers
  <2>4. \A p \in gone : p \in Paths /\ "mounts" \in Place[p]
    BY <2>1, PlaceOf DEF Listed, Sections
  <2> HIDE DEF gone
  <2>5. HandlesListed'
    <3> SUFFICES ASSUME ~torn, NEW k \in Workers, NEW p \in Paths, handles[k][p] # Absent
                 PROVE  p \in mounts'
      BY <2>1 DEF HandlesListed
    <3>1. k \in Place[p] /\ p \in mounts
      BY <1>1, PlaceOfHandle DEF MountsInv, HandlesListed
    <3>2. p \notin gone
      BY <2>4, <3>1 DEF OnePlace, Workers
    <3> QED
      BY <2>1, <3>1, <3>2
  <2>6. ~torn => \A t \in tasks : t.path \notin gone
    <3> SUFFICES ASSUME ~torn, NEW t \in tasks, t.path \in gone PROVE FALSE
      OBVIOUS
    <3>1. t \in TaskSet
      BY <1>1 DEF ApplyInv, TypeOK
    <3>2. t.kind # "mounts" /\ t.kind \in Workers
      BY <3>1 DEF TaskSet, Workers
    <3>3. t.phase = "awaited"
      BY <1>1, <2>4, <3>2, NobodyAt
    <3>4. Held(job, t.kind, t.path)
      BY <1>1, <3>3 DEF ApplyInv, TasksExact
    <3> QED
      BY <2>1, <3>2, <3>4, StageFacts DEF Held
  <2>7. TasksHeard'
    BY <2>1, <2>6, HeardKept
  <2> QED
    BY <1>1, <2>3, <2>5, <2>7 DEF MountsInv
<1>4. ASSUME NEW k \in Workers, NEW p \in Paths, CancelEntry(k, p) PROVE MountsInv'
  <2>1. /\ job \in Jobs /\ job # None /\ job.stage \in {<<k, "drop">>, <<k, "start">>}
        /\ job' = [job EXCEPT !.wait = p]
        /\ handles' = [handles EXCEPT ![k][p] = Absent]
        /\ UNCHANGED <<config, mounts, torn>>
    BY <1>1, <1>4, Zenon DEF CancelEntry, ApplyInv, TypeOK
  <2>2. job' # None /\ job'.target = job.target /\ job'.stage = job.stage
    BY <2>1, Wait
  <2>3. MountsListed'
    BY <2>1, <2>2, StageFacts DEF MountsInv, MountsListed, Listed
  <2>4. \A w \in Workers, q \in Paths : handles'[w][q] \in {Absent, handles[w][q]}
    BY <1>1, <2>1 DEF ApplyInv, TypeOK
  <2>5. HandlesListed'
    BY <2>1, <2>4 DEF MountsInv, HandlesListed
  <2>6. \A u \in tasks' : \E t \in tasks : u = t \/ u = [t EXCEPT !.phase = "awaited"]
    BY <1>4, Zenon DEF CancelEntry
  <2>7. \A t \in tasks : [t EXCEPT !.phase = "awaited"].heard = t.heard
    BY <1>1 DEF ApplyInv, TypeOK, TaskSet
  <2>8. TasksHeard'
    BY <2>1, <2>6, <2>7, Zenon DEF MountsInv, TasksHeard
  <2> QED
    BY <1>1, <2>3, <2>5, <2>8 DEF MountsInv
<1>5. ASSUME NEW k \in Workers, NEW p \in Paths, DropMount(k, p) PROVE MountsInv'
  <2>1. /\ job \in Jobs /\ job # None /\ job.stage = <<k, "drop">> /\ job.wait = p /\ Ended
        /\ job' = Finished(p) /\ mounts' = mounts \ {p} /\ tasks' = Unheard(tasks, {p})
        /\ config \in Config
        /\ UNCHANGED <<config, handles, torn>>
    BY <1>1, <1>5, Zenon DEF DropMount, ApplyInv, TypeOK
  <2>2. job' # None /\ job'.target = job.target /\ job'.stage = job.stage
    BY <2>1, Finish
  <2>3. k \in Place[p] /\ (~torn => handles[k][p] = Absent)
    <3>1. p \in Gone(job, k) /\ (~torn => handles[k][p] = Absent)
      BY <1>1, <2>1, HeldIsTodo
    <3> QED
      BY <2>1, <3>1, PlaceOf DEF Gone, Sections
  <2>4. p \notin Listed(job.target, "mounts")
    <3>1. job.target \in Config
      BY <2>1 DEF Jobs
    <3> QED
      BY <2>3, <3>1, PlaceOf DEF OnePlace, Workers, Sections
  <2>5. MountsListed'
    BY <2>1, <2>2, <2>4, StageFacts DEF MountsInv, MountsListed, Listed
  <2>6. HandlesListed'
    <3> SUFFICES ASSUME ~torn, NEW w \in Workers, handles[w][p] # Absent PROVE FALSE
      BY <2>1 DEF MountsInv, HandlesListed
    <3> QED
      BY <1>1, <2>3, PlaceOfHandle DEF OnePlace
  <2>7. ~torn => \A t \in tasks : t.path \notin {p}
    <3> SUFFICES ASSUME ~torn, NEW t \in tasks, t.path = p PROVE FALSE
      OBVIOUS
    <3>1. t \in TaskSet /\ t.phase # "awaited"
      BY <1>1, <2>1 DEF ApplyInv, TypeOK, Ended
    <3>2. t.kind = k
      BY <1>1, <2>3, <3>1, NobodyAt
    <3>3. t.cfg = handles[k][p] /\ t.cfg # Absent
      BY <1>1, <3>1, <3>2 DEF ApplyInv, TasksExact, TaskSet, Phases
    <3> QED
      BY <2>3, <3>3
  <2>8. TasksHeard'
    BY <2>1, <2>7, HeardKept
  <2> QED
    BY <1>1, <2>5, <2>6, <2>8 DEF MountsInv
<1>6. ASSUME NEW k \in Workers, NEW p \in Paths, StartTask(k, p) PROVE MountsInv'
  <2>1. /\ job \in Jobs /\ job # None /\ job.stage = <<k, "start">>
        /\ job' = Finished(p) /\ mounts' = mounts \cup {p}
        /\ UNCHANGED <<config, torn>>
        /\ \/ UNCHANGED <<handles, tasks>>
           \/ \E e : /\ handles' = [handles EXCEPT ![k][p] = e]
                     /\ tasks' = tasks \cup {Task(k, p, e)}
    BY <1>1, <1>6, Zenon DEF StartTask, ApplyInv, TypeOK
  <2>2. job' # None /\ job'.target = job.target /\ job'.stage = job.stage
    BY <2>1, Finish
  <2>3. MountsListed'
    BY <2>1, <2>2, StageFacts DEF MountsInv, MountsListed, Listed
  <2>4. \A w \in Workers, q \in Paths : q # p => handles'[w][q] = handles[w][q]
    BY <1>1, <2>1 DEF ApplyInv, TypeOK
  <2>5. HandlesListed'
    BY <2>1, <2>4 DEF MountsInv, HandlesListed
  <2>6. \A u \in tasks' : u \in tasks \/ \E e : u = Task(k, p, e)
    BY <2>1
  <2>7. \A e : Task(k, p, e).heard = TRUE
    BY TaskHeard, Zenon
  <2>8. ASSUME ~torn, NEW u \in tasks' PROVE u.heard
    <3>1. CASE u \in tasks
      BY <2>8, <3>1, Zenon DEF MountsInv, TasksHeard
    <3>2. CASE \E e : u = Task(k, p, e)
      <4>1. u.heard = TRUE
        BY <2>7, <3>2, Zenon
      <4> QED
        BY <4>1, Zenon
    <3> QED
      BY <2>6, <3>1, <3>2, Zenon
  <2>9. TasksHeard'
    BY <2>1, <2>8, Zenon DEF TasksHeard
  <2> QED
    BY <1>1, <2>3, <2>5, <2>9 DEF MountsInv
<1>7. ASSUME NextStage PROVE MountsInv'
  <2>1. job \in Jobs /\ UNCHANGED <<config, mounts, handles, tasks, torn>>
    BY <1>1, <1>7, Zenon DEF NextStage, ApplyInv, TypeOK
  <2>2. /\ job # None /\ job.stage # <<"mounts">>
        /\ \E stage \in Stages \ {<<"mounts">>}, todo \in SUBSET Paths :
             job' = [job EXCEPT !.stage = stage, !.todo = todo]
    BY <1>7, StageFacts DEF NextStage, Workers, Listed
  <2>3. job'.target = job.target /\ job'.stage # <<"mounts">> /\ job' # None
    BY <2>1, <2>2, Stage
  <2>4. MountsListed'
    BY <2>1, <2>2, <2>3 DEF MountsInv, MountsListed, Listed
  <2> QED
    BY <1>1, <2>1, <2>4 DEF MountsInv, HandlesListed, TasksHeard
<1>8. ASSUME Commit PROVE MountsInv'
  <2>1. /\ job # None /\ job.stage = <<"commit">> /\ config' = job.target /\ job' = None
        /\ UNCHANGED <<mounts, handles, tasks, torn>>
    BY <1>8, Zenon DEF Commit
  <2>2. MountsListed'
    BY <2>1, StageFacts DEF MountsInv, MountsListed, Listed, Workers
  <2> QED
    BY <1>1, <2>1, <2>2 DEF MountsInv, HandlesListed, TasksHeard
<1>9. ASSUME ClientGone PROVE MountsInv'
  BY <1>1, <1>9, Zenon DEF ClientGone, MountsInv, MountsListed, HandlesListed, TasksHeard
<1>10. ASSUME NEW t \in tasks, TaskEnds(t) PROVE MountsInv'
  <2>1. UNCHANGED <<config, job, mounts, handles, torn>> /\ tasks' \subseteq tasks
    BY <1>10 DEF TaskEnds
  <2> QED
    BY <1>1, <2>1 DEF MountsInv, MountsListed, HandlesListed, TasksHeard, Listed
<1>11. ASSUME NEW target, NEW who, job = None, job' = NewJob(who, target),
              UNCHANGED <<config, mounts, handles, tasks, torn>>
       PROVE  MountsInv'
  <2>1. job' = None \/ job'.stage = <<"mounts">>
    BY <1>11 DEF NewJob
  <2> QED
    BY <1>1, <1>11, <2>1 DEF MountsInv, MountsListed, HandlesListed, TasksHeard, Listed
<1>12. ASSUME NEW s \in Savers,
              PutMounts(s) \/ PutAutodjs(s) \/ PutRelays(s) \/ Persist(s) \/ GiveUp(s)
       PROVE  MountsInv'
  <2>1. CASE Persist(s)
    BY <1>11, <2>1 DEF Persist
  <2>2. CASE ~Persist(s)
    BY <1>2, <1>12, <2>2 DEF PutMounts, PutAutodjs, PutRelays, Submit, GiveUp
  <2> QED
    BY <2>1, <2>2
<1>13. ASSUME \/ \E c \in Edits : EditFile(c)
              \/ Rest \/ UNCHANGED vars
       PROVE  MountsInv'
  BY <1>2, <1>13, Zenon DEF EditFile, Rest, vars
<1>14. ASSUME Sighup PROVE MountsInv'
  BY <1>11, <1>14 DEF Sighup
<1> QED
  BY <1>3, <1>4, <1>5, <1>6, <1>7, <1>8, <1>9, <1>10, <1>12, <1>13, <1>14 DEF Next, MountsInv

\* If every path is ever listed in one section only, configured mounts and
\* those of enabled entries are registered (the three diffs of apply_config).
THEOREM MountsAreRegistered == OnePlace => (Spec => []ConfiguredIsRegistered)
<1> SUFFICES ASSUME OnePlace PROVE Spec => []ConfiguredIsRegistered
  OBVIOUS
<1>1. MountsInv => ConfiguredIsRegistered
  <2> SUFFICES ASSUME MountsInv, Settled
               PROVE  /\ Listed(config, "mounts") \subseteq mounts
                      /\ \A k \in Workers, p \in Paths : Enabled(config[k][p]) => p \in mounts
    BY DEF ConfiguredIsRegistered
  <2>1. job = None /\ ~torn
    BY Zenon DEF Settled
  <2>2. Listed(config, "mounts") \subseteq mounts
    BY <2>1 DEF MountsInv, MountsListed
  <2>3. \A k \in Workers, p \in Paths : Expected(job, k, p) = Runs(config[k][p])
    BY <2>1 DEF Expected, Held, Swapped
  <2>4. \A k \in Workers, p \in Paths : Enabled(config[k][p]) => handles[k][p] # Absent
    BY <2>1, <2>3 DEF MountsInv, ApplyInv, HandlesExact, Runs, Enabled
  <2> QED
    BY <2>1, <2>2, <2>4 DEF MountsInv, HandlesListed
<1>2. Spec => []MountsInv
  BY MountsInit, MountsNext, PTL DEF Spec
<1> QED
  BY <1>1, <1>2, PTL

\* Under the same condition every task publishes where listeners look.
THEOREM TasksPublish == OnePlace => (Spec => []TasksAreHeard)
<1> SUFFICES ASSUME OnePlace PROVE Spec => []TasksAreHeard
  OBVIOUS
<1>1. MountsInv => TasksAreHeard
  BY Zenon DEF MountsInv, TasksHeard, TasksAreHeard, Settled
<1>2. Spec => []MountsInv
  BY MountsInit, MountsNext, PTL DEF Spec
<1> QED
  BY <1>1, <1>2, PTL

=============================================================================
