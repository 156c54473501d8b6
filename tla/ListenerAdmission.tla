------------------------- MODULE ListenerAdmission -------------------------
(***************************************************************************)
(* Who listens: the limits listener_handler checks                         *)
(* (rustyice-server/src/stream_router.rs), the ListenerMap of the admin    *)
(* API (rustyice-admin/src/state.rs), and the output task of every         *)
(* listener (HttpPassthroughOutput::run), from its subscription to its     *)
(* removal from the map.  A listener may be kicked by an operator or by    *)
(* the disconnect guard of its mount's source, its client may stall or go  *)
(* away at any time, and the handlers of several listeners run at once.    *)
(* What is streamed is left out (BroadcastBus, HeaderJoin): a subscription *)
(* either has a packet ready or has none.                                  *)
(***************************************************************************)
EXTENDS Naturals, FiniteSets

CONSTANTS
  Listeners,
  Mounts,     \* mounts with a live source
  MaxGlobal,  \* limits.max_listeners_global
  MaxMount    \* max_listeners of each mount

ASSUME AdmissionAssumption ==
  IsFiniteSet(Listeners) /\ {MaxGlobal, MaxMount} \subseteq Nat

VARIABLES
  pc,      \* the next statement of a listener's handler, then of its task
  tuned,   \* the mount a listener asked for
  client,  \* what its client does: "reads", "stalls", "gone"
  ready,   \* listeners whose subscription has a packet
  listed,  \* listeners in the ListenerMap
  kicked,  \* listeners whose token is cancelled
  crowded, \* listeners that were checked while another was being admitted
  on,      \* mounts whose source is connected
  drop     \* mount -> the listeners its disconnect guard has still to kick

vars == <<pc, tuned, client, ready, listed, kicked, crowded, on, drop>>

Admitting == {"mount", "subscribe", "register"}
Holding == {"register", "prefix", "wait", "write"}  \* a receiver of the bus
PCs == {"out", "leave"} \cup Admitting \cup Holding

\* MountRegistry entries are counted by their bus, all listeners by the map.
ListenerCount(m) == Cardinality({l \in Listeners : pc[l] \in Holding /\ tuned[l] = m})
TotalCount == Cardinality(listed)

Init ==
  /\ pc = [l \in Listeners |-> "out"]
  /\ tuned \in [Listeners -> Mounts]
  /\ client = [l \in Listeners |-> "reads"]
  /\ ready = {} /\ listed = {} /\ kicked = {} /\ crowded = {}
  /\ on = {}
  /\ drop = [m \in Mounts |-> {}]

Go(l, label) == pc' = [pc EXCEPT ![l] = label]

-----------------------------------------------------------------------------
(* listener_handler.  It never awaits: the steps of other handlers come    *)
(* between because they run on other worker threads.                       *)

\* Mutant of CheckGlobal: one listener too many.
CheckGlobalLate(l) ==
  /\ pc[l] = "out"
  /\ TotalCount <= MaxGlobal
  /\ Go(l, "mount")
  /\ \E m \in Mounts : tuned' = [tuned EXCEPT ![l] = m]
  /\ crowded' = IF \E k \in Listeners : pc[k] \in Admitting THEN crowded \cup {l} ELSE crowded
  /\ UNCHANGED <<client, ready, listed, kicked, on, drop>>

\* The global limit; a 503 leaves everything as it was.
CheckGlobal(l) ==
  /\ pc[l] = "out"
  /\ TotalCount < MaxGlobal
  /\ Go(l, "mount")
  /\ \E m \in Mounts : tuned' = [tuned EXCEPT ![l] = m]
  /\ crowded' = IF \E k \in Listeners : pc[k] \in Admitting THEN crowded \cup {l} ELSE crowded
  /\ UNCHANGED <<client, ready, listed, kicked, on, drop>>

\* The limit of the mount.
CheckMount(l) ==
  /\ pc[l] = "mount"
  /\ IF ListenerCount(tuned[l]) < MaxMount
     THEN Go(l, "subscribe") /\ UNCHANGED crowded
     ELSE Go(l, "out") /\ crowded' = crowded \ {l}
  /\ UNCHANGED <<tuned, client, ready, listed, kicked, on, drop>>

\* The receiver counts from here, and the burst may be ready at once.
Subscribe(l) ==
  /\ pc[l] = "subscribe"
  /\ Go(l, "register")
  /\ ready' \in {ready, ready \cup {l}}
  /\ UNCHANGED <<tuned, client, listed, kicked, crowded, on, drop>>

\* The entry with its token; the task is spawned and writes header pages
\* first when the mount has any.
Register(l) ==
  /\ pc[l] = "register"
  /\ listed' = listed \cup {l}
  /\ \E label \in {"prefix", "wait"} : Go(l, label)
  /\ UNCHANGED <<tuned, client, ready, kicked, crowded, on, drop>>

-----------------------------------------------------------------------------
(* The output task.                                                        *)

Ends(l) ==
  /\ Go(l, "leave")
  /\ ready' = ready \ {l}
  /\ client' = [client EXCEPT ![l] = "reads"]
  /\ UNCHANGED <<tuned, listed, kicked, crowded, on, drop>>

\* Mutant of WriteThen: a failed write is not looked at.
WriteUnchecked(l, label) ==
  /\ client[l] # "stalls"
  /\ Go(l, label)
  /\ UNCHANGED <<tuned, client, ready, listed, kicked, crowded, on, drop>>

\* A write into the connection: it waits while the client stalls, and ends
\* the task when the client is gone.
WriteThen(l, label) ==
  \/ client[l] = "gone" /\ Ends(l)
  \/ /\ client[l] = "reads"
     /\ Go(l, label)
     /\ UNCHANGED <<tuned, client, ready, listed, kicked, crowded, on, drop>>

WritePrefix(l) == pc[l] = "prefix" /\ WriteThen(l, "wait")

WritePacket(l) == pc[l] = "write" /\ WriteThen(l, "wait")

\* Mutant of Receive: the select is not biased towards cancellation.
ReceiveUnbiased(l) ==
  /\ pc[l] = "wait" /\ l \in ready
  /\ Go(l, "write")
  /\ ready' \in {ready, ready \ {l}}
  /\ UNCHANGED <<tuned, client, listed, kicked, crowded, on, drop>>

\* The select is biased: a cancelled listener takes no further packet.
Receive(l) ==
  /\ pc[l] = "wait" /\ l \in ready \ kicked
  /\ Go(l, "write")
  /\ ready' \in {ready, ready \ {l}}
  /\ UNCHANGED <<tuned, client, listed, kicked, crowded, on, drop>>

Cancelled(l) == pc[l] = "wait" /\ l \in kicked /\ Ends(l)

\* The entry goes, and its token; the next listener has another id, so what
\* a guard still has on its list finds nobody.
Deregister(l) ==
  /\ pc[l] = "leave"
  /\ listed' = listed \ {l}
  /\ kicked' = kicked \ {l} /\ crowded' = crowded \ {l}
  /\ drop' = [m \in Mounts |-> drop[m] \ {l}]
  /\ Go(l, "out")
  /\ UNCHANGED <<tuned, client, ready, on>>

-----------------------------------------------------------------------------
(* Sources, operators, clients.                                            *)

SourceConnects(m) ==
  /\ m \notin on
  /\ on' = on \cup {m}
  /\ UNCHANGED <<pc, tuned, client, ready, listed, kicked, crowded, drop>>

Publish(m) ==
  /\ m \in on
  /\ ready' = ready \cup {l \in Listeners : pc[l] \in Holding /\ tuned[l] = m}
  /\ UNCHANGED <<pc, tuned, client, listed, kicked, crowded, on, drop>>

\* SourceDisconnectGuard::drop: the ids are copied first, then kicked one
\* after the other.
SourceGone(m) ==
  /\ m \in on
  /\ drop[m] = {}
  /\ on' = on \ {m}
  /\ drop' = [drop EXCEPT ![m] = {l \in listed : tuned[l] = m}]
  /\ UNCHANGED <<pc, tuned, client, ready, listed, kicked, crowded>>

\* Mutant of GuardKick: the entry is forgotten, its token is not cancelled.
GuardForgets(m) ==
  \E l \in drop[m] :
    /\ drop' = [drop EXCEPT ![m] = @ \ {l}]
    /\ UNCHANGED <<pc, tuned, client, ready, listed, kicked, crowded, on>>

GuardKick(m) ==
  \E l \in drop[m] :
    /\ kicked' = kicked \cup {l}
    /\ drop' = [drop EXCEPT ![m] = @ \ {l}]
    /\ UNCHANGED <<pc, tuned, client, ready, listed, crowded, on>>

\* kick_listener; an id that is not listed is a 404.
KickListener(l) ==
  /\ l \in listed
  /\ kicked' = kicked \cup {l}
  /\ UNCHANGED <<pc, tuned, client, ready, listed, crowded, on, drop>>

\* A client that is gone stays gone.
ClientDoes(l, what) ==
  /\ pc[l] \in {"prefix", "wait", "write"}
  /\ client[l] # "gone"
  /\ client' = [client EXCEPT ![l] = what]
  /\ UNCHANGED <<pc, tuned, ready, listed, kicked, crowded, on, drop>>

HandlerStep(l) == CheckMount(l) \/ Subscribe(l) \/ Register(l)

TaskStep(l) ==
  WritePrefix(l) \/ Receive(l) \/ WritePacket(l) \/ Cancelled(l) \/ Deregister(l)

Next ==
  \/ \E l \in Listeners :
       \/ CheckGlobal(l) \/ HandlerStep(l) \/ TaskStep(l) \/ KickListener(l)
       \/ \E what \in {"reads", "stalls", "gone"} : ClientDoes(l, what)
  \/ \E m \in Mounts : SourceConnects(m) \/ Publish(m) \/ SourceGone(m) \/ GuardKick(m)

\* The runtime polls what can make progress: handlers and guards, which do
\* not await, and tasks.  A connected source keeps publishing.
Fairness ==
  /\ \A l \in Listeners : WF_vars(HandlerStep(l)) /\ WF_vars(TaskStep(l))
  /\ \A m \in Mounts : WF_vars(GuardKick(m)) /\ WF_vars(Publish(m))

SafetySpec == Init /\ [][Next]_vars
Spec == SafetySpec /\ Fairness

-----------------------------------------------------------------------------
(* Properties.                                                             *)

\* Type correctness; a listed listener has a task, a token cancelled before
\* that is none.
TypeOK ==
  /\ pc \in [Listeners -> PCs]
  /\ tuned \in [Listeners -> Mounts]
  /\ client \in [Listeners -> {"reads", "stalls", "gone"}]
  /\ ready \cup crowded \subseteq Listeners
  /\ listed = {l \in Listeners : pc[l] \in {"prefix", "wait", "write", "leave"}}
  /\ kicked \subseteq listed
  /\ on \subseteq Mounts
  /\ drop \in [Mounts -> SUBSET listed]

\* "Hard cap on concurrent listeners": the limits are checked long before a
\* listener counts against them, and are passed only by as many listeners as
\* were checked while another was being admitted.
CapsHoldUpToRaces ==
  /\ TotalCount <= MaxGlobal + Cardinality(listed \cap crowded)
  /\ \A m \in Mounts :
       ListenerCount(m) <= MaxMount +
         Cardinality({l \in crowded : pc[l] \in Holding /\ tuned[l] = m})

\* A kick ends the output task and takes the listener off the map, unless
\* its client stalls: the write in hand does not look at the token.
KickedLeaves ==
  \A l \in Listeners : l \in kicked ~> (l \notin kicked \/ client[l] = "stalls")

\* When a source disconnects, every listener its guard found leaves (or
\* stalls): the guard reaches the whole of its list.
DropEndsListeners ==
  \A l \in Listeners, m \in Mounts :
    l \in drop[m] ~> (pc[l] = "out" \/ client[l] = "stalls")

\* A listener whose client is gone gives its place back as long as the mount
\* has a source: the next write finds out.
GoneLeaves ==
  \A l \in Listeners :
    client[l] = "gone" ~> (pc[l] = "out" \/ tuned[l] \notin on)
=============================================================================
