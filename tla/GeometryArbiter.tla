--------------------------- MODULE GeometryArbiter ---------------------------
(***************************************************************************)
(* Who decides the size of a shared terminal.                              *)
(*                                                                         *)
(* One terminal of the desktop server is watched by several local          *)
(* websockets: command line clients ("system" viewers) and the desktop app *)
(* ("desktop" viewers).  Viewers of a kind share one lease, numbered by an *)
(* epoch that every attach increases.  The arbiter                         *)
(* (app/terminal/geometry_arbiter.rs) lets the system lease win over the   *)
(* desktop lease and that over the default size, and numbers each geometry *)
(* it decides on.                                                          *)
(*                                                                         *)
(* The decision is taken under the metadata lock of the terminal; the lock *)
(* is released before the PTY is resized and the change published, so two  *)
(* sockets, each served by a task of its own, may carry out their decisions*)
(* in another order than they were taken in.  A socket that is lost is     *)
(* forgotten by a task that sleeps first, in case its client comes back.   *)
(*                                                                         *)
(* The terminal lives throughout.  Viewers of the kinds mobile and unknown *)
(* take no part in the arbitration (every operation is a no-op for them),  *)
(* and no terminal the program creates has a host size, so neither is here.*)
(* A socket's client sends one kind only, so the branch of the attach      *)
(* handler for a socket that changes its kind is not reachable.            *)
(***************************************************************************)
EXTENDS Integers, Sequences

CONSTANTS
  CliSockets,     \* local websockets opened by sirix and sirix-terminal
  AppSockets,     \* local websockets opened, one after another, by the app
  Sizes,          \* sizes a viewer may report
  DefaultSize,    \* the size the terminal is created with
  NoSize,         \* a viewer that has not reported a size (None)
  MaxEpoch,       \* bound on attaches of a kind
  MaxInbox,       \* bound on messages a client has sent and the server not read
  MaxGeneration   \* no window changes after that many geometries

ASSUME SizesAssumption == NoSize \notin Sizes \cup {DefaultSize}
ASSUME SocketsAssumption == CliSockets \cap AppSockets = {}
ASSUME BoundsAssumption ==
  MaxEpoch \in Nat /\ MaxInbox \in Nat /\ MaxGeneration \in Nat

Sockets == CliSockets \cup AppSockets
KindOf(s) == IF s \in CliSockets THEN "system" ELSE "desktop"
Kinds == {"system", "desktop"}
Sources == Kinds \cup {"default"}

(* Epochs start with 1; 0 stands for a message without an epoch (None), and *)
(* for a socket that attached_viewers does not hold.                        *)
Epochs == 0 .. MaxEpoch

VARIABLES
  lease,      \* the arbiter's two ViewerLeaseStates
  geometry,   \* effective_size, authority_source, geometry_generation
  pty,        \* the size the PTY was last set to
  published,  \* the last terminal.geometry.changed event
  job,        \* per socket, the decided update its task is carrying out
  viewer,     \* per socket, the epoch attached_viewers holds
  conn,       \* per socket, where the server's task is
  inbox,      \* per socket, messages sent and not yet handled
  replies,    \* per socket, epochs on their way back in terminal.ready
  client,     \* per socket, where its client is
  known,      \* per socket, viewer_presence_epoch at the client
  seen        \* the authority_source the app last saw published

arbiter == <<lease, geometry>>
clients == <<client, known, seen>>
vars == <<lease, geometry, pty, published, job, viewer, conn, inbox, replies,
          client, known, seen>>

Geometry == [size : Sizes \cup {DefaultSize}, source : Sources,
             generation : Nat]
Lease == [attached : BOOLEAN, size : Sizes \cup {NoSize}, epoch : Epochs]

(* A decided update that is still to be applied to the PTY, or only to be   *)
(* published.                                                               *)
Update == [stage : {"apply", "publish"}, to : Geometry]
NoUpdate == [stage |-> "none"]

Message == [op : {"attach"}, reply : BOOLEAN]
      \cup [op : {"resize"}, size : Sizes, epoch : Epochs]
      \cup [op : {"detach"}, epoch : Epochs]

TypeOK ==
  /\ lease \in [Kinds -> Lease]
  /\ geometry \in Geometry
  /\ pty \in Sizes \cup {DefaultSize}
  /\ published \in Geometry
  /\ job \in [Sockets -> Update \cup {NoUpdate}]
  /\ viewer \in [Sockets -> Epochs]
  /\ conn \in [Sockets -> {"none", "serving", "leaving", "gone"}]
  /\ inbox \in [Sockets -> Seq(Message)]
  /\ replies \in [Sockets -> Seq(Epochs)]
  /\ client \in [Sockets -> {"new", "open", "closed"}]
  /\ known \in [Sockets -> Epochs]
  /\ seen \in Sources

-----------------------------------------------------------------------------
(* The arbiter.                                                             *)

NoLease == [attached |-> FALSE, size |-> NoSize, epoch |-> 0]
CreatedGeometry ==
  [size |-> DefaultSize, source |-> "default", generation |-> 0]

SizeOf(l) == IF l.size = NoSize THEN DefaultSize ELSE l.size

(* The viewer whose size counts, for given leases.                          *)
Authority(ls) ==
  IF ls["system"].attached THEN "system"
  ELSE IF ls["desktop"].attached THEN "desktop"
  ELSE "default"

AuthoritySize(ls) ==
  IF Authority(ls) = "default" THEN DefaultSize ELSE SizeOf(ls[Authority(ls)])

(* Mutant: the desktop app's size is preferred to the system terminal's. *)
RecomputeDesktopFirst(s, ls) ==
  LET source == IF ls["desktop"].attached THEN "desktop" ELSE Authority(ls)
      to == [size |-> IF source = "default" THEN DefaultSize
                      ELSE SizeOf(ls[source]),
             source |-> source, generation |-> geometry.generation + 1] IN
  /\ lease' = ls
  /\ geometry' = to
  /\ job' = [job EXCEPT ![s] = [stage |-> "apply", to |-> to]]

(* Mutant: a change of the authority alone keeps the generation. *)
RecomputeSizeOnly(s, ls) ==
  LET to == [size |-> AuthoritySize(ls), source |-> Authority(ls),
             generation |-> IF AuthoritySize(ls) = geometry.size
                            THEN geometry.generation
                            ELSE geometry.generation + 1] IN
  /\ lease' = ls
  /\ IF to = geometry
     THEN UNCHANGED <<geometry, job>>
     ELSE /\ geometry' = to
          /\ job' = [job EXCEPT ![s] = [stage |-> "apply", to |-> to]]

(* recompute(): adopt the geometry the leases ask for, under the next       *)
(* generation if it differs, and hand the task of s the update to carry out.*)
(* The PTY is to be resized only if the effective size changed.             *)
Recompute(s, ls) ==
  LET to == [size |-> AuthoritySize(ls), source |-> Authority(ls),
             generation |-> geometry.generation + 1] IN
  /\ lease' = ls
  /\ IF to.size = geometry.size /\ to.source = geometry.source
     THEN UNCHANGED <<geometry, job>>
     ELSE /\ geometry' = to
          /\ job' = [job EXCEPT ![s] =
                [stage |-> IF to.size = geometry.size THEN "publish" ELSE "apply",
                 to |-> to]]

(* An operation with epoch e is current for kind k.                         *)
Current(k, e) == e \in {0, lease[k].epoch}

(* unregister_viewer_if_epoch, up to the point where the lock is released.  *)
Unregister(s, e) ==
  LET k == KindOf(s) IN
  IF Current(k, e)
  THEN Recompute(s, [lease EXCEPT ![k] = [attached |-> FALSE, size |-> NoSize,
                                          epoch |-> @.epoch]])
  ELSE UNCHANGED <<arbiter, job>>

-----------------------------------------------------------------------------
(* The server's task of a socket.  It handles one message at a time and     *)
(* carries out the update of a message before it reads the next.            *)

Reading(s) == conn[s] = "serving" /\ job[s] = NoUpdate
Receive(s, op) ==
  /\ Reading(s)
  /\ inbox[s] # <<>> /\ Head(inbox[s]).op = op
  /\ inbox' = [inbox EXCEPT ![s] = Tail(@)]

(* An attach takes over the lease of its kind without recomputing.  A       *)
(* command line client's attach is answered with terminal.ready; the app's  *)
(* is not (authority protocol), only the bootstrap it asks for next is.     *)
HandleAttach(s) ==
  LET k == KindOf(s)  epoch == lease[k].epoch + 1 IN
  /\ Receive(s, "attach")
  /\ epoch <= MaxEpoch
  /\ lease' = [lease EXCEPT ![k].attached = TRUE, ![k].epoch = epoch]
  /\ viewer' = [viewer EXCEPT ![s] = epoch]
  /\ replies' = IF Head(inbox[s]).reply
                THEN [replies EXCEPT ![s] = Append(@, epoch)] ELSE replies
  /\ UNCHANGED <<geometry, pty, published, job, conn, clients>>

HandleResize(s) ==
  LET k == KindOf(s)  m == Head(inbox[s]) IN
  /\ Receive(s, "resize")
  /\ IF Current(k, m.epoch)
     THEN Recompute(s, [lease EXCEPT ![k].attached = TRUE, ![k].size = m.size])
     ELSE UNCHANGED <<arbiter, job>>
  /\ UNCHANGED <<pty, published, viewer, conn, replies, clients>>

HandleDetach(s) ==
  /\ Receive(s, "detach")
  /\ Unregister(s, Head(inbox[s]).epoch)
  /\ viewer' = [viewer EXCEPT ![s] = 0]
  /\ UNCHANGED <<pty, published, conn, replies, clients>>

(* apply_geometry_update and resize_internal.                               *)
Apply(s) ==
  /\ job[s].stage = "apply"
  /\ pty' = job[s].to.size
  /\ job' = [job EXCEPT ![s].stage = "publish"]
  /\ UNCHANGED <<arbiter, published, viewer, conn, inbox, replies, clients>>

Publish(s) ==
  /\ job[s].stage = "publish"
  /\ published' = job[s].to
  /\ job' = [job EXCEPT ![s] = NoUpdate]
  /\ UNCHANGED <<arbiter, pty, viewer, conn, inbox, replies, clients>>

(* The loop ends when the client is gone; what it had sent may be lost.  A  *)
(* socket that still is a viewer is forgotten later, by a task of its own.  *)
Leave(s) ==
  /\ Reading(s)
  /\ client[s] = "closed"
  /\ conn' = [conn EXCEPT ![s] = IF viewer[s] = 0 THEN "gone" ELSE "leaving"]
  /\ inbox' = [inbox EXCEPT ![s] = <<>>]
  /\ UNCHANGED <<arbiter, pty, published, job, viewer, replies, clients>>

(* Mutant: the cleanup forgets the viewer whatever attached since. *)
CleanupUnconditionally(s) ==
  /\ conn[s] = "leaving"
  /\ conn' = [conn EXCEPT ![s] = "gone"]
  /\ Unregister(s, 0)
  /\ UNCHANGED <<pty, published, viewer, inbox, replies, clients>>

Cleanup(s) ==
  /\ conn[s] = "leaving"
  /\ conn' = [conn EXCEPT ![s] = "gone"]
  /\ Unregister(s, viewer[s])
  /\ UNCHANGED <<pty, published, viewer, inbox, replies, clients>>

-----------------------------------------------------------------------------
(* The clients.                                                             *)

Send(s, m) ==
  /\ client[s] = "open"
  /\ Len(inbox[s]) < MaxInbox
  /\ inbox' = [inbox EXCEPT ![s] = Append(@, m)]

(* sirix and sirix-terminal attach and at once report their size, without   *)
(* an epoch.                                                                *)
OpenCli(s) ==
  /\ s \in CliSockets /\ client[s] = "new"
  /\ client' = [client EXCEPT ![s] = "open"]
  /\ conn' = [conn EXCEPT ![s] = "serving"]
  /\ \E size \in Sizes :
       inbox' = [inbox EXCEPT ![s] =
         << [op |-> "attach", reply |-> TRUE],
            [op |-> "resize", size |-> size, epoch |-> 0] >>]
  /\ UNCHANGED <<arbiter, pty, published, job, viewer, replies, known, seen>>

(* The app has one socket at a time.  Across sockets it remembers the epoch *)
(* it was last told, unless it was restarted.                               *)
OpenApp(s) ==
  /\ s \in AppSockets /\ client[s] = "new"
  /\ \A t \in AppSockets : client[t] # "open"
  /\ client' = [client EXCEPT ![s] = "open"]
  /\ conn' = [conn EXCEPT ![s] = "serving"]
  /\ \E e \in {0} \cup {known[t] : t \in {u \in AppSockets : client[u] = "closed"}} :
       known' = [known EXCEPT ![s] = e]
  /\ inbox' = [inbox EXCEPT ![s] = << [op |-> "attach", reply |-> TRUE] >>]
  /\ UNCHANGED <<arbiter, pty, published, job, viewer, replies, seen>>

(* The app attaches again when its user comes back to the terminal, then it *)
(* asks for a bootstrap, whose terminal.ready has the epoch; and as a retry,*)
(* which the server does not answer.                                        *)
Reattach(s) ==
  /\ s \in AppSockets
  /\ \E r \in BOOLEAN : Send(s, [op |-> "attach", reply |-> r])
  /\ UNCHANGED <<arbiter, pty, published, job, viewer, conn, replies, clients>>

(* The window of a client changes.  The app leaves the PTY alone while it   *)
(* sees the system terminal in authority.                                   *)
Resize(s) ==
  /\ s \in AppSockets => seen # "system"
  /\ geometry.generation < MaxGeneration
  /\ \E size \in Sizes :
       Send(s, [op |-> "resize", size |-> size, epoch |-> known[s]])
  /\ UNCHANGED <<arbiter, pty, published, job, viewer, conn, replies, clients>>

Learn(s) ==
  /\ client[s] = "open" /\ replies[s] # <<>>
  /\ known' = [known EXCEPT ![s] = Head(replies[s])]
  /\ replies' = [replies EXCEPT ![s] = Tail(@)]
  /\ UNCHANGED <<arbiter, pty, published, job, viewer, conn, inbox, client, seen>>

See ==
  /\ seen # published.source
  /\ seen' = published.source
  /\ UNCHANGED <<arbiter, pty, published, job, viewer, conn, inbox, replies,
                 client, known>>

(* A client that ends in order detaches first; sirix only after it saw      *)
(* terminal.ready.                                                          *)
Quit(s) ==
  /\ s \in CliSockets => known[s] # 0
  /\ Send(s, [op |-> "detach", epoch |-> known[s]])
  /\ client' = [client EXCEPT ![s] = "closed"]
  /\ UNCHANGED <<arbiter, pty, published, job, viewer, conn, replies, known, seen>>

Drop(s) ==
  /\ client[s] = "open"
  /\ client' = [client EXCEPT ![s] = "closed"]
  /\ UNCHANGED <<arbiter, pty, published, job, viewer, conn, inbox, replies,
                 known, seen>>

-----------------------------------------------------------------------------
Init ==
  /\ lease = [k \in Kinds |-> NoLease]
  /\ geometry = CreatedGeometry
  /\ pty = DefaultSize
  /\ published = CreatedGeometry
  /\ job = [s \in Sockets |-> NoUpdate]
  /\ viewer = [s \in Sockets |-> 0]
  /\ conn = [s \in Sockets |-> "none"]
  /\ inbox = [s \in Sockets |-> <<>>]
  /\ replies = [s \in Sockets |-> <<>>]
  /\ client = [s \in Sockets |-> "new"]
  /\ known = [s \in Sockets |-> 0]
  /\ seen = "default"

Server(s) ==
  \/ HandleAttach(s) \/ HandleResize(s) \/ HandleDetach(s)
  \/ Apply(s) \/ Publish(s)
  \/ Leave(s) \/ Cleanup(s)

Client(s) ==
  \/ OpenCli(s) \/ OpenApp(s)
  \/ Reattach(s) \/ Resize(s) \/ Learn(s)
  \/ Quit(s) \/ Drop(s)

Next == See \/ \E s \in Sockets : Server(s) \/ Client(s)

Spec == Init /\ [][Next]_vars

-----------------------------------------------------------------------------
(* Properties.                                                              *)

(* A viewer that has reported a size while it holds its lease is in         *)
(* authority unless a viewer of a higher kind is attached, and then it is   *)
(* its last reported size that is effective: no sequence of attaches,       *)
(* resizes, detaches and cleanups leaves recompute() behind the leases.     *)
AuthorityOrder ==
  LET reported(k) == lease[k].attached /\ lease[k].size # NoSize IN
  /\ reported("system") =>
       geometry.source = "system" /\ geometry.size = lease["system"].size
  /\ reported("desktop") /\ ~lease["system"].attached =>
       geometry.source = "desktop" /\ geometry.size = lease["desktop"].size
  /\ geometry.source # "default" => lease[geometry.source].attached

(* The generation identifies a geometry: whatever is still being carried    *)
(* out or was published under the current generation is the effective       *)
(* geometry, no two tasks carry out the same generation, and none is ahead  *)
(* of the arbiter.                                                          *)
Underway(s) == job[s] # NoUpdate
OneGeometryPerGeneration ==
  /\ \A s \in Sockets : Underway(s) =>
       /\ job[s].to.generation <= geometry.generation
       /\ job[s].to.generation = geometry.generation => job[s].to = geometry
       /\ job[s].to.generation # published.generation
  /\ published.generation <= geometry.generation
  /\ published.generation = geometry.generation => published = geometry
  /\ \A s, t \in Sockets :
       s # t /\ Underway(s) /\ Underway(t) =>
         job[s].to.generation # job[t].to.generation

(* A viewer that came back within the debounce keeps its lease: neither the *)
(* cleanup of a lost socket nor a command line client's detach ever takes   *)
(* the lease from the system viewer that attached last.                     *)
NewestKeepsLease ==
  \A s \in CliSockets :
    conn[s] \in {"serving", "leaving"} /\ viewer[s] # 0
      /\ viewer[s] = lease["system"].epoch
    => lease["system"].attached

(* When every decided update has been carried out, the PTY has the size of  *)
(* the viewer in authority.                                                 *)
PtyHasAuthoritySize ==
  (\A s \in Sockets : ~Underway(s)) => pty = geometry.size

(* A lease is held only while a socket of its kind is there to hold it: the *)
(* cleanup after a disconnect always gives the authority back.              *)
LeaseHasASocket ==
  \A k \in Kinds : lease[k].attached =>
    \E s \in Sockets : KindOf(s) = k /\ conn[s] \in {"serving", "leaving"}
=============================================================================
