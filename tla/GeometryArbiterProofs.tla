------------------------ MODULE GeometryArbiterProofs ------------------------
(***************************************************************************)
(* Proofs about GeometryArbiter, for any set of sockets and any sizes.     *)
(*                                                                         *)
(* AuthorityOrder needs that a lease without a viewer has forgotten its    *)
(* size (an attach may then revive it without recomputing).  That the      *)
(* newest command line viewer keeps its lease rests on whom an epoch       *)
(* belongs to: an epoch that a client knows, is being told, or put into a  *)
(* message is no other socket's entry of attached_viewers.                 *)
(***************************************************************************)
EXTENDS GeometryArbiter, TLAPS

(* A lease without a viewer has no size. *)
FreeLeaseHasNoSize ==
  \A k \in Kinds : ~lease[k].attached => lease[k].size = NoSize

Authorities == AuthorityOrder /\ FreeLeaseHasNoSize

(* Epoch e was given to socket s, if it was given to any socket. *)
Owned(s, e) ==
  e # 0 => /\ e <= lease["system"].epoch
           /\ \A t \in CliSockets \ {s} : viewer[t] # e

MessageOwned(s, m) ==
  m.op # "attach" => /\ Owned(s, m.epoch)
                     /\ m.op = "detach" => m.epoch # 0

SocketOwned(s) ==
  /\ Owned(s, viewer[s])
  /\ Owned(s, known[s])
  /\ \A i \in 1 .. Len(replies[s]) : Owned(s, replies[s][i])
  /\ \A i \in 1 .. Len(inbox[s]) : MessageOwned(s, inbox[s][i])

EpochsOwned == \A s \in CliSockets : SocketOwned(s)

(* A socket waiting to be cleaned up is a viewer. *)
LeavingIsViewer ==
  \A s \in CliSockets : conn[s] = "leaving" => viewer[s] # 0

(* A socket waiting to be cleaned up has carried out its last update. *)
LeavingIsIdle == \A s \in Sockets : conn[s] = "leaving" => job[s] = NoUpdate

Generations == OneGeometryPerGeneration /\ LeavingIsIdle

(* A socket that was never opened is no viewer. *)
FreshSocket ==
  \A s \in CliSockets : client[s] = "new" => conn[s] = "none" /\ viewer[s] = 0

Ownership ==
  NewestKeepsLease /\ EpochsOwned /\ LeavingIsViewer /\ FreshSocket

USE SizesAssumption, SocketsAssumption, BoundsAssumption

-----------------------------------------------------------------------------
(* Type correctness.                                                        *)

LEMMA KindType == ASSUME NEW s \in Sockets PROVE KindOf(s) \in Kinds
BY DEF KindOf, Kinds

LEMMA MessageParts ==
  ASSUME NEW m \in Message
  PROVE  /\ m.op = "resize" => m.size \in Sizes /\ m.epoch \in Epochs
         /\ m.op = "detach" => m.epoch \in Epochs
BY DEF Message

(* The leases after a resize. *)
LEMMA ResizedLease ==
  ASSUME lease \in [Kinds -> Lease], NEW k \in Kinds, NEW size \in Sizes
  PROVE  [lease EXCEPT ![k].attached = TRUE, ![k].size = size] \in [Kinds -> Lease]
<1>1. [lease[k] EXCEPT !.attached = TRUE, !.size = size] \in Lease
  BY DEF Lease
<1>2. [lease EXCEPT ![k].attached = TRUE, ![k].size = size]
        = [lease EXCEPT ![k] = [lease[k] EXCEPT !.attached = TRUE, !.size = size]]
  OBVIOUS
<1>3. QED
  BY <1>1, <1>2

(* The geometry any two leases ask for is one of the model's. *)
LEMMA RecomputedType ==
  ASSUME NEW ls \in [Kinds -> Lease]
  PROVE  /\ AuthoritySize(ls) \in Sizes \cup {DefaultSize}
         /\ Authority(ls) \in Sources
BY DEF AuthoritySize, Authority, SizeOf, Lease, Kinds, Sources

LEMMA RecomputeType ==
  ASSUME TypeOK, NEW s \in Sockets, NEW ls \in [Kinds -> Lease], Recompute(s, ls)
  PROVE  /\ lease' \in [Kinds -> Lease]
         /\ geometry' \in Geometry
         /\ job' \in [Sockets -> Update \cup {NoUpdate}]
<1> DEFINE to == [size |-> AuthoritySize(ls), source |-> Authority(ls),
                  generation |-> geometry.generation + 1]
<1>1. to \in Geometry
  BY RecomputedType DEF TypeOK, Geometry
<1>2. \A st \in {"apply", "publish"} : [stage |-> st, to |-> to] \in Update
  BY <1>1 DEF Update
<1>3. /\ geometry \in Geometry
      /\ job \in [Sockets -> Update \cup {NoUpdate}]
  BY DEF TypeOK
<1>4. /\ lease' = ls
      /\ geometry' \in {geometry, to}
      /\ \/ job' = job
         \/ \E st \in {"apply", "publish"} : job' = [job EXCEPT ![s] = [stage |-> st, to |-> to]]
  BY DEF Recompute
<1> HIDE DEF to
<1>5. QED
  BY <1>1, <1>2, <1>3, <1>4

LEMMA UnregisterType ==
  ASSUME TypeOK, NEW s \in Sockets, NEW e, Unregister(s, e)
  PROVE  /\ lease' \in [Kinds -> Lease]
         /\ geometry' \in Geometry
         /\ job' \in [Sockets -> Update \cup {NoUpdate}]
<1> DEFINE k == KindOf(s)
           ls == [lease EXCEPT ![k] = [attached |-> FALSE, size |-> NoSize,
                                       epoch |-> @.epoch]]
<1>1. k \in Kinds
  BY KindType
<1>2. ls \in [Kinds -> Lease]
  BY <1>1 DEF TypeOK, Lease
<1>3. CASE Current(k, e)
  <2>1. Recompute(s, ls)
    BY <1>3 DEF Unregister
  <2>2. QED
    BY <1>2, <2>1, RecomputeType
<1>4. CASE ~Current(k, e)
  BY <1>4 DEF Unregister, TypeOK, arbiter
<1>5. QED
  BY <1>3, <1>4

LEMMA ReceiveType ==
  ASSUME TypeOK, NEW s \in Sockets, NEW op, Receive(s, op)
  PROVE  /\ inbox' \in [Sockets -> Seq(Message)]
         /\ Head(inbox[s]) \in Message
         /\ Head(inbox[s]).op = op
<1>1. inbox[s] \in Seq(Message) /\ inbox[s] # <<>>
  BY DEF TypeOK, Receive
<1>2. Head(inbox[s]) \in Message /\ Tail(inbox[s]) \in Seq(Message)
  BY <1>1
<1>3. QED
  BY <1>2 DEF Receive, TypeOK

LEMMA SendType ==
  ASSUME TypeOK, NEW s \in Sockets, NEW mm \in Message, Send(s, mm)
  PROVE  inbox' \in [Sockets -> Seq(Message)]
<1>1. inbox[s] \in Seq(Message)
  BY DEF TypeOK
<1>2. Append(inbox[s], mm) \in Seq(Message)
  BY <1>1
<1>3. QED
  BY <1>2 DEF Send, TypeOK

LEMMA TypeInit == Init => TypeOK
<1>1. <<>> \in Seq(Message) /\ <<>> \in Seq(Epochs)
  OBVIOUS
<1>2. QED
  BY <1>1 DEF Init, TypeOK, Lease, NoLease, Geometry, CreatedGeometry, Update,
              NoUpdate, Epochs, Sources, Kinds

LEMMA TypeStep == TypeOK /\ [Next]_vars => TypeOK'
<1> SUFFICES ASSUME TypeOK, [Next]_vars PROVE TypeOK'
  OBVIOUS
<1>1. CASE UNCHANGED vars
  BY <1>1 DEF vars, TypeOK
<1>2. CASE See
  BY <1>2 DEF See, TypeOK, arbiter, Geometry
<1>3. ASSUME NEW s \in Sockets, HandleAttach(s) PROVE TypeOK'
  <2> DEFINE k == KindOf(s)
             epoch == lease[k].epoch + 1
  <2>1. k \in Kinds /\ epoch \in Epochs
    BY <1>3, KindType DEF HandleAttach, TypeOK, Lease, Epochs
  <2>2. lease' \in [Kinds -> Lease]
    <3>1. lease \in [Kinds -> Lease] /\ lease[k] \in Lease
      BY <2>1 DEF TypeOK
    <3>2. [lease[k] EXCEPT !.attached = TRUE] \in Lease
      BY <3>1 DEF Lease
    <3>3. [[lease[k] EXCEPT !.attached = TRUE] EXCEPT !.epoch = epoch] \in Lease
      BY <2>1, <3>2 DEF Lease
    <3>4. lease' = [lease EXCEPT ![k] = [[lease[k] EXCEPT !.attached = TRUE] EXCEPT !.epoch = epoch]]
      BY <1>3, <2>1, <3>1 DEF HandleAttach
    <3> HIDE DEF epoch
    <3>5. QED
      BY <3>1, <3>3, <3>4
  <2>3. viewer' \in [Sockets -> Epochs]
    BY <1>3, <2>1 DEF HandleAttach, TypeOK
  <2>4. replies' \in [Sockets -> Seq(Epochs)]
    <3>1. replies[s] \in Seq(Epochs)
      BY DEF TypeOK
    <3>2. Append(replies[s], epoch) \in Seq(Epochs)
      BY <3>1, <2>1
    <3>3. QED
      BY <1>3, <3>2 DEF HandleAttach, TypeOK
  <2>5. inbox' \in [Sockets -> Seq(Message)]
    BY <1>3, ReceiveType DEF HandleAttach
  <2>6. QED
    BY <1>3, <2>2, <2>3, <2>4, <2>5 DEF HandleAttach, TypeOK, clients
<1>4. ASSUME NEW s \in Sockets, HandleResize(s) PROVE TypeOK'
  <2> DEFINE k == KindOf(s)
             mm == Head(inbox[s])
             ls == [lease EXCEPT ![k].attached = TRUE, ![k].size = mm.size]
  <2>1. inbox' \in [Sockets -> Seq(Message)] /\ mm \in Message /\ mm.op = "resize"
    BY <1>4, ReceiveType DEF HandleResize
  <2>2. ls \in [Kinds -> Lease]
    BY <2>1, MessageParts, KindType, ResizedLease DEF TypeOK
  <2>3. Recompute(s, ls) \/ UNCHANGED <<lease, geometry, job>>
    BY <1>4 DEF HandleResize, arbiter
  <2>4. /\ lease' \in [Kinds -> Lease]
        /\ geometry' \in Geometry
        /\ job' \in [Sockets -> Update \cup {NoUpdate}]
    BY <2>2, <2>3, RecomputeType DEF TypeOK
  <2>5. QED
    BY <1>4, <2>1, <2>4 DEF HandleResize, TypeOK, clients
<1>5. ASSUME NEW s \in Sockets, HandleDetach(s) PROVE TypeOK'
  <2>1. inbox' \in [Sockets -> Seq(Message)]
    BY <1>5, ReceiveType DEF HandleDetach
  <2>2. /\ lease' \in [Kinds -> Lease]
        /\ geometry' \in Geometry
        /\ job' \in [Sockets -> Update \cup {NoUpdate}]
    BY <1>5, UnregisterType DEF HandleDetach
  <2>3. viewer' \in [Sockets -> Epochs]
    BY <1>5 DEF HandleDetach, TypeOK, Epochs
  <2>4. QED
    BY <1>5, <2>1, <2>2, <2>3 DEF HandleDetach, TypeOK, clients
<1>6. ASSUME NEW s \in Sockets, Apply(s) \/ Publish(s) PROVE TypeOK'
  <2>1. job[s] \in Update
    BY <1>6 DEF Apply, Publish, TypeOK, NoUpdate
  <2>2. job[s].to \in Geometry /\ [job[s] EXCEPT !.stage = "publish"] \in Update
    BY <2>1 DEF Update
  <2>3. CASE Apply(s)
    BY <2>2, <2>3 DEF Apply, TypeOK, arbiter, clients, Geometry
  <2>4. CASE Publish(s)
    BY <2>2, <2>4 DEF Publish, TypeOK, arbiter, clients
  <2>5. QED
    BY <1>6, <2>3, <2>4
<1>7. ASSUME NEW s \in Sockets, Leave(s) PROVE TypeOK'
  <2>1. <<>> \in Seq(Message)
    OBVIOUS
  <2>2. QED
    BY <1>7, <2>1 DEF Leave, TypeOK, arbiter, clients
<1>8. ASSUME NEW s \in Sockets, Cleanup(s) PROVE TypeOK'
  BY <1>8, UnregisterType DEF Cleanup, TypeOK, clients
<1>9. ASSUME NEW s \in Sockets, OpenCli(s) PROVE TypeOK'
  <2>1. PICK size \in Sizes : inbox' = [inbox EXCEPT ![s] =
          << [op |-> "attach", reply |-> TRUE],
             [op |-> "resize", size |-> size, epoch |-> 0] >>]
    BY <1>9 DEF OpenCli
  <2>2. /\ [op |-> "attach", reply |-> TRUE] \in Message
        /\ [op |-> "resize", size |-> size, epoch |-> 0] \in Message
    BY DEF Message, Epochs
  <2>3. << [op |-> "attach", reply |-> TRUE],
           [op |-> "resize", size |-> size, epoch |-> 0] >> \in Seq(Message)
    BY <2>2
  <2>4. inbox' \in [Sockets -> Seq(Message)]
    BY <2>1, <2>3 DEF TypeOK
  <2>5. QED
    BY <1>9, <2>4 DEF OpenCli, TypeOK, arbiter
<1>10. ASSUME NEW s \in Sockets, OpenApp(s) PROVE TypeOK'
  <2>1. [op |-> "attach", reply |-> TRUE] \in Message
    BY DEF Message
  <2>2. << [op |-> "attach", reply |-> TRUE] >> \in Seq(Message)
    BY <2>1
  <2>3. inbox' \in [Sockets -> Seq(Message)]
    BY <1>10, <2>2 DEF OpenApp, TypeOK
  <2>4. known' \in [Sockets -> Epochs]
    BY <1>10 DEF OpenApp, TypeOK, Epochs, Sockets
  <2>5. QED
    BY <1>10, <2>3, <2>4 DEF OpenApp, TypeOK, arbiter
<1>11. ASSUME NEW s \in Sockets, Reattach(s) PROVE TypeOK'
  <2>1. PICK r \in BOOLEAN : Send(s, [op |-> "attach", reply |-> r])
    BY <1>11 DEF Reattach
  <2>2. [op |-> "attach", reply |-> r] \in Message
    BY DEF Message
  <2>3. inbox' \in [Sockets -> Seq(Message)]
    BY <2>1, <2>2, SendType
  <2>4. QED
    BY <1>11, <2>3 DEF Reattach, TypeOK, arbiter, clients
<1>12. ASSUME NEW s \in Sockets, Resize(s) PROVE TypeOK'
  <2>1. PICK size \in Sizes :
          Send(s, [op |-> "resize", size |-> size, epoch |-> known[s]])
    BY <1>12 DEF Resize
  <2>2. [op |-> "resize", size |-> size, epoch |-> known[s]] \in Message
    BY DEF Message, TypeOK
  <2>3. inbox' \in [Sockets -> Seq(Message)]
    BY <2>1, <2>2, SendType
  <2>4. QED
    BY <1>12, <2>3 DEF Resize, TypeOK, arbiter, clients
<1>13. ASSUME NEW s \in Sockets, Learn(s) PROVE TypeOK'
  <2>1. replies[s] \in Seq(Epochs) /\ replies[s] # <<>>
    BY <1>13 DEF Learn, TypeOK
  <2>2. Head(replies[s]) \in Epochs /\ Tail(replies[s]) \in Seq(Epochs)
    BY <2>1
  <2>3. QED
    BY <1>13, <2>2 DEF Learn, TypeOK, arbiter
<1>14. ASSUME NEW s \in Sockets, Quit(s) PROVE TypeOK'
  <2>1. [op |-> "detach", epoch |-> known[s]] \in Message
    BY DEF Message, TypeOK
  <2>2. inbox' \in [Sockets -> Seq(Message)]
    BY <1>14, <2>1, SendType DEF Quit
  <2>3. QED
    BY <1>14, <2>2 DEF Quit, TypeOK, arbiter
<1>15. ASSUME NEW s \in Sockets, Drop(s) PROVE TypeOK'
  BY <1>15 DEF Drop, TypeOK, arbiter
<1>16. QED
  BY <1>1, <1>2, <1>3, <1>4, <1>5, <1>6, <1>7, <1>8, <1>9, <1>10, <1>11, <1>12,
     <1>13, <1>14, <1>15 DEF Next, Server, Client

(* Every reachable state is well typed. *)
THEOREM TypeCorrect == Spec => []TypeOK
BY TypeInit, TypeStep, PTL DEF Spec

-----------------------------------------------------------------------------
(* The order of authority.                                                  *)

LEMMA RecomputeAuthority ==
  ASSUME TypeOK, NEW s \in Sockets, NEW ls \in [Kinds -> Lease], Recompute(s, ls),
         \A k \in Kinds : ~ls[k].attached => ls[k].size = NoSize
  PROVE  Authorities'
<1>1. lease' = ls
  BY DEF Recompute
<1>2. geometry'.size = AuthoritySize(ls) /\ geometry'.source = Authority(ls)
  BY DEF Recompute, TypeOK, Geometry
<1>3. "system" \in Kinds /\ "desktop" \in Kinds
  BY DEF Kinds
<1>4. AuthorityOrder'
  BY <1>1, <1>2, <1>3 DEF AuthorityOrder, AuthoritySize, Authority, SizeOf, Lease
<1>5. QED
  BY <1>1, <1>4 DEF Authorities, FreeLeaseHasNoSize

LEMMA UnregisterAuthority ==
  ASSUME TypeOK, Authorities, NEW s \in Sockets, NEW e, Unregister(s, e)
  PROVE  Authorities'
<1> DEFINE k == KindOf(s)
           ls == [lease EXCEPT ![k] = [attached |-> FALSE, size |-> NoSize,
                                       epoch |-> @.epoch]]
<1>1. k \in Kinds
  BY KindType
<1>2. ls \in [Kinds -> Lease]
  BY <1>1 DEF TypeOK, Lease
<1>3. CASE Current(k, e)
  <2>1. Recompute(s, ls)
    BY <1>3 DEF Unregister
  <2>2. \A kk \in Kinds : ~ls[kk].attached => ls[kk].size = NoSize
    BY <1>1 DEF Authorities, FreeLeaseHasNoSize, TypeOK
  <2>3. QED
    BY <1>2, <2>1, <2>2, RecomputeAuthority
<1>4. CASE ~Current(k, e)
  BY <1>4 DEF Unregister, arbiter, Authorities, AuthorityOrder, FreeLeaseHasNoSize
<1>5. QED
  BY <1>3, <1>4

LEMMA AuthorityStep == TypeOK /\ Authorities /\ [Next]_vars => Authorities'
<1> SUFFICES ASSUME TypeOK, Authorities, [Next]_vars PROVE Authorities'
  OBVIOUS
<1>1. ASSUME UNCHANGED arbiter PROVE Authorities'
  BY <1>1 DEF arbiter, Authorities, AuthorityOrder, FreeLeaseHasNoSize
<1>2. CASE UNCHANGED vars \/ See
  BY <1>1, <1>2 DEF vars, See, arbiter
<1>3. ASSUME NEW s \in Sockets, HandleAttach(s) PROVE Authorities'
  <2> DEFINE k == KindOf(s)
  <2>1. k \in Kinds
    BY KindType
  <2>2. /\ lease'[k].attached = TRUE /\ lease'[k].size = lease[k].size
        /\ \A kk \in Kinds : kk # k => lease'[kk] = lease[kk]
        /\ geometry' = geometry
    BY <1>3, <2>1 DEF HandleAttach, TypeOK, Lease
  <2>3. \A kk \in Kinds : /\ lease[kk].attached => lease'[kk].attached
                          /\ lease'[kk].size = lease[kk].size
                          /\ lease[kk].size # NoSize => lease[kk].attached
    BY <2>2 DEF Authorities, FreeLeaseHasNoSize
  <2>4. FreeLeaseHasNoSize'
    BY <2>3 DEF Authorities, FreeLeaseHasNoSize
  <2>5. AuthorityOrder'
    BY <2>2, <2>3 DEF Authorities, AuthorityOrder, Kinds, Sources, TypeOK, Geometry
  <2>6. QED
    BY <2>4, <2>5 DEF Authorities
<1>4. ASSUME NEW s \in Sockets, HandleResize(s) PROVE Authorities'
  <2> DEFINE k == KindOf(s)
             mm == Head(inbox[s])
             ls == [lease EXCEPT ![k].attached = TRUE, ![k].size = mm.size]
  <2>1. mm \in Message /\ mm.op = "resize"
    BY <1>4, ReceiveType DEF HandleResize
  <2>2. ls \in [Kinds -> Lease]
    BY <2>1, MessageParts, KindType, ResizedLease DEF TypeOK
  <2>3. \A kk \in Kinds : ~ls[kk].attached => ls[kk].size = NoSize
    BY KindType DEF Authorities, FreeLeaseHasNoSize, TypeOK, Lease
  <2>4. Recompute(s, ls) \/ UNCHANGED arbiter
    BY <1>4 DEF HandleResize, arbiter
  <2>5. QED
    BY <1>1, <2>2, <2>3, <2>4, RecomputeAuthority
<1>5. ASSUME NEW s \in Sockets, HandleDetach(s) \/ Cleanup(s) PROVE Authorities'
  BY <1>5, UnregisterAuthority DEF HandleDetach, Cleanup
<1>6. ASSUME NEW s \in Sockets, Apply(s) \/ Publish(s) \/ Leave(s) \/ Client(s)
      PROVE  Authorities'
  BY <1>1, <1>6 DEF Apply, Publish, Leave, Client, OpenCli, OpenApp, Reattach,
                    Resize, Learn, Quit, Drop
<1>7. QED
  BY <1>2, <1>3, <1>4, <1>5, <1>6 DEF Next, Server

(* Whatever viewers attach, resize, leave and are cleaned up in whatever    *)
(* order, the geometry follows the leases.                                  *)
THEOREM AuthorityOrderAlways == Spec => []AuthorityOrder
<1>1. Init => Authorities
  BY DEF Init, Authorities, AuthorityOrder, FreeLeaseHasNoSize, NoLease,
         CreatedGeometry, Kinds
<1>2. Authorities => AuthorityOrder
  BY DEF Authorities
<1>3. QED
  BY <1>1, <1>2, AuthorityStep, TypeCorrect, PTL DEF Spec

-----------------------------------------------------------------------------
(* Generations.                                                             *)

LEMMA RecomputeGeneration ==
  ASSUME TypeOK, OneGeometryPerGeneration, NEW s \in Sockets,
         NEW ls \in [Kinds -> Lease], Recompute(s, ls),
         job[s] = NoUpdate, published' = published
  PROVE  OneGeometryPerGeneration'
<1>1. CASE UNCHANGED <<geometry, job>>
  BY <1>1 DEF OneGeometryPerGeneration, Underway
<1>2. CASE ~UNCHANGED <<geometry, job>>
  <2>1. PICK st \in {"apply", "publish"} :
          job' = [job EXCEPT ![s] = [stage |-> st, to |-> geometry']]
    BY <1>2 DEF Recompute
  <2>2. geometry'.generation = geometry.generation + 1
    BY <1>2 DEF Recompute
  <2>3. \A t \in Sockets : Underway(t) => job[t].to.generation \in Nat
    BY DEF TypeOK, Update, Geometry, Underway, NoUpdate
  <2>4. geometry.generation \in Nat /\ published.generation \in Nat
    BY DEF TypeOK, Geometry
  <2>5. job'[s].to = geometry' /\ \A t \in Sockets \ {s} : job'[t] = job[t]
    BY <2>1 DEF TypeOK
  <2>6. QED
    BY <2>2, <2>3, <2>4, <2>5 DEF OneGeometryPerGeneration, Underway
<1>3. QED
  BY <1>1, <1>2

LEMMA UnregisterGeneration ==
  ASSUME TypeOK, OneGeometryPerGeneration, NEW s \in Sockets, NEW e,
         Unregister(s, e), job[s] = NoUpdate, published' = published
  PROVE  OneGeometryPerGeneration'
<1> DEFINE k == KindOf(s)
           ls == [lease EXCEPT ![k] = [attached |-> FALSE, size |-> NoSize,
                                       epoch |-> @.epoch]]
<1>1. ls \in [Kinds -> Lease]
  BY KindType DEF TypeOK, Lease
<1>2. Recompute(s, ls) \/ UNCHANGED <<arbiter, job>>
  BY DEF Unregister
<1>3. QED
  BY <1>1, <1>2, RecomputeGeneration DEF OneGeometryPerGeneration, Underway, arbiter

(* Only the task of s touches its job, and only when it was idle. *)
LEMMA OtherJobs ==
  ASSUME TypeOK, NEW s \in Sockets,
         HandleResize(s) \/ HandleDetach(s) \/ Cleanup(s)
  PROVE  \A t \in Sockets \ {s} : job'[t] = job[t]
BY DEF HandleResize, HandleDetach, Cleanup, Unregister, Recompute, TypeOK

LEMMA GenerationStep == TypeOK /\ Generations /\ [Next]_vars => Generations'
<1> SUFFICES ASSUME TypeOK, Generations, [Next]_vars PROVE Generations'
  OBVIOUS
<1> USE DEF Generations
<1>1. ASSUME UNCHANGED <<geometry, published, job>> PROVE OneGeometryPerGeneration'
  BY <1>1 DEF OneGeometryPerGeneration, Underway
<1>2. ASSUME UNCHANGED <<geometry, published, job, conn>> PROVE Generations'
  BY <1>1, <1>2 DEF LeavingIsIdle
<1>3. CASE UNCHANGED vars \/ See
  BY <1>2, <1>3 DEF vars, See, arbiter
<1>4. ASSUME NEW s \in Sockets, HandleResize(s) PROVE Generations'
  <2> DEFINE k == KindOf(s)
             mm == Head(inbox[s])
             ls == [lease EXCEPT ![k].attached = TRUE, ![k].size = mm.size]
  <2>1. mm \in Message /\ mm.op = "resize"
    BY <1>4, ReceiveType DEF HandleResize
  <2>2. ls \in [Kinds -> Lease]
    BY <2>1, MessageParts, KindType, ResizedLease DEF TypeOK
  <2>3. job[s] = NoUpdate /\ conn[s] = "serving" /\ published' = published
        /\ conn' = conn
    BY <1>4 DEF HandleResize, Receive, Reading
  <2>4. Recompute(s, ls) \/ UNCHANGED <<arbiter, job>>
    BY <1>4 DEF HandleResize
  <2>5. OneGeometryPerGeneration'
    BY <1>1, <2>2, <2>3, <2>4, RecomputeGeneration DEF arbiter
  <2>6. LeavingIsIdle'
    BY <1>4, <2>3, OtherJobs DEF LeavingIsIdle
  <2>7. QED
    BY <2>5, <2>6
<1>5. ASSUME NEW s \in Sockets, HandleDetach(s) PROVE Generations'
  <2>1. job[s] = NoUpdate /\ conn[s] = "serving" /\ published' = published
        /\ conn' = conn
    BY <1>5 DEF HandleDetach, Receive, Reading
  <2>2. OneGeometryPerGeneration'
    BY <1>5, <2>1, UnregisterGeneration DEF HandleDetach
  <2>3. LeavingIsIdle'
    BY <1>5, <2>1, OtherJobs DEF LeavingIsIdle
  <2>4. QED
    BY <2>2, <2>3
<1>6. ASSUME NEW s \in Sockets, Cleanup(s) PROVE Generations'
  <2>1. job[s] = NoUpdate /\ published' = published
    BY <1>6 DEF Cleanup, LeavingIsIdle
  <2>2. OneGeometryPerGeneration'
    BY <1>6, <2>1, UnregisterGeneration DEF Cleanup
  <2>3. conn'[s] = "gone" /\ \A t \in Sockets \ {s} : conn'[t] = conn[t]
    BY <1>6 DEF Cleanup, TypeOK
  <2>4. LeavingIsIdle'
    BY <1>6, <2>3, OtherJobs DEF LeavingIsIdle
  <2>5. QED
    BY <2>2, <2>4
<1>7. ASSUME NEW s \in Sockets, Apply(s) \/ Publish(s) PROVE Generations'
  <2>1. job[s] \in Update
    BY <1>7 DEF Apply, Publish, TypeOK, NoUpdate
  <2>2. conn[s] # "leaving" /\ conn' = conn /\ geometry' = geometry
    BY <1>7, <2>1 DEF Apply, Publish, LeavingIsIdle, Update, NoUpdate, arbiter
  <2>3. \A t \in Sockets \ {s} : job'[t] = job[t]
    BY <1>7 DEF Apply, Publish, TypeOK
  <2>4. LeavingIsIdle'
    BY <2>2, <2>3 DEF LeavingIsIdle
  <2>5. CASE Apply(s)
    <3>1. job'[s].to = job[s].to /\ published' = published
      BY <2>1, <2>5 DEF Apply, TypeOK, Update
    <3>2. Underway(s)
      BY <2>1 DEF Underway, Update, NoUpdate
    <3>3. QED
      BY <2>2, <2>3, <2>4, <3>1, <3>2 DEF OneGeometryPerGeneration, Underway
  <2>6. CASE Publish(s)
    <3>1. job'[s] = NoUpdate /\ published' = job[s].to
      BY <2>6 DEF Publish, TypeOK
    <3>2. Underway(s)
      BY <2>1 DEF Underway, Update, NoUpdate
    <3>3. QED
      BY <2>2, <2>3, <2>4, <3>1, <3>2 DEF OneGeometryPerGeneration, Underway
  <2>7. QED
    BY <1>7, <2>5, <2>6
<1>8. ASSUME NEW s \in Sockets, Leave(s) PROVE Generations'
  <2>1. job[s] = NoUpdate /\ UNCHANGED <<geometry, published, job>>
        /\ \A t \in Sockets \ {s} : conn'[t] = conn[t]
    BY <1>8 DEF Leave, Reading, TypeOK, arbiter
  <2>2. QED
    BY <1>1, <2>1 DEF LeavingIsIdle
<1>9. ASSUME NEW s \in Sockets, OpenCli(s) \/ OpenApp(s) PROVE Generations'
  <2>1. conn'[s] = "serving" /\ UNCHANGED <<geometry, published, job>>
        /\ \A t \in Sockets \ {s} : conn'[t] = conn[t]
    BY <1>9 DEF OpenCli, OpenApp, TypeOK, arbiter
  <2>2. QED
    BY <1>1, <2>1 DEF LeavingIsIdle
<1>10. ASSUME NEW s \in Sockets, \/ HandleAttach(s) \/ Reattach(s) \/ Resize(s)
                                 \/ Learn(s) \/ Quit(s) \/ Drop(s)
       PROVE  Generations'
  BY <1>2, <1>10 DEF HandleAttach, Reattach, Resize, Learn, Quit, Drop, arbiter
<1>11. QED
  BY <1>3, <1>4, <1>5, <1>6, <1>7, <1>8, <1>9, <1>10 DEF Next, Server, Client

(* No generation ever stands for two geometries, in the arbiter, on its way *)
(* to the PTY or published.                                                 *)
THEOREM OneGeometryPerGenerationAlways == Spec => []OneGeometryPerGeneration
<1>1. Init => Generations
  BY DEF Init, Generations, OneGeometryPerGeneration, LeavingIsIdle, Underway,
         CreatedGeometry
<1>2. Generations => OneGeometryPerGeneration
  BY DEF Generations
<1>3. QED
  BY <1>1, <1>2, GenerationStep, TypeCorrect, PTL DEF Spec

-----------------------------------------------------------------------------
(* Whom an epoch belongs to.                                                *)

(* Epochs only grow, and an attach takes a new one. *)
Fresh ==
  /\ lease'["system"].epoch >= lease["system"].epoch
  /\ \A t \in CliSockets : \/ viewer'[t] \in {viewer[t], 0}
                           \/ viewer'[t] > lease["system"].epoch

LEMMA SystemEpoch ==
  ASSUME TypeOK
  PROVE  lease["system"].epoch \in Nat
BY DEF TypeOK, Lease, Epochs, Kinds

LEMMA SystemKind ==
  ASSUME NEW s \in Sockets
  PROVE  KindOf(s) = "system" <=> s \in CliSockets
BY DEF KindOf

LEMMA UnregisterLease ==
  ASSUME TypeOK, NEW s \in Sockets, NEW e, Unregister(s, e)
  PROVE  /\ lease'["system"].epoch = lease["system"].epoch
         /\ \/ lease'["system"] = lease["system"]
            \/ s \in CliSockets /\ e \in {0, lease["system"].epoch}
BY SystemKind DEF Unregister, Recompute, Current, TypeOK, Lease, Kinds, arbiter

LEMMA ResizeLease ==
  ASSUME TypeOK, NEW s \in Sockets, HandleResize(s)
  PROVE  /\ lease'["system"].epoch = lease["system"].epoch
         /\ lease["system"].attached => lease'["system"].attached
<1> DEFINE k == KindOf(s)
           ls == [lease EXCEPT ![k].attached = TRUE,
                               ![k].size = Head(inbox[s]).size]
<1>1. lease' \in {lease, ls}
  BY DEF HandleResize, Recompute, arbiter
<1>2. k \in Kinds /\ "system" \in Kinds
  BY KindType DEF Kinds
<1>3. CASE k = "system"
  BY <1>1, <1>2, <1>3 DEF TypeOK, Lease
<1>4. CASE k # "system"
  BY <1>1, <1>2, <1>4 DEF TypeOK, Lease
<1>5. QED
  BY <1>3, <1>4

LEMMA AttachLease ==
  ASSUME TypeOK, NEW s \in Sockets, HandleAttach(s)
  PROVE  /\ s \in CliSockets =>
              /\ lease'["system"].epoch = lease["system"].epoch + 1
              /\ lease'["system"].attached
              /\ viewer'[s] = lease["system"].epoch + 1
         /\ s \notin CliSockets => lease'["system"] = lease["system"]
         /\ \A t \in Sockets \ {s} : viewer'[t] = viewer[t]
BY SystemKind DEF HandleAttach, TypeOK, Lease, Kinds

LEMMA FreshStep == ASSUME TypeOK, [Next]_vars PROVE Fresh
<1>1. ASSUME UNCHANGED <<lease, viewer>> PROVE Fresh
  BY <1>1, SystemEpoch DEF Fresh
<1>2. CASE UNCHANGED vars \/ See
  BY <1>1, <1>2 DEF vars, See, arbiter
<1>3. ASSUME NEW s \in Sockets, HandleAttach(s) PROVE Fresh
  <2>1. CASE s \in CliSockets
    BY <1>3, <2>1, AttachLease, SystemEpoch DEF Fresh, Sockets
  <2>2. CASE s \notin CliSockets
    BY <1>3, <2>2, AttachLease, SystemEpoch DEF Fresh, Sockets
  <2>3. QED
    BY <2>1, <2>2
<1>4. ASSUME NEW s \in Sockets, HandleResize(s) PROVE Fresh
  BY <1>4, ResizeLease, SystemEpoch DEF HandleResize, Fresh
<1>5. ASSUME NEW s \in Sockets, HandleDetach(s) PROVE Fresh
  <2>1. lease'["system"].epoch = lease["system"].epoch
    BY <1>5, UnregisterLease DEF HandleDetach
  <2>2. \A t \in CliSockets : viewer'[t] \in {viewer[t], 0}
    BY <1>5 DEF HandleDetach, TypeOK, Sockets
  <2>3. QED
    BY <2>1, <2>2, SystemEpoch DEF Fresh
<1>6. ASSUME NEW s \in Sockets, Cleanup(s) PROVE Fresh
  BY <1>6, UnregisterLease, SystemEpoch DEF Cleanup, Fresh
<1>7. ASSUME NEW s \in Sockets, Apply(s) \/ Publish(s) \/ Leave(s) \/ Client(s)
      PROVE  Fresh
  BY <1>1, <1>7 DEF Apply, Publish, Leave, Client, OpenCli, OpenApp, Reattach,
                    Resize, Learn, Quit, Drop, arbiter
<1>8. QED
  BY <1>2, <1>3, <1>4, <1>5, <1>6, <1>7 DEF Next, Server

LEMMA OwnedKept ==
  ASSUME TypeOK, TypeOK', Fresh, NEW s \in CliSockets
  PROVE  \A e \in Epochs : Owned(s, e) => Owned(s, e)'
<1>1. lease["system"].epoch \in Nat /\ lease'["system"].epoch \in Nat
  BY SystemEpoch DEF TypeOK, Lease, Epochs, Kinds
<1>2. \A t \in CliSockets : viewer[t] \in Nat /\ viewer'[t] \in Nat
  BY DEF TypeOK, Epochs, Sockets
<1>3. QED
  BY <1>1, <1>2 DEF Owned, Fresh, Epochs

LEMMA MessageKept ==
  ASSUME TypeOK, TypeOK', Fresh, NEW s \in CliSockets
  PROVE  \A mm \in Message : MessageOwned(s, mm) => MessageOwned(s, mm)'
<1> SUFFICES ASSUME NEW mm \in Message, MessageOwned(s, mm)
             PROVE  MessageOwned(s, mm)'
  OBVIOUS
<1>1. mm.op \in {"attach", "resize", "detach"}
  BY DEF Message
<1>2. CASE mm.op = "attach"
  BY <1>2 DEF MessageOwned
<1>3. CASE mm.op # "attach"
  <2>1. mm.epoch \in Epochs
    BY <1>1, <1>3, MessageParts
  <2>2. QED
    BY <1>3, <2>1, OwnedKept DEF MessageOwned
<1>4. QED
  BY <1>2, <1>3

(* The parts of SocketOwned, each kept by a step that gives the socket no   *)
(* epoch it did not have.                                                   *)
LEMMA ViewerKept ==
  ASSUME TypeOK, TypeOK', Fresh, NEW s \in CliSockets, SocketOwned(s),
         viewer'[s] \in {viewer[s], 0}
  PROVE  Owned(s, viewer[s])'
<1>1. viewer[s] \in Epochs
  BY DEF TypeOK, Sockets
<1>2. Owned(s, viewer[s])
  BY DEF SocketOwned
<1>3. QED
  BY <1>1, <1>2, OwnedKept DEF Owned

LEMMA KnownKept ==
  ASSUME TypeOK, TypeOK', Fresh, NEW s \in CliSockets, SocketOwned(s),
         known'[s] = known[s]
  PROVE  Owned(s, known[s])'
<1>1. known[s] \in Epochs
  BY DEF TypeOK, Sockets
<1>2. Owned(s, known[s])
  BY DEF SocketOwned
<1>3. QED
  BY <1>1, <1>2, OwnedKept DEF Owned

LEMMA RepliesKept ==
  ASSUME TypeOK, TypeOK', Fresh, NEW s \in CliSockets, SocketOwned(s),
         NEW q \in Seq(Epochs),
         \A i \in 1 .. Len(q) : Owned(s, q[i]),
         replies'[s] = q
  PROVE  \A i \in 1 .. Len(replies'[s]) : Owned(s, replies[s][i])'
<1>1. \A i \in 1 .. Len(q) : q[i] \in Epochs
  OBVIOUS
<1>2. QED
  BY <1>1, OwnedKept DEF Owned

LEMMA InboxKept ==
  ASSUME TypeOK, TypeOK', Fresh, NEW s \in CliSockets, SocketOwned(s),
         NEW q \in Seq(Message),
         \A i \in 1 .. Len(q) : MessageOwned(s, q[i]),
         inbox'[s] = q
  PROVE  \A i \in 1 .. Len(inbox'[s]) : MessageOwned(s, inbox[s][i])'
<1>1. \A i \in 1 .. Len(q) : q[i] \in Message
  OBVIOUS
<1>2. QED
  BY <1>1, MessageKept DEF MessageOwned, Owned

LEMMA SocketKept ==
  ASSUME TypeOK, TypeOK', Fresh, NEW s \in CliSockets, SocketOwned(s),
         viewer'[s] \in {viewer[s], 0}, known'[s] = known[s],
         replies'[s] = replies[s],
         \/ inbox'[s] = inbox[s]
         \/ inbox[s] # <<>> /\ inbox'[s] = Tail(inbox[s])
         \/ inbox'[s] = <<>>
  PROVE  SocketOwned(s)'
<1>1. replies[s] \in Seq(Epochs) /\ inbox[s] \in Seq(Message)
      /\ inbox'[s] \in Seq(Message)
  BY DEF TypeOK, Sockets
<1>2. \A i \in 1 .. Len(replies'[s]) : Owned(s, replies[s][i])'
  BY <1>1, RepliesKept DEF SocketOwned
<1>3. PICK q \in Seq(Message) : q = inbox'[s]
  BY <1>1
<1>4. \A i \in 1 .. Len(q) : MessageOwned(s, q[i])
  <2>1. CASE q = inbox[s]
    BY <2>1 DEF SocketOwned
  <2>2. CASE inbox[s] # <<>> /\ q = Tail(inbox[s])
    <3>1. \A i \in 1 .. Len(q) : i + 1 \in 1 .. Len(inbox[s]) /\ q[i] = inbox[s][i + 1]
      BY <1>1, <2>2
    <3>2. QED
      BY <3>1 DEF SocketOwned
  <2>3. CASE q = <<>>
    BY <2>3
  <2>4. QED
    BY <1>3, <2>1, <2>2, <2>3
<1>5. \A i \in 1 .. Len(inbox'[s]) : MessageOwned(s, inbox[s][i])'
  BY <1>3, <1>4, InboxKept
<1>6. QED
  BY <1>2, <1>5, ViewerKept, KnownKept DEF SocketOwned

(* A client sends the epoch it knows, or none. *)
LEMMA SocketSends ==
  ASSUME TypeOK, TypeOK', Fresh, NEW s \in CliSockets, SocketOwned(s),
         NEW mm \in Message, MessageOwned(s, mm), Send(s, mm),
         UNCHANGED <<viewer, known, replies>>
  PROVE  SocketOwned(s)'
<1>1. replies[s] \in Seq(Epochs) /\ inbox[s] \in Seq(Message)
  BY DEF TypeOK, Sockets
<1>2. \A i \in 1 .. Len(replies'[s]) : Owned(s, replies[s][i])'
  BY <1>1, RepliesKept DEF SocketOwned
<1>a. Append(inbox[s], mm) \in Seq(Message)
  BY <1>1
<1>3. PICK q \in Seq(Message) : q = Append(inbox[s], mm)
  BY <1>a
<1>4. inbox'[s] = q
  BY <1>3 DEF Send, TypeOK, Sockets
<1>5. \A i \in 1 .. Len(q) : MessageOwned(s, q[i])
  <2>1. \A i \in 1 .. Len(q) : \/ i \in 1 .. Len(inbox[s]) /\ q[i] = inbox[s][i]
                              \/ q[i] = mm
    BY <1>1, <1>3
  <2>2. QED
    BY <2>1 DEF SocketOwned
<1>6. \A i \in 1 .. Len(inbox'[s]) : MessageOwned(s, inbox[s][i])'
  BY <1>4, <1>5, InboxKept
<1>7. viewer'[s] = viewer[s] /\ known'[s] = known[s]
  OBVIOUS
<1>8. Owned(s, viewer[s])' /\ Owned(s, known[s])'
  BY <1>7, ViewerKept, KnownKept
<1>9. QED
  BY <1>2, <1>6, <1>8 DEF SocketOwned

LEMMA SocketAttaches ==
  ASSUME TypeOK, TypeOK', Fresh, EpochsOwned, NEW s \in CliSockets, HandleAttach(s)
  PROVE  SocketOwned(s)'
<1> DEFINE epoch == lease["system"].epoch + 1
<1>1. s \in Sockets /\ SocketOwned(s)
  BY DEF Sockets, EpochsOwned
<1>2. /\ lease'["system"].epoch = epoch
      /\ viewer'[s] = epoch
      /\ epoch \in Nat
      /\ \A t \in CliSockets \ {s} : viewer'[t] = viewer[t]
  BY <1>1, AttachLease, SystemEpoch DEF Sockets
<1>3. \A t \in CliSockets \ {s} : viewer[t] # epoch
  <2>1. \A t \in CliSockets : viewer[t] \in Nat /\ Owned(t, viewer[t])
    BY DEF EpochsOwned, SocketOwned, TypeOK, Epochs, Sockets
  <2>2. QED
    BY <2>1, SystemEpoch DEF Owned
<1>4. Owned(s, viewer[s])'
  BY <1>2, <1>3 DEF Owned
<1>5. known'[s] = known[s]
  BY DEF HandleAttach, clients
<1>6. replies[s] \in Seq(Epochs) /\ inbox[s] \in Seq(Message) /\ inbox[s] # <<>>
      /\ replies'[s] \in Seq(Epochs)
  BY <1>1 DEF TypeOK, HandleAttach, Receive
<1>7. \A i \in 1 .. Len(replies'[s]) : Owned(s, replies[s][i])'
  <2>1. CASE replies'[s] = replies[s]
    BY <1>1, <1>6, <2>1, RepliesKept DEF SocketOwned
  <2>2. CASE replies'[s] = Append(replies[s], epoch)
    <3>1. \A i \in 1 .. Len(replies'[s]) :
            \/ /\ i \in 1 .. Len(replies[s]) /\ replies'[s][i] = replies[s][i]
               /\ replies[s][i] \in Epochs
            \/ replies'[s][i] = epoch
      BY <1>6, <2>2
    <3>2. \A i \in 1 .. Len(replies[s]) : Owned(s, replies[s][i])
      BY <1>1 DEF SocketOwned
    <3>3. QED
      BY <1>2, <1>3, <3>1, <3>2, OwnedKept DEF Owned
  <2>3. replies' \in {replies, [replies EXCEPT ![s] = Append(@, lease[KindOf(s)].epoch + 1)]}
    BY DEF HandleAttach
  <2>4. KindOf(s) = "system"
    BY <1>1, SystemKind
  <2>5. QED
    BY <1>1, <2>1, <2>2, <2>3, <2>4 DEF TypeOK
<1>8. \A i \in 1 .. Len(inbox'[s]) : MessageOwned(s, inbox[s][i])'
  <2>a. Tail(inbox[s]) \in Seq(Message)
    BY <1>6
  <2>1. PICK q \in Seq(Message) : q = Tail(inbox[s])
    BY <2>a
  <2>2. inbox'[s] = q
    BY <1>1, <2>1 DEF HandleAttach, Receive, TypeOK
  <2>3. \A i \in 1 .. Len(q) : i + 1 \in 1 .. Len(inbox[s]) /\ q[i] = inbox[s][i + 1]
    BY <1>6, <2>1
  <2>4. \A i \in 1 .. Len(q) : MessageOwned(s, q[i])
    BY <1>1, <2>3 DEF SocketOwned
  <2>5. QED
    BY <1>1, <2>2, <2>4, InboxKept
<1>9. QED
  BY <1>1, <1>4, <1>5, <1>7, <1>8, KnownKept DEF SocketOwned

LEMMA SocketLearns ==
  ASSUME TypeOK, TypeOK', Fresh, NEW s \in CliSockets, SocketOwned(s), Learn(s)
  PROVE  SocketOwned(s)'
<1>1. s \in Sockets
  BY DEF Sockets
<1>2. replies[s] \in Seq(Epochs) /\ replies[s] # <<>> /\ inbox[s] \in Seq(Message)
  BY <1>1 DEF TypeOK, Learn
<1>3. viewer' = viewer /\ inbox' = inbox
  BY DEF Learn
<1>4. PICK e \in Epochs : e = Head(replies[s])
  BY <1>2
<1>5. Owned(s, e)
  BY <1>2, <1>4 DEF SocketOwned
<1>6. known'[s] = e
  BY <1>1, <1>4 DEF Learn, TypeOK
<1>7. Owned(s, known[s])'
  BY <1>5, <1>6, OwnedKept DEF Owned
<1>a. Tail(replies[s]) \in Seq(Epochs)
  BY <1>2
<1>8. PICK q \in Seq(Epochs) : q = Tail(replies[s])
  BY <1>a
<1>9. \A i \in 1 .. Len(q) : i + 1 \in 1 .. Len(replies[s]) /\ q[i] = replies[s][i + 1]
  BY <1>2, <1>8
<1>10. replies'[s] = q
  BY <1>1, <1>8 DEF Learn, TypeOK
<1>11. \A i \in 1 .. Len(replies'[s]) : Owned(s, replies[s][i])'
  BY <1>9, <1>10, RepliesKept DEF SocketOwned
<1>12. \A i \in 1 .. Len(inbox'[s]) : MessageOwned(s, inbox[s][i])'
  BY <1>2, <1>3, InboxKept DEF SocketOwned
<1>13. QED
  BY <1>3, <1>7, <1>11, <1>12, ViewerKept DEF SocketOwned

LEMMA SocketOpens ==
  ASSUME TypeOK, TypeOK', Fresh, NEW s \in CliSockets, SocketOwned(s), OpenCli(s)
  PROVE  SocketOwned(s)'
<1>1. s \in Sockets
  BY DEF Sockets
<1>2. viewer' = viewer /\ known' = known /\ replies' = replies
  BY DEF OpenCli
<1>3. PICK size \in Sizes : inbox' = [inbox EXCEPT ![s] =
        << [op |-> "attach", reply |-> TRUE],
           [op |-> "resize", size |-> size, epoch |-> 0] >>]
  BY DEF OpenCli
<1>4. inbox'[s] = << [op |-> "attach", reply |-> TRUE],
                     [op |-> "resize", size |-> size, epoch |-> 0] >>
  BY <1>1, <1>3 DEF TypeOK
<1>5. \A i \in 1 .. Len(inbox'[s]) :
        \/ inbox'[s][i].op = "attach"
        \/ inbox'[s][i].op = "resize" /\ inbox'[s][i].epoch = 0
  BY <1>4
<1>6. \A i \in 1 .. Len(inbox'[s]) : MessageOwned(s, inbox[s][i])'
  BY <1>5 DEF MessageOwned, Owned
<1>7. replies[s] \in Seq(Epochs)
  BY <1>1 DEF TypeOK
<1>8. \A i \in 1 .. Len(replies'[s]) : Owned(s, replies[s][i])'
  BY <1>2, <1>7, RepliesKept DEF SocketOwned
<1>9. QED
  BY <1>2, <1>6, <1>8, ViewerKept, KnownKept DEF SocketOwned

(* A step of one socket's task or client gives another socket nothing. *)
LEMMA OtherSockets ==
  ASSUME TypeOK, NEW s \in Sockets, Server(s) \/ Client(s), NEW t \in Sockets \ {s}
  PROVE  /\ viewer'[t] = viewer[t] /\ known'[t] = known[t]
         /\ replies'[t] = replies[t] /\ inbox'[t] = inbox[t] /\ conn'[t] = conn[t]
<1>1. CASE Server(s)
  BY <1>1 DEF TypeOK, Server, HandleAttach, HandleResize, HandleDetach, Receive,
              Apply, Publish, Leave, Cleanup, clients
<1>2. CASE Client(s)
  BY <1>2 DEF TypeOK, Client, OpenCli, OpenApp, Reattach, Resize, Learn, Quit, Drop,
              Send, clients
<1>3. QED
  BY <1>1, <1>2

LEMMA EpochsStep ==
  ASSUME TypeOK, TypeOK', EpochsOwned, LeavingIsViewer, [Next]_vars
  PROVE  EpochsOwned' /\ LeavingIsViewer'
<1>1. Fresh
  BY FreshStep
<1>2. SUFFICES ASSUME NEW t \in CliSockets
      PROVE  SocketOwned(t)' /\ (conn'[t] = "leaving" => viewer'[t] # 0)
  BY DEF EpochsOwned, LeavingIsViewer
<1>3. t \in Sockets /\ SocketOwned(t) /\ (conn[t] = "leaving" => viewer[t] # 0)
  BY DEF EpochsOwned, LeavingIsViewer, Sockets
<1>4. CASE UNCHANGED vars \/ See
  <2>1. UNCHANGED <<viewer, known, replies, inbox, conn>>
    BY <1>4 DEF vars, See
  <2>2. QED
    BY <1>1, <1>3, <2>1, SocketKept
<1>5. ASSUME NEW s \in Sockets, Server(s) \/ Client(s), s # t
      PROVE  SocketOwned(t)' /\ (conn'[t] = "leaving" => viewer'[t] # 0)
  BY <1>1, <1>3, <1>5, OtherSockets, SocketKept
<1>6. CASE HandleAttach(t)
  BY <1>1, <1>3, <1>6, SocketAttaches DEF HandleAttach, Receive, Reading
<1>7. CASE HandleResize(t) \/ HandleDetach(t)
  <2>1. /\ viewer'[t] \in {viewer[t], 0} /\ known' = known /\ replies' = replies
        /\ inbox[t] # <<>> /\ inbox'[t] = Tail(inbox[t])
        /\ conn'[t] = "serving"
    BY <1>3, <1>7 DEF HandleResize, HandleDetach, Receive, Reading, TypeOK, clients
  <2>2. QED
    BY <1>1, <1>3, <2>1, SocketKept
<1>8. CASE Apply(t) \/ Publish(t) \/ Cleanup(t) \/ Drop(t)
  <2>1. UNCHANGED <<viewer, known, replies, inbox>>
        /\ conn'[t] \in {conn[t], "gone"}
    BY <1>3, <1>8 DEF Apply, Publish, Cleanup, Drop, TypeOK, clients
  <2>2. QED
    BY <1>1, <1>3, <2>1, SocketKept
<1>9. CASE Leave(t)
  <2>1. /\ UNCHANGED <<viewer, known, replies>> /\ inbox'[t] = <<>>
        /\ conn'[t] = "leaving" => viewer[t] # 0
    BY <1>3, <1>9 DEF Leave, TypeOK, clients
  <2>2. QED
    BY <1>1, <1>3, <2>1, SocketKept
<1>10. CASE OpenCli(t)
  <2>1. conn'[t] = "serving"
    BY <1>3, <1>10 DEF OpenCli, TypeOK
  <2>2. QED
    BY <1>1, <1>3, <1>10, <2>1, SocketOpens
<1>11. CASE OpenApp(t) \/ Reattach(t)
  BY <1>11 DEF OpenApp, Reattach
<1>12. CASE Resize(t)
  <2>1. PICK size \in Sizes :
          Send(t, [op |-> "resize", size |-> size, epoch |-> known[t]])
    BY <1>12 DEF Resize
  <2>2. [op |-> "resize", size |-> size, epoch |-> known[t]] \in Message
    BY <1>3 DEF Message, TypeOK
  <2>3. MessageOwned(t, [op |-> "resize", size |-> size, epoch |-> known[t]])
    BY <1>3 DEF MessageOwned, SocketOwned
  <2>4. UNCHANGED <<viewer, known, replies, conn>>
    BY <1>12 DEF Resize, clients
  <2>5. QED
    BY <1>1, <1>3, <2>1, <2>2, <2>3, <2>4, SocketSends
<1>13. CASE Quit(t)
  <2>1. Send(t, [op |-> "detach", epoch |-> known[t]]) /\ known[t] # 0
        /\ UNCHANGED <<viewer, known, replies, conn>>
    BY <1>13 DEF Quit
  <2>2. [op |-> "detach", epoch |-> known[t]] \in Message
    BY <1>3 DEF Message, TypeOK
  <2>3. MessageOwned(t, [op |-> "detach", epoch |-> known[t]])
    BY <1>3, <2>1 DEF MessageOwned, SocketOwned
  <2>4. QED
    BY <1>1, <1>3, <2>1, <2>2, <2>3, SocketSends
<1>14. CASE Learn(t)
  BY <1>1, <1>3, <1>14, SocketLearns DEF Learn
<1>15. QED
  BY <1>4, <1>5, <1>6, <1>7, <1>8, <1>9, <1>10, <1>11, <1>12, <1>13, <1>14, <1>3
     DEF Next, Server, Client

LEMMA FreshSocketStep ==
  ASSUME TypeOK, FreshSocket, [Next]_vars
  PROVE  FreshSocket'
<1>1. CASE UNCHANGED vars \/ See
  BY <1>1 DEF vars, See, FreshSocket
<1>2. ASSUME NEW s \in Sockets, Server(s) PROVE FreshSocket'
  <2>1. client' = client /\ (s \in CliSockets => client[s] # "new" \/ UNCHANGED <<conn, viewer>>)
    BY <1>2 DEF Server, HandleAttach, HandleResize, HandleDetach, Receive, Reading,
                Apply, Publish, Leave, Cleanup, clients, FreshSocket
  <2>2. QED
    BY <1>2, <2>1, OtherSockets DEF FreshSocket, Sockets
<1>3. ASSUME NEW s \in Sockets, Client(s) PROVE FreshSocket'
  <2>1. \A t \in Sockets : client'[t] = "new" => client[t] = "new"
    BY <1>3 DEF Client, OpenCli, OpenApp, Reattach, Resize, Learn, Quit, Drop, TypeOK, clients
  <2>2. client'[s] = "new" => UNCHANGED <<conn, viewer>>
    BY <1>3 DEF Client, OpenCli, OpenApp, Reattach, Resize, Learn, Quit, Drop, TypeOK, clients
  <2>3. QED
    BY <1>3, <2>1, <2>2, OtherSockets DEF FreshSocket, Sockets
<1>4. QED
  BY <1>1, <1>2, <1>3 DEF Next

LEMMA NewestStep ==
  ASSUME TypeOK, Ownership, [Next]_vars
  PROVE  NewestKeepsLease'
<1>1. SUFFICES ASSUME NEW s \in CliSockets,
                      conn'[s] \in {"serving", "leaving"}, viewer'[s] # 0,
                      viewer'[s] = lease'["system"].epoch
               PROVE  lease'["system"].attached
  BY DEF NewestKeepsLease
<1>2. s \in Sockets /\ lease["system"].epoch \in Nat
      /\ Owned(s, viewer[s]) /\ viewer[s] \in Nat
  BY SystemEpoch DEF Sockets, Ownership, EpochsOwned, SocketOwned, TypeOK, Epochs
<1>3. ASSUME lease'["system"].epoch = lease["system"].epoch, viewer'[s] = viewer[s],
             conn[s] \in {"serving", "leaving"}
      PROVE  lease["system"].attached
  BY <1>1, <1>3 DEF Ownership, NewestKeepsLease
<1>4. CASE UNCHANGED vars \/ See
  BY <1>1, <1>3, <1>4 DEF vars, See, arbiter
<1>5. ASSUME NEW t \in Sockets, HandleAttach(t) PROVE lease'["system"].attached
  <2>1. CASE t \in CliSockets
    BY <1>5, <2>1, AttachLease
  <2>2. CASE t \notin CliSockets
    <3>1. lease' = lease \/ lease'["system"] = lease["system"]
      BY <1>5, <2>2, AttachLease
    <3>2. viewer'[s] = viewer[s] /\ conn' = conn
      BY <1>2, <1>5, <2>2, AttachLease DEF HandleAttach
    <3>3. QED
      BY <1>1, <1>3, <3>1, <3>2
  <2>3. QED
    BY <2>1, <2>2
<1>6. ASSUME NEW t \in Sockets, HandleResize(t) PROVE lease'["system"].attached
  <2>1. viewer' = viewer /\ conn' = conn
    BY <1>6 DEF HandleResize
  <2>2. QED
    BY <1>1, <1>3, <1>6, <2>1, ResizeLease
<1>7. ASSUME NEW t \in Sockets, HandleDetach(t) PROVE lease'["system"].attached
  <2> DEFINE mm == Head(inbox[t])
  <2>1. Unregister(t, mm.epoch) /\ conn' = conn /\ t # s
        /\ viewer'[s] = viewer[s]
    BY <1>1, <1>2, <1>7 DEF HandleDetach, TypeOK
  <2>2. lease'["system"].epoch = lease["system"].epoch
    BY <1>7, <2>1, UnregisterLease
  <2>3. CASE lease'["system"] = lease["system"]
    BY <1>1, <1>3, <2>1, <2>2, <2>3
  <2>4. CASE t \in CliSockets /\ mm.epoch \in {0, lease["system"].epoch}
    <3>1. inbox[t] \in Seq(Message) /\ inbox[t] # <<>> /\ mm.op = "detach"
      BY <1>7 DEF HandleDetach, Receive, TypeOK
    <3>2. MessageOwned(t, mm)
      <4>1. 1 \in 1 .. Len(inbox[t]) /\ mm = inbox[t][1]
        BY <3>1
      <4>2. QED
        BY <2>4, <4>1 DEF Ownership, EpochsOwned, SocketOwned
    <3>3. mm.epoch # 0 /\ viewer[s] # mm.epoch
      BY <2>1, <3>1, <3>2 DEF MessageOwned, Owned
    <3>4. QED
      BY <1>1, <2>1, <2>2, <2>4, <3>3
  <2>5. QED
    BY <1>7, <2>1, <2>3, <2>4, UnregisterLease
<1>8. ASSUME NEW t \in Sockets, Cleanup(t) PROVE lease'["system"].attached
  <2>1. Unregister(t, viewer[t]) /\ viewer' = viewer /\ t # s
        /\ conn[t] = "leaving" /\ conn'[s] = conn[s]
    BY <1>1, <1>2, <1>8 DEF Cleanup, TypeOK
  <2>2. lease'["system"].epoch = lease["system"].epoch
    BY <1>8, <2>1, UnregisterLease
  <2>3. CASE lease'["system"] = lease["system"]
    BY <1>1, <1>3, <2>1, <2>2, <2>3
  <2>4. CASE t \in CliSockets /\ viewer[t] \in {0, lease["system"].epoch}
    <3>1. viewer[t] # 0 /\ Owned(t, viewer[t])
      BY <2>1, <2>4 DEF Ownership, LeavingIsViewer, EpochsOwned, SocketOwned
    <3>2. viewer[s] # viewer[t]
      BY <2>1, <3>1 DEF Owned
    <3>3. QED
      BY <1>1, <2>1, <2>2, <2>4, <3>1, <3>2
  <2>5. QED
    BY <1>8, <2>1, <2>3, <2>4, UnregisterLease
<1>9. ASSUME NEW t \in Sockets, Apply(t) \/ Publish(t) PROVE lease'["system"].attached
  BY <1>1, <1>3, <1>9 DEF Apply, Publish, arbiter
<1>10. ASSUME NEW t \in Sockets, Leave(t) PROVE lease'["system"].attached
  <2>1. lease' = lease /\ viewer' = viewer /\ conn[s] \in {"serving", "leaving"}
    BY <1>1, <1>2, <1>10 DEF Leave, Reading, TypeOK, arbiter
  <2>2. QED
    BY <1>1, <1>3, <2>1
<1>11. ASSUME NEW t \in Sockets, OpenCli(t) \/ OpenApp(t)
       PROVE  lease'["system"].attached
  <2>1. lease' = lease /\ viewer' = viewer
    BY <1>11 DEF OpenCli, OpenApp, arbiter
  <2>2. CASE t = s
    BY <1>1, <1>2, <1>11, <2>1, <2>2 DEF OpenCli, OpenApp, Ownership, FreshSocket
  <2>3. CASE t # s
    BY <1>1, <1>2, <1>3, <1>11, <2>1, <2>3 DEF OpenCli, OpenApp, TypeOK
  <2>4. QED
    BY <2>2, <2>3
<1>12. ASSUME NEW t \in Sockets,
              Reattach(t) \/ Resize(t) \/ Learn(t) \/ Quit(t) \/ Drop(t)
       PROVE  lease'["system"].attached
  BY <1>1, <1>3, <1>12 DEF Reattach, Resize, Learn, Quit, Drop, arbiter
<1>13. QED
  BY <1>4, <1>5, <1>6, <1>7, <1>8, <1>9, <1>10, <1>11, <1>12 DEF Next, Server, Client

(* The command line viewer that attached last keeps the lease for as long   *)
(* as its socket is there, whatever becomes of the sockets before it.       *)
THEOREM NewestKeepsLeaseAlways == Spec => []NewestKeepsLease
<1>1. Init => Ownership
  <2> SUFFICES ASSUME Init PROVE Ownership
    OBVIOUS
  <2>1. \A s \in CliSockets : /\ viewer[s] = 0 /\ known[s] = 0 /\ conn[s] = "none"
                             /\ replies[s] = <<>> /\ inbox[s] = <<>>
    BY DEF Init, Sockets
  <2>2. EpochsOwned
    <3> SUFFICES ASSUME NEW s \in CliSockets PROVE SocketOwned(s)
      BY DEF EpochsOwned
    <3>1. Len(<<>>) = 0 /\ 1 .. 0 = {}
      OBVIOUS
    <3>2. 1 .. Len(replies[s]) = {} /\ 1 .. Len(inbox[s]) = {}
      BY <2>1, <3>1
    <3>3. QED
      BY <2>1, <3>2 DEF SocketOwned, Owned
  <2>3. QED
    BY <2>1, <2>2 DEF Ownership, NewestKeepsLease, LeavingIsViewer, FreshSocket
<1>2. TypeOK /\ TypeOK' /\ Ownership /\ [Next]_vars => Ownership'
  BY EpochsStep, NewestStep, FreshSocketStep DEF Ownership
<1>3. Ownership => NewestKeepsLease
  BY DEF Ownership
<1>4. QED
  BY <1>1, <1>2, <1>3, TypeCorrect, PTL DEF Spec
=============================================================================
