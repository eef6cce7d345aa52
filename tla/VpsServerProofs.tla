-------------------------- MODULE VpsServerProofs --------------------------
(***************************************************************************)
(* Proofs about the server's holes of a client, for any requests, ports    *)
(* and bounds.  The strengthening IInv says which epoch stands for which   *)
(* number in the core, the records, the tasks and the mailbox, and to      *)
(* which process of the client everything alive belongs.                   *)
(*                                                                         *)
(* The second half is about the service around them (Pairing): the list of *)
(* peers, its file, the clients of a VPS server and the port they knock    *)
(* at, for any callers, clients, names and sizes of the channel.           *)
(***************************************************************************)
EXTENDS VpsServer, Pairing, FiniteSetTheorems, SequenceTheorems, WellFoundedInduction, TLAPS

(* A function from a part of S to T. *)
Partial(S, T) == UNION {[D -> T] : D \in SUBSET S}

HoleRec == [epoch : Epoch, session : Session]
Record == [epoch : Epoch, offered : BOOLEAN]
TaskRec == [slot : Slot, session : Session, started : Nat, stage : Stage, aborted : BOOLEAN]
Spawn == [epoch : Epoch, request : Requests, old : Epoch]
Message == [kind : {"offer"}, slot : Slot, epoch : Epoch]
           \cup [kind : {"ended"}, slot : Slot, epoch : Epoch, retry : BOOLEAN]
Core == [holes : Partial(Slot, HoleRec), closed : Seq(Slot \X Session),
         nextEpoch : 0 .. MaxEpoch, started : Nat]

(* The types of the state, more exact than TypeOK needs to be for the runs. *)
Typed ==
    /\ client \in Clients
    /\ core \in Core
    /\ records \in Partial(Slot, Record)
    /\ replacing \in Spawn \cup {NoSpawn}
    /\ mailbox \in Seq(Message)
    /\ tasks \in Partial(Epoch, TaskRec)
    /\ leases \in Partial(Epoch, Port) /\ DOMAIN leases \subseteq DOMAIN tasks
    /\ ctl \in Partial(Slot, Epoch) /\ registry \in Partial(Slot, Epoch)
    /\ over \subseteq Session

(* No more than max_holes places are taken, CLOSED_MEMORY ends remembered. *)
Bounded ==
    /\ IsFiniteSet(DOMAIN core.holes) /\ Cardinality(DOMAIN core.holes) <= max_holes
    /\ Len(core.closed) <= CLOSED_MEMORY

(* Epochs are given in order, and no two numbers have the same. *)
EpochsAreOwn ==
    /\ \A s \in DOMAIN core.holes : core.holes[s].epoch <= core.nextEpoch
    /\ \A e \in DOMAIN tasks : e <= core.nextEpoch
    /\ \A i \in DOMAIN mailbox : mailbox[i].epoch <= core.nextEpoch
    /\ \A s, t \in DOMAIN core.holes : core.holes[s].epoch = core.holes[t].epoch => s = t

(* The task of a hole, and what it sends, bear the number of the hole. *)
EpochsNameHoles ==
    \A s \in DOMAIN core.holes :
        /\ core.holes[s].epoch \in DOMAIN tasks =>
              /\ tasks[core.holes[s].epoch].slot = s
              /\ tasks[core.holes[s].epoch].session = core.holes[s].session
        /\ \A i \in DOMAIN mailbox :
              mailbox[i].epoch = core.holes[s].epoch => mailbox[i].slot = s

(* The hole that waits for the end of the old task has no record and no task. *)
ReplacementWaits ==
    ~Idle =>
        LET s == replacing.request.slot
        IN  /\ replacing.request \in client /\ replacing.request.started = core.started
            /\ DOMAIN records = DOMAIN core.holes \ {s}
            /\ s \in DOMAIN core.holes
            /\ core.holes[s].epoch = replacing.epoch
            /\ core.holes[s].session = replacing.request.session
            /\ replacing.epoch \notin DOMAIN tasks
            /\ \A i \in DOMAIN mailbox : mailbox[i].epoch # replacing.epoch

EndedAreOver == \A e \in Epoch : EndedInMailbox(e) => ~Running(e)

(* Requests of the client made every hole and every task; what is alive is of *)
(* the process the core knows, and no task is of a later one.               *)
AliveAreOfThisProcess ==
    /\ core.started # 0 => \E r \in client : r.started = core.started
    /\ \A s \in DOMAIN core.holes :
          \E r \in client : /\ r.slot = s /\ r.session = core.holes[s].session
                            /\ r.started = core.started
    /\ \A e \in DOMAIN tasks :
          /\ \E r \in client : /\ r.slot = tasks[e].slot /\ r.session = tasks[e].session
                               /\ r.started = tasks[e].started
          /\ tasks[e].started <= core.started
          /\ Running(e) => tasks[e].started = core.started

IInv ==
    /\ Typed /\ Bounded
    /\ EpochsAreOwn /\ EpochsNameHoles /\ ReplacementWaits /\ EndedAreOver
    /\ AliveAreOfThisProcess /\ PlacesAreServed

(* While no more holes ended for good than the memory takes, it has every end *)
(* of this process, each once, and no hole that ended has a place.          *)
MemoryIsComplete ==
    Cardinality(over) <= CLOSED_MEMORY =>
        /\ \A i \in DOMAIN core.closed : core.closed[i][2] \in over
        /\ \A i, j \in DOMAIN core.closed : core.closed[i][2] = core.closed[j][2] => i = j
        /\ \A s \in DOMAIN core.holes : core.holes[s].session \notin over
        /\ \A x \in over : \E r \in client :
              /\ r.session = x /\ r.started <= core.started
              /\ r.started = core.started => Contains(core.closed, <<r.slot, x>>)

MIInv == IsFiniteSet(over) /\ MemoryIsComplete

(* With one thread: a task is running, or is being replaced, or is of an     *)
(* earlier process, and no two tasks have the same number.                  *)
TasksAreTold ==
    /\ \A e \in DOMAIN tasks :
          /\ tasks[e].stage # "over"
          /\ Running(e) \/ (~Idle /\ e = replacing.old) \/ tasks[e].started < core.started
    /\ \A e, f \in DOMAIN tasks : tasks[e].slot = tasks[f].slot => e = f

TIInv == TasksAreTold /\ TracesAreOwn

-----------------------------------------------------------------------------
(* Operators on functions.                                                 *)

(* A partial function, told by its domain and its values.                  *)
LEMMA PartialIs ==
    ASSUME NEW S, NEW T, NEW f
    PROVE  f \in Partial(S, T) <=> DOMAIN f \subseteq S /\ f \in [DOMAIN f -> T]
BY DEF Partial

LEMMA PartialValue ==
    ASSUME NEW S, NEW T, NEW f \in Partial(S, T), NEW x \in DOMAIN f
    PROVE  x \in S /\ f[x] \in T
BY DEF Partial

(* What With returns.                                                      *)
LEMMA WithIs ==
    ASSUME NEW f, NEW x, NEW v
    PROVE  /\ DOMAIN With(f, x, v) = {x} \cup DOMAIN f
           /\ With(f, x, v)[x] = v
           /\ \A y \in DOMAIN f \ {x} : With(f, x, v)[y] = f[y]
BY DEF With

(* With keeps a partial function one.                                      *)
LEMMA WithType ==
    ASSUME NEW S, NEW T, NEW f \in Partial(S, T), NEW x \in S, NEW v \in T
    PROVE  With(f, x, v) \in Partial(S, T)
<1>1. DOMAIN f \subseteq S /\ \A y \in DOMAIN f : f[y] \in T
  BY PartialIs
<1>2. With(f, x, v) \in [{x} \cup DOMAIN f -> T]
  BY <1>1 DEF With
<1> QED
  BY <1>1, <1>2 DEF Partial

(* What Without returns.                                                   *)
LEMMA WithoutIs ==
    ASSUME NEW f, NEW x
    PROVE  /\ DOMAIN Without(f, x) = DOMAIN f \ {x}
           /\ \A y \in DOMAIN f \ {x} : Without(f, x)[y] = f[y]
BY DEF Without, Restrict

(* Without keeps a partial function one.                                   *)
LEMMA WithoutType ==
    ASSUME NEW S, NEW T, NEW f \in Partial(S, T), NEW x
    PROVE  Without(f, x) \in Partial(S, T)
<1>1. DOMAIN f \subseteq S /\ \A y \in DOMAIN f : f[y] \in T
  BY PartialIs
<1>2. Without(f, x) \in [DOMAIN f \ {x} -> T]
  BY <1>1 DEF Without, Restrict
<1> QED
  BY <1>1, <1>2 DEF Partial

(* The empty function is one.                                              *)
LEMMA EmptyType == ASSUME NEW S, NEW T PROVE <<>> \in Partial(S, T) /\ DOMAIN <<>> = {}
<1>1. <<>> \in [{} -> T] /\ DOMAIN <<>> = {}
  OBVIOUS
<1> QED
  BY <1>1 DEF Partial

(* Aborted changes nothing but the flags.                                  *)
LEMMA AbortedIs ==
    ASSUME NEW E, tasks \in Partial(Epoch, TaskRec)
    PROVE  /\ Aborted(E) \in Partial(Epoch, TaskRec)
           /\ DOMAIN Aborted(E) = DOMAIN tasks
           /\ \A e \in DOMAIN tasks :
                 /\ Aborted(E)[e].slot = tasks[e].slot
                 /\ Aborted(E)[e].session = tasks[e].session
                 /\ Aborted(E)[e].started = tasks[e].started
                 /\ Aborted(E)[e].stage = tasks[e].stage
                 /\ Aborted(E)[e].aborted = (tasks[e].aborted \/ e \in E)
<1>1. DOMAIN tasks \subseteq Epoch /\ \A e \in DOMAIN tasks : tasks[e] \in TaskRec
  BY PartialIs
<1>2. \A e \in DOMAIN tasks : [tasks[e] EXCEPT !.aborted = @ \/ e \in E] \in TaskRec
  BY <1>1 DEF TaskRec
<1>3. Aborted(E) \in [DOMAIN tasks -> TaskRec]
  BY <1>2 DEF Aborted
<1>4. \A e \in DOMAIN tasks : Aborted(E)[e] = [tasks[e] EXCEPT !.aborted = @ \/ e \in E]
  BY DEF Aborted
<1> QED
  BY <1>1, <1>3, <1>4 DEF Partial, TaskRec

(* Requests have the types of what they name.                              *)
LEMMA RequestTypes ==
    ASSUME client \in Clients, NEW r \in client
    PROVE  r \in Requests /\ r.slot \in Slot /\ r.session \in Session /\ r.started \in Nat
BY VpsServerAssumption DEF Requests, Slot, Session

(* What the core is after it looked at the start of the client's process.  *)
LEMMA GreetedIs ==
    ASSUME core \in Core, client \in Clients, NEW r \in client
    PROVE  /\ Greeted(r) \in Core
           /\ Greeted(r).holes = IF Restarted(r) THEN <<>> ELSE core.holes
           /\ Greeted(r).closed = IF Grown(r) THEN <<>> ELSE core.closed
           /\ Greeted(r).nextEpoch = core.nextEpoch
           /\ Greeted(r).started = IF Grown(r) THEN r.started ELSE core.started
<1>1. <<>> \in Partial(Slot, HoleRec) /\ <<>> \in Seq(Slot \X Session)
  BY EmptyType
<1> QED
  BY <1>1, RequestTypes DEF Greeted, Core

(* What it is after it gave a hole its epoch.                              *)
LEMMA SpawnedIs ==
    ASSUME NEW c \in Core, client \in Clients, NEW r \in client, c.nextEpoch < MaxEpoch
    PROVE  /\ Spawned(c, r) \in Core
           /\ c.nextEpoch + 1 \in Epoch
           /\ Spawned(c, r).holes =
                 With(c.holes, r.slot, [epoch |-> c.nextEpoch + 1, session |-> r.session])
           /\ Spawned(c, r).closed = c.closed
           /\ Spawned(c, r).nextEpoch = c.nextEpoch + 1
           /\ Spawned(c, r).started = c.started
<1>1. r.slot \in Slot /\ r.session \in Session
  BY RequestTypes
<1>2. c.nextEpoch + 1 \in Epoch
  BY VpsServerAssumption DEF Core, Epoch
<1>3. [epoch |-> c.nextEpoch + 1, session |-> r.session] \in HoleRec
  BY <1>1, <1>2 DEF HoleRec
<1> DEFINE h == With(c.holes, r.slot, [epoch |-> c.nextEpoch + 1, session |-> r.session])
<1>4. h \in Partial(Slot, HoleRec)
  BY <1>1, <1>3, WithType DEF Core
<1>5. Spawned(c, r) = [c EXCEPT !.nextEpoch = c.nextEpoch + 1, !.holes = h]
  BY DEF Spawned
<1>6. c.nextEpoch + 1 \in 0 .. MaxEpoch
  BY <1>2 DEF Epoch
<1> HIDE DEF h
<1>7. /\ Spawned(c, r) \in Core
      /\ Spawned(c, r).holes = h
      /\ Spawned(c, r).closed = c.closed
      /\ Spawned(c, r).nextEpoch = c.nextEpoch + 1
      /\ Spawned(c, r).started = c.started
  BY <1>4, <1>5, <1>6 DEF Core
<1> QED
  BY <1>2, <1>7 DEF h

(* What the core forgets and remembers with a hole that ended.             *)
LEMMA ClosedIs ==
    ASSUME core \in Core, NEW m \in Message, m.kind = "ended", IsCurrent(m)
    PROVE  /\ Closed(m) \in Core
           /\ Closed(m).holes = Without(core.holes, m.slot)
           /\ Closed(m).nextEpoch = core.nextEpoch
           /\ Closed(m).started = core.started
           /\ Closed(m).closed =
                 IF m.retry THEN core.closed
                 ELSE IF Len(Append(core.closed, <<m.slot, core.holes[m.slot].session>>)) > CLOSED_MEMORY
                      THEN Tail(Append(core.closed, <<m.slot, core.holes[m.slot].session>>))
                      ELSE Append(core.closed, <<m.slot, core.holes[m.slot].session>>)
<1> DEFINE new == Append(core.closed, <<m.slot, core.holes[m.slot].session>>)
<1>1. /\ core.holes \in Partial(Slot, HoleRec) /\ core.closed \in Seq(Slot \X Session)
  BY DEF Core
<1>2. m.slot \in Slot /\ core.holes[m.slot] \in HoleRec
  BY <1>1, PartialIs DEF IsCurrent
<1>3. <<m.slot, core.holes[m.slot].session>> \in Slot \X Session
  BY <1>2 DEF HoleRec
<1>4. new \in Seq(Slot \X Session) /\ Tail(new) \in Seq(Slot \X Session)
  BY <1>1, <1>3, AppendProperties, HeadTailProperties
<1>5. Without(core.holes, m.slot) \in Partial(Slot, HoleRec)
  BY <1>1, WithoutType
<1> QED
  BY <1>1, <1>4, <1>5 DEF Closed, Core

-----------------------------------------------------------------------------
(* Types.                                                                  *)

(* NoSpawn tells an actor that does not wait from one that does.           *)
LEMMA IdleIs ==
    ASSUME replacing \in Spawn \cup {NoSpawn}
    PROVE  ~Idle => replacing \in Spawn
BY DEF Idle

LEMMA SpawnIsNoNoSpawn == \A s \in Spawn : s # NoSpawn
<1>1. \A s \in Spawn : s.epoch # 0
  BY VpsServerAssumption DEF Spawn, Epoch
<1> QED
  BY <1>1 DEF NoSpawn

(* Initially.                                                              *)
LEMMA InitTyped == Init => Typed /\ Bounded
<1> SUFFICES ASSUME Init
             PROVE  Typed /\ Bounded
  OBVIOUS
<1>1. core.holes = <<>> /\ core.closed = <<>> /\ core.nextEpoch = 0 /\ core.started = 0
  BY DEF Init
<1>2. \A S, T : <<>> \in Partial(S, T)
  BY EmptyType
<1>3. core \in Core
  BY <1>2, VpsServerAssumption, EmptySeq DEF Init, Core
<1>4. mailbox \in Seq(Message) /\ DOMAIN core.holes = {} /\ Len(core.closed) = 0
  BY <1>1, EmptySeq DEF Init
<1>5. Typed
  BY <1>2, <1>3, <1>4 DEF Init, Typed
<1>6. Bounded
  BY <1>4, FS_EmptySet, VpsServerAssumption DEF Bounded
<1> QED
  BY <1>5, <1>6

(* What a knock leaves of the types.                                       *)
LEMMA SpawnHoleTyped ==
    ASSUME client \in Clients, ctl \in Partial(Slot, Epoch),
           NEW r \in client, NEW e \in Epoch, NEW remaining \in Partial(Slot, Record),
           NEW running \in Partial(Epoch, TaskRec), SpawnHole(r, e, remaining, running)
    PROVE  /\ records' \in Partial(Slot, Record)
           /\ tasks' \in Partial(Epoch, TaskRec)
           /\ DOMAIN running \subseteq DOMAIN tasks'
           /\ ctl' \in Partial(Slot, Epoch)
<1>1. r.slot \in Slot /\ r.session \in Session /\ r.started \in Nat
  BY RequestTypes
<1>2. [epoch |-> e, offered |-> FALSE] \in Record /\ Task(r) \in TaskRec
  BY <1>1 DEF Record, TaskRec, Task, Stage
<1> DEFINE rec == [epoch |-> e, offered |-> FALSE]
<1>3. records' = With(remaining, r.slot, rec) /\ tasks' = With(running, e, Task(r))
      /\ ctl' = With(ctl, r.slot, e)
  BY DEF SpawnHole
<1>4. rec \in Record
  BY <1>2
<1> HIDE DEF rec
<1>5. records' \in Partial(Slot, Record)
  BY <1>1, <1>3, <1>4, WithType
<1>6. tasks' \in Partial(Epoch, TaskRec)
  BY <1>2, <1>3, WithType
<1>7. DOMAIN running \subseteq DOMAIN tasks'
  BY <1>3 DEF With
<1>8. ctl' \in Partial(Slot, Epoch)
  BY <1>1, <1>3, WithType
<1> QED
  BY <1>5, <1>6, <1>7, <1>8

LEMMA KnockTyped ==
    ASSUME Typed, NEW r \in client, Knock(r)
    PROVE  Typed'
<1> DEFINE c == Greeted(r)
<1>1. /\ client \in Clients /\ core \in Core /\ records \in Partial(Slot, Record)
      /\ tasks \in Partial(Epoch, TaskRec) /\ ctl \in Partial(Slot, Epoch)
      /\ replacing = NoSpawn
  BY DEF Typed, Knock, Idle
<1>2. c \in Core /\ c.nextEpoch = core.nextEpoch /\ c.nextEpoch < MaxEpoch
  BY <1>1, GreetedIs DEF Knock
<1>3. Spawned(c, r) \in Core /\ c.nextEpoch + 1 \in Epoch
  BY <1>1, <1>2, SpawnedIs
<1>4. \A E : Aborted(E) \in Partial(Epoch, TaskRec) /\ DOMAIN Aborted(E) = DOMAIN tasks
  BY <1>1, AbortedIs
<1>5. <<>> \in Partial(Slot, Record)
  BY EmptyType
<1>6. SUFFICES /\ core' \in Core
               /\ records' \in Partial(Slot, Record)
               /\ tasks' \in Partial(Epoch, TaskRec) /\ DOMAIN tasks \subseteq DOMAIN tasks'
               /\ ctl' \in Partial(Slot, Epoch)
               /\ replacing' \in Spawn \cup {NoSpawn}
  BY DEF Typed, Knock
<1>7. CASE KnockWithoutHole(r)
  BY <1>1, <1>2, <1>4, <1>5, <1>7 DEF KnockWithoutHole
<1>8. CASE KnockSpawns(r)
  <2>1. core' \in Core /\ replacing' = NoSpawn
    BY <1>1, <1>3, <1>8 DEF KnockSpawns
  <2>2. CASE Restarted(r)
    <3>1. SpawnHole(r, c.nextEpoch + 1, <<>>, Aborted(RecordedEpochs(DOMAIN records)))
      BY <1>8, <2>2 DEF KnockSpawns
    <3> QED
      BY <1>1, <1>3, <1>4, <1>5, <2>1, <3>1, SpawnHoleTyped
  <2>3. CASE ~Restarted(r)
    <3>1. SpawnHole(r, c.nextEpoch + 1, records, tasks)
      BY <1>8, <2>3 DEF KnockSpawns
    <3> QED
      BY <1>1, <1>3, <2>1, <3>1, SpawnHoleTyped
  <2> QED
    BY <2>2, <2>3
<1>9. CASE KnockReplaces(r)
  <2>1. core' \in Core /\ records' = Without(records, r.slot) /\ ctl' = ctl
        /\ tasks' = Aborted({records[r.slot].epoch})
        /\ replacing' = [epoch |-> c.nextEpoch + 1, request |-> r,
                         old |-> records[r.slot].epoch]
        /\ r.slot \in DOMAIN records
    BY <1>3, <1>9 DEF KnockReplaces
  <2>2. records[r.slot].epoch \in Epoch
    <3>1. records[r.slot] \in Record
      BY <1>1, <2>1, PartialValue
    <3> QED
      BY <3>1 DEF Record
  <2>3. r \in Requests
    BY <1>1, RequestTypes
  <2>4. replacing' \in Spawn
    BY <1>3, <2>1, <2>2, <2>3 DEF Spawn
  <2> QED
    BY <1>1, <1>4, <2>1, <2>4, WithoutType
<1> QED
  BY <1>7, <1>8, <1>9 DEF Knock

LEMMA ReplaceTyped ==
    ASSUME Typed, Replace
    PROVE  Typed'
<1>1. replacing \in Spawn
  BY IdleIs DEF Typed, Replace
<1>2. replacing.epoch \in Epoch /\ replacing.request \in Requests
  BY <1>1 DEF Spawn
<1> DEFINE r == replacing.request
           rec == [epoch |-> replacing.epoch, offered |-> FALSE]
<1>3. r.slot \in Slot /\ r.session \in Session /\ r.started \in Nat
  BY <1>2, VpsServerAssumption DEF Slot, Session
<1>4. rec \in Record /\ Task(r) \in TaskRec
  BY <1>2, <1>3 DEF Record, TaskRec, Task, Stage
<1>5. /\ records' = With(records, r.slot, rec)
      /\ tasks' = With(tasks, replacing.epoch, Task(r))
      /\ ctl' = With(ctl, r.slot, replacing.epoch)
      /\ replacing' = NoSpawn
      /\ UNCHANGED <<client, core, mailbox, leases, registry, over>>
  BY DEF Replace, SpawnHole
<1> HIDE DEF rec
<1>6. records' \in Partial(Slot, Record)
  BY <1>3, <1>4, <1>5, WithType DEF Typed
<1>7. tasks' \in Partial(Epoch, TaskRec) /\ DOMAIN tasks \subseteq DOMAIN tasks'
  <2>1. tasks' \in Partial(Epoch, TaskRec)
    BY <1>2, <1>4, <1>5, WithType DEF Typed
  <2>2. DOMAIN tasks \subseteq DOMAIN tasks'
    BY <1>5 DEF With
  <2> QED
    BY <2>1, <2>2
<1>8. ctl' \in Partial(Slot, Epoch)
  BY <1>2, <1>3, <1>5, WithType DEF Typed
<1> QED
  BY <1>5, <1>6, <1>7, <1>8 DEF Typed

(* The head of the mailbox and the rest.                                   *)
LEMMA HeadIs ==
    ASSUME mailbox \in Seq(Message), mailbox # <<>>
    PROVE  /\ Head(mailbox) \in Message /\ Tail(mailbox) \in Seq(Message)
           /\ 1 \in DOMAIN mailbox /\ mailbox[1] = Head(mailbox)
           /\ \A i \in DOMAIN Tail(mailbox) :
                 i + 1 \in DOMAIN mailbox /\ Tail(mailbox)[i] = mailbox[i + 1]
           /\ \A i \in DOMAIN mailbox \ {1} :
                 i - 1 \in DOMAIN Tail(mailbox) /\ mailbox[i] = Tail(mailbox)[i - 1]
<1>1. Head(mailbox) \in Message /\ Tail(mailbox) \in Seq(Message)
      /\ Len(Tail(mailbox)) = Len(mailbox) - 1
      /\ \A i \in 1 .. Len(Tail(mailbox)) : Tail(mailbox)[i] = mailbox[i + 1]
  BY HeadTailProperties
<1>2. Len(mailbox) \in Nat \ {0} /\ DOMAIN mailbox = 1 .. Len(mailbox)
      /\ DOMAIN Tail(mailbox) = 1 .. Len(Tail(mailbox))
  BY <1>1, EmptySeq, LenProperties
<1>3. Head(mailbox) = mailbox[1]
  OBVIOUS
<1> QED
  BY <1>1, <1>2, <1>3

LEMMA ReceiveTyped ==
    ASSUME Typed, Receive
    PROVE  Typed'
<1> DEFINE m == Head(mailbox)
<1>1. m \in Message /\ mailbox' = Tail(mailbox) /\ mailbox' \in Seq(Message)
  BY HeadIs DEF Typed, Receive
<1>2. UNCHANGED <<client, replacing, tasks, leases, ctl, registry>>
  BY DEF Receive
<1>3. CASE m.kind = "offer" /\ UNCHANGED <<core, over>>
           /\ records' = IF m.slot \in DOMAIN records /\ records[m.slot].epoch = m.epoch
                         THEN [records EXCEPT ![m.slot].offered = TRUE] ELSE records
  <2>1. \A s \in DOMAIN records : records[s] \in Record
    BY PartialValue DEF Typed
  <2>2. \A s \in DOMAIN records : [records[s] EXCEPT !.offered = TRUE] \in Record
    BY <2>1 DEF Record
  <2>3. DOMAIN records \subseteq Slot /\ records \in [DOMAIN records -> Record]
    BY PartialIs DEF Typed
  <2>4. DOMAIN records' = DOMAIN records /\ records' \in [DOMAIN records -> Record]
    BY <1>3, <2>2, <2>3
  <2>5. records' \in Partial(Slot, Record)
    BY <2>3, <2>4 DEF Partial
  <2> QED
    BY <1>1, <1>2, <1>3, <2>5 DEF Typed
<1>4. CASE /\ m.kind = "ended" /\ IsCurrent(m) /\ core' = Closed(m)
           /\ records' = Without(records, m.slot)
           /\ over' = IF m.retry THEN over ELSE over \cup {core.holes[m.slot].session}
  <2>1. core.holes[m.slot] \in HoleRec
    BY <1>4, PartialValue DEF Typed, Core, IsCurrent
  <2>2. over' \subseteq Session
    BY <1>4, <2>1 DEF Typed, HoleRec
  <2>3. core' \in Core /\ records' \in Partial(Slot, Record)
    BY <1>1, <1>4, ClosedIs, WithoutType DEF Typed
  <2> QED
    BY <1>1, <1>2, <2>2, <2>3 DEF Typed
<1>5. CASE UNCHANGED <<core, records, over>>
  BY <1>1, <1>2, <1>5 DEF Typed
<1> QED
  BY <1>3, <1>4, <1>5 DEF Receive

(* A task changes its stage.                                               *)
LEMMA StagedIs ==
    ASSUME tasks \in Partial(Epoch, TaskRec), NEW e \in DOMAIN tasks, NEW g \in Stage,
           tasks' = [tasks EXCEPT ![e].stage = g]
    PROVE  /\ tasks' \in Partial(Epoch, TaskRec)
           /\ DOMAIN tasks' = DOMAIN tasks
           /\ \A f \in DOMAIN tasks :
                 /\ tasks'[f].slot = tasks[f].slot /\ tasks'[f].session = tasks[f].session
                 /\ tasks'[f].started = tasks[f].started
                 /\ tasks'[f].aborted = tasks[f].aborted
                 /\ tasks'[f].stage = IF f = e THEN g ELSE tasks[f].stage
<1>1. DOMAIN tasks \subseteq Epoch /\ tasks \in [DOMAIN tasks -> TaskRec]
      /\ \A f \in DOMAIN tasks : tasks[f] \in TaskRec
  BY PartialIs
<1>2. [tasks[e] EXCEPT !.stage = g] \in TaskRec
  BY <1>1 DEF TaskRec
<1>3. DOMAIN tasks' = DOMAIN tasks /\ tasks' \in [DOMAIN tasks -> TaskRec]
  BY <1>1, <1>2
<1>4. \A f \in DOMAIN tasks :
         tasks'[f] = IF f = e THEN [tasks[e] EXCEPT !.stage = g] ELSE tasks[f]
  BY <1>1
<1>5. tasks' \in Partial(Epoch, TaskRec)
  BY <1>1, <1>3 DEF Partial
<1> QED
  BY <1>1, <1>3, <1>4, <1>5 DEF TaskRec

(* A task sends a message.                                                 *)
LEMMA SentIs ==
    ASSUME mailbox \in Seq(Message), NEW m \in Message, mailbox' = Append(mailbox, m)
    PROVE  /\ mailbox' \in Seq(Message)
           /\ \A i \in DOMAIN mailbox : i \in DOMAIN mailbox' /\ mailbox'[i] = mailbox[i]
           /\ \A i \in DOMAIN mailbox' :
                 (i \in DOMAIN mailbox /\ mailbox'[i] = mailbox[i]) \/ mailbox'[i] = m
           /\ \E i \in DOMAIN mailbox' : mailbox'[i] = m
<1>1. /\ mailbox' \in Seq(Message) /\ Len(mailbox') = Len(mailbox) + 1
      /\ \A i \in 1 .. Len(mailbox) : mailbox'[i] = mailbox[i]
      /\ mailbox'[Len(mailbox) + 1] = m
  BY AppendProperties
<1>2. Len(mailbox) \in Nat /\ DOMAIN mailbox = 1 .. Len(mailbox)
      /\ DOMAIN mailbox' = 1 .. Len(mailbox')
  BY <1>1, LenProperties
<1> QED
  BY <1>1, <1>2

-----------------------------------------------------------------------------
(* A step of the task e leaves the actor alone.  It sends only for itself,  *)
(* and it stops running, if it did, only with Ended.                        *)
TaskMoves(e) ==
    /\ UNCHANGED <<client, actorVars, over>>
    /\ DOMAIN tasks' \subseteq DOMAIN tasks
    /\ \A f \in DOMAIN tasks' :
          /\ tasks'[f].slot = tasks[f].slot /\ tasks'[f].session = tasks[f].session
          /\ tasks'[f].started = tasks[f].started
    /\ \A f \in Epoch : (Running(f))' => Running(f)
    /\ \A f \in Epoch \ {e} : Running(f) => (Running(f))'
    /\ \A i \in DOMAIN mailbox : i \in DOMAIN mailbox' /\ mailbox'[i] = mailbox[i]
    /\ \A i \in DOMAIN mailbox' :
          \/ i \in DOMAIN mailbox /\ mailbox'[i] = mailbox[i]
          \/ /\ e \in DOMAIN tasks
             /\ mailbox'[i].epoch = e /\ mailbox'[i].slot = tasks[e].slot
             /\ mailbox'[i].kind = "ended" => ~(Running(e))'
    /\ Running(e) => (Running(e))' \/ (EndedInMailbox(e))'

LEMMA ListenMoves ==
    ASSUME Typed, NEW e \in Epoch, Listen(e)
    PROVE  Typed' /\ TaskMoves(e)
<1> DEFINE m == [kind |-> "offer", slot |-> tasks[e].slot, epoch |-> e]
<1>1. e \in DOMAIN tasks /\ tasks[e] \in TaskRec
  BY PartialValue DEF Typed, Listen, Running
<1>2. tasks' = [tasks EXCEPT ![e].stage = "punching"] /\ "punching" \in Stage
  BY DEF Listen, Stage
<1>3. /\ tasks' \in Partial(Epoch, TaskRec) /\ DOMAIN tasks' = DOMAIN tasks
      /\ \A f \in DOMAIN tasks :
            /\ tasks'[f].slot = tasks[f].slot /\ tasks'[f].session = tasks[f].session
            /\ tasks'[f].started = tasks[f].started /\ tasks'[f].aborted = tasks[f].aborted
            /\ tasks'[f].stage = IF f = e THEN "punching" ELSE tasks[f].stage
  BY <1>1, <1>2, StagedIs DEF Typed
<1>4. m \in Message /\ m.kind = "offer" /\ m.epoch = e /\ m.slot = tasks[e].slot
  BY <1>1 DEF Message, TaskRec
<1>5. mailbox' = Append(mailbox, m)
  BY DEF Listen
<1> HIDE DEF m
<1>6. /\ mailbox' \in Seq(Message)
      /\ \A i \in DOMAIN mailbox : i \in DOMAIN mailbox' /\ mailbox'[i] = mailbox[i]
      /\ \A i \in DOMAIN mailbox' :
            (i \in DOMAIN mailbox /\ mailbox'[i] = mailbox[i]) \/ mailbox'[i] = m
  BY <1>4, <1>5, SentIs DEF Typed
<1>7. PICK p \in FreePorts : leases' = With(leases, e, p)
  BY DEF Listen
<1>8. leases' \in Partial(Epoch, Port)
  BY <1>7, WithType DEF FreePorts, Typed
<1>9. DOMAIN leases' \subseteq DOMAIN tasks'
  BY <1>1, <1>3, <1>7 DEF Typed, With
<1>10. Typed'
  BY <1>3, <1>6, <1>8, <1>9 DEF Typed, Listen, actorVars
<1>11. \A f \in Epoch : Running(f) <=> (Running(f))'
  BY <1>1, <1>3 DEF Running, Listen
<1> QED
  BY <1>1, <1>3, <1>4, <1>6, <1>10, <1>11 DEF TaskMoves, Listen

LEMMA HoldMoves ==
    ASSUME Typed, NEW e \in Epoch, Hold(e)
    PROVE  Typed' /\ TaskMoves(e)
<1>1. e \in DOMAIN tasks /\ tasks[e] \in TaskRec
  BY PartialValue DEF Typed, Hold, Running
<1>2. tasks' = [tasks EXCEPT ![e].stage = "held"] /\ "held" \in Stage
  BY DEF Hold, Stage
<1>3. /\ tasks' \in Partial(Epoch, TaskRec) /\ DOMAIN tasks' = DOMAIN tasks
      /\ \A f \in DOMAIN tasks :
            /\ tasks'[f].slot = tasks[f].slot /\ tasks'[f].session = tasks[f].session
            /\ tasks'[f].started = tasks[f].started /\ tasks'[f].aborted = tasks[f].aborted
            /\ tasks'[f].stage = IF f = e THEN "held" ELSE tasks[f].stage
  BY <1>1, <1>2, StagedIs DEF Typed
<1>4. registry' = With(registry, tasks[e].slot, e) /\ tasks[e].slot \in Slot
  BY <1>1 DEF Hold, TaskRec
<1>5. registry' \in Partial(Slot, Epoch)
  BY <1>4, WithType DEF Typed
<1>6. Typed'
  BY <1>3, <1>5 DEF Typed, Hold, actorVars
<1>7. \A f \in Epoch : Running(f) <=> (Running(f))'
  BY <1>1, <1>3 DEF Running, Hold
<1> QED
  BY <1>3, <1>6, <1>7 DEF TaskMoves, Hold

(* What the drop of a task leaves.                                         *)
LEMMA DroppedIs ==
    ASSUME Typed, NEW e \in DOMAIN tasks, Dropped(e)
    PROVE  /\ tasks' \in Partial(Epoch, TaskRec)
           /\ ctl' \in Partial(Slot, Epoch) /\ registry' \in Partial(Slot, Epoch)
           /\ DOMAIN tasks' = DOMAIN tasks \ {e}
           /\ \A f \in DOMAIN tasks' : tasks'[f] = tasks[f]
<1>1. tasks' \in Partial(Epoch, TaskRec)
      /\ ctl' \in Partial(Slot, Epoch) /\ registry' \in Partial(Slot, Epoch)
  BY WithoutType DEF Typed, Dropped
<1> QED
  BY <1>1 DEF Dropped, Without, Restrict

LEMMA EndTaskMoves ==
    ASSUME Typed, NEW e \in Epoch, Running(e), NEW retry \in BOOLEAN, EndTask(e, retry)
    PROVE  /\ Typed' /\ TaskMoves(e)
           /\ (EndedInMailbox(e))'
<1> DEFINE m == [kind |-> "ended", slot |-> tasks[e].slot, epoch |-> e, retry |-> retry]
<1>1. e \in DOMAIN tasks /\ tasks[e] \in TaskRec
  BY PartialValue DEF Typed, Running
<1>2. m \in Message /\ m.kind = "ended" /\ m.epoch = e /\ m.slot = tasks[e].slot
  BY <1>1 DEF Message, TaskRec
<1>3. mailbox' = Append(mailbox, m)
  BY DEF EndTask
<1> HIDE DEF m
<1>4. /\ mailbox' \in Seq(Message)
      /\ \A i \in DOMAIN mailbox : i \in DOMAIN mailbox' /\ mailbox'[i] = mailbox[i]
      /\ \A i \in DOMAIN mailbox' :
            (i \in DOMAIN mailbox /\ mailbox'[i] = mailbox[i]) \/ mailbox'[i] = m
      /\ \E i \in DOMAIN mailbox' : mailbox'[i] = m
  BY <1>2, <1>3, SentIs DEF Typed
<1>5. leases' \in Partial(Epoch, Port) /\ DOMAIN leases' = DOMAIN leases \ {e}
  BY WithoutType, WithoutIs DEF Typed, EndTask
<1>6. /\ tasks' \in Partial(Epoch, TaskRec)
      /\ ctl' \in Partial(Slot, Epoch) /\ registry' \in Partial(Slot, Epoch)
      /\ DOMAIN tasks \ {e} \subseteq DOMAIN tasks' /\ DOMAIN tasks' \subseteq DOMAIN tasks
      /\ \A f \in DOMAIN tasks' :
            /\ tasks'[f].slot = tasks[f].slot /\ tasks'[f].session = tasks[f].session
            /\ tasks'[f].started = tasks[f].started /\ tasks'[f].aborted = tasks[f].aborted
            /\ tasks'[f].stage = IF f = e THEN "over" ELSE tasks[f].stage
  <2>1. CASE MultiThread
    <3>1. tasks' = [tasks EXCEPT ![e].stage = "over"] /\ "over" \in Stage /\ ctl' = ctl
          /\ (registry' = registry \/ registry' = Without(registry, tasks[e].slot))
      BY <2>1 DEF EndTask, Stage
    <3>2. registry' \in Partial(Slot, Epoch) /\ ctl' \in Partial(Slot, Epoch)
      BY <3>1, WithoutType DEF Typed
    <3>3. /\ tasks' \in Partial(Epoch, TaskRec) /\ DOMAIN tasks' = DOMAIN tasks
          /\ \A f \in DOMAIN tasks :
                /\ tasks'[f].slot = tasks[f].slot /\ tasks'[f].session = tasks[f].session
                /\ tasks'[f].started = tasks[f].started
                /\ tasks'[f].aborted = tasks[f].aborted
                /\ tasks'[f].stage = IF f = e THEN "over" ELSE tasks[f].stage
      <4>1. tasks \in Partial(Epoch, TaskRec)
        BY DEF Typed
      <4> QED
        BY <1>1, <3>1, <4>1, StagedIs
    <3> QED
      BY <3>2, <3>3
  <2>2. CASE ~MultiThread
    <3>1. Dropped(e)
      BY <2>2 DEF EndTask
    <3> QED
      BY <1>1, <3>1, DroppedIs
  <2> QED
    BY <2>1, <2>2
<1>7. Typed'
  BY <1>4, <1>5, <1>6 DEF Typed, EndTask, actorVars
<1>8. /\ \A f \in Epoch \ {e} : Running(f) <=> (Running(f))'
      /\ ~(Running(e))'
  BY <1>6 DEF Running
<1>9. (EndedInMailbox(e))'
  BY <1>2, <1>4 DEF EndedInMailbox
<1>10. \A f \in Epoch : (Running(f))' => Running(f)
  BY <1>8
<1> QED
  BY <1>1, <1>2, <1>4, <1>6, <1>7, <1>8, <1>9, <1>10 DEF TaskMoves, EndTask

LEMMA DropMoves ==
    ASSUME Typed, NEW e \in Epoch, Drop(e)
    PROVE  Typed' /\ TaskMoves(e)
<1>1. e \in DOMAIN tasks /\ ~Running(e) /\ Dropped(e) /\ leases' = Without(leases, e)
      /\ UNCHANGED <<client, actorVars, mailbox, over>>
  BY DEF Drop
<1>2. /\ tasks' \in Partial(Epoch, TaskRec)
      /\ ctl' \in Partial(Slot, Epoch) /\ registry' \in Partial(Slot, Epoch)
      /\ DOMAIN tasks' = DOMAIN tasks \ {e}
      /\ \A f \in DOMAIN tasks' : tasks'[f] = tasks[f]
  BY <1>1, DroppedIs
<1>3. leases' \in Partial(Epoch, Port) /\ DOMAIN leases' = DOMAIN leases \ {e}
  BY <1>1, WithoutType, WithoutIs DEF Typed
<1>4. Typed'
  BY <1>1, <1>2, <1>3 DEF Typed, actorVars
<1>5. /\ \A f \in Epoch \ {e} : Running(f) <=> (Running(f))'
      /\ ~(Running(e))'
  BY <1>2 DEF Running
<1> QED
  BY <1>1, <1>2, <1>4, <1>5 DEF TaskMoves

(* Every step of a task is one of these.                                   *)
LEMMA TasksMove ==
    ASSUME Typed, NEW e \in Epoch, Listen(e) \/ NoPort(e) \/ Hold(e) \/ End(e) \/ Drop(e)
    PROVE  Typed' /\ TaskMoves(e)
<1>1. CASE NoPort(e)
  BY <1>1, EndTaskMoves DEF NoPort
<1>2. CASE End(e)
  BY <1>2, EndTaskMoves DEF End
<1> QED
  BY <1>1, <1>2, ListenMoves, HoldMoves, DropMoves

-----------------------------------------------------------------------------
(* The strengthening is kept.                                              *)

LEMMA MovesKeep ==
    ASSUME IInv, NEW e \in Epoch, Typed', TaskMoves(e)
    PROVE  IInv'
<1>1. UNCHANGED <<client, core, records, replacing, over>>
  BY DEF TaskMoves, actorVars
<1>2. Bounded'
  BY <1>1 DEF IInv, Bounded
<1>3. EpochsAreOwn'
  BY <1>1 DEF IInv, EpochsAreOwn, TaskMoves
<1>4. EpochsNameHoles'
  BY <1>1 DEF IInv, EpochsNameHoles, TaskMoves
<1>5. ReplacementWaits'
  BY <1>1 DEF IInv, ReplacementWaits, TaskMoves, Idle
<1>6. EndedAreOver'
  BY <1>1 DEF IInv, EndedAreOver, EndedInMailbox, TaskMoves
<1>7. AliveAreOfThisProcess'
  <2>1. \A f \in DOMAIN tasks' : f \in Epoch /\ ((Running(f))' => Running(f))
    BY PartialIs DEF TaskMoves, Typed
  <2> QED
    BY <1>1, <2>1 DEF IInv, AliveAreOfThisProcess, TaskMoves
<1>8. PlacesAreServed'
  <2>1. \A f \in Epoch : EndedInMailbox(f) => (EndedInMailbox(f))'
    BY DEF TaskMoves, EndedInMailbox
  <2>2. \A f \in Epoch : Running(f) => (Running(f))' \/ (EndedInMailbox(f))'
    BY DEF TaskMoves
  <2>3. \A s \in DOMAIN records : records[s].epoch \in Epoch
    <3>1. \A s \in DOMAIN records : records[s] \in Record
      BY PartialValue DEF IInv, Typed
    <3> QED
      BY <3>1 DEF Record
  <2>4. \A f \in Epoch : (Running(f))' => Running(f) /\ tasks'[f].slot = tasks[f].slot
    BY DEF TaskMoves, Running
  <2> QED
    BY <1>1, <2>1, <2>2, <2>3, <2>4 DEF IInv, PlacesAreServed, Idle
<1> QED
  BY <1>2, <1>3, <1>4, <1>5, <1>6, <1>7, <1>8 DEF IInv

(* The actor reads what a task sent.                                       *)
LEMMA ReceiveKeeps ==
    ASSUME IInv, Receive
    PROVE  IInv'
<1> DEFINE m == Head(mailbox)
<1>1. Typed'
  BY ReceiveTyped DEF IInv
<1>2. /\ m \in Message /\ 1 \in DOMAIN mailbox /\ mailbox[1] = m
      /\ \A i \in DOMAIN mailbox' : i + 1 \in DOMAIN mailbox /\ mailbox'[i] = mailbox[i + 1]
      /\ \A i \in DOMAIN mailbox \ {1} :
            i - 1 \in DOMAIN mailbox' /\ mailbox[i] = mailbox'[i - 1]
  BY HeadIs DEF IInv, Typed, Receive
<1>3. UNCHANGED <<client, replacing, tasks, leases, ctl, registry>> /\ Idle
  BY DEF Receive
<1>4. m.slot \in Slot /\ m.epoch \in Epoch
  BY <1>2 DEF Message
<1>5. \A s \in DOMAIN records : records[s].epoch \in Epoch /\ records[s] \in Record
  <2>1. \A s \in DOMAIN records : records[s] \in Record
    BY PartialValue DEF IInv, Typed
  <2> QED
    BY <2>1 DEF Record
<1>6. \A f \in Epoch : (EndedInMailbox(f))' => EndedInMailbox(f)
  BY <1>2 DEF EndedInMailbox
<1>7. \A f \in Epoch : /\ (Running(f))' <=> Running(f)
                       /\ Running(f) => f \in DOMAIN tasks
  BY <1>3 DEF Running
<1>8. DOMAIN tasks \subseteq Epoch
  BY PartialIs DEF IInv, Typed
<1>9. DOMAIN core.holes = DOMAIN records
  BY <1>3 DEF IInv, PlacesAreServed
<1>10. ASSUME ~(m.kind = "ended" /\ IsCurrent(m))
       PROVE  /\ core' = core /\ DOMAIN records' = DOMAIN records
              /\ \A s \in DOMAIN records : records'[s].epoch = records[s].epoch
              /\ \A s \in DOMAIN records : EndedInMailbox(records[s].epoch) =>
                    (EndedInMailbox(records[s].epoch))'
  <2>1. /\ core' = core /\ DOMAIN records' = DOMAIN records
        /\ \A s \in DOMAIN records : records'[s].epoch = records[s].epoch
    BY <1>5, <1>10 DEF Receive, Record
  <2>2. ASSUME NEW s \in DOMAIN records, EndedInMailbox(records[s].epoch)
        PROVE  (EndedInMailbox(records[s].epoch))'
    <3>1. PICK i \in DOMAIN mailbox :
             mailbox[i].kind = "ended" /\ mailbox[i].epoch = records[s].epoch
      BY <2>2 DEF EndedInMailbox
    <3>2. records[s].epoch = core.holes[s].epoch /\ s \in DOMAIN core.holes
      BY DEF IInv, PlacesAreServed
    <3>3. i # 1
      <4>1. mailbox[i].slot = s
        BY <3>1, <3>2 DEF IInv, EpochsNameHoles
      <4> QED
        BY <1>2, <1>10, <3>1, <3>2, <4>1 DEF IsCurrent
    <3>4. \E j \in DOMAIN mailbox' :
             mailbox'[j].kind = "ended" /\ mailbox'[j].epoch = records[s].epoch
      BY <1>2, <3>1, <3>3
    <3>5. records'[s].epoch = records[s].epoch
      BY <2>1
    <3> QED
      BY <2>1, <3>4, <3>5 DEF EndedInMailbox
  <2> QED
    BY <2>1, <2>2
<1>11. CASE ~(m.kind = "ended" /\ IsCurrent(m))
  <2>1. Bounded'
    BY <1>10, <1>11 DEF IInv, Bounded
  <2>2. EpochsAreOwn' /\ EpochsNameHoles'
    BY <1>2, <1>3, <1>10, <1>11 DEF IInv, EpochsAreOwn, EpochsNameHoles
  <2>3. ReplacementWaits'
    BY <1>3 DEF ReplacementWaits, Idle
  <2>4. EndedAreOver'
    BY <1>6, <1>7 DEF IInv, EndedAreOver
  <2>5. AliveAreOfThisProcess'
    BY <1>3, <1>7, <1>8, <1>10, <1>11 DEF IInv, AliveAreOfThisProcess
  <2>6. PlacesAreServed'
    BY <1>3, <1>5, <1>7, <1>10, <1>11 DEF IInv, PlacesAreServed, Idle
  <2> QED
    BY <1>1, <2>1, <2>2, <2>3, <2>4, <2>5, <2>6 DEF IInv
<1>12. CASE m.kind = "ended" /\ IsCurrent(m)
  <2>1. core' = Closed(m) /\ records' = Without(records, m.slot)
    BY <1>12 DEF Receive
  <2>2. /\ core'.holes = Without(core.holes, m.slot)
        /\ core'.nextEpoch = core.nextEpoch /\ core'.started = core.started
        /\ core'.closed = IF m.retry THEN core.closed
                 ELSE IF Len(Append(core.closed, <<m.slot, core.holes[m.slot].session>>)) > CLOSED_MEMORY
                      THEN Tail(Append(core.closed, <<m.slot, core.holes[m.slot].session>>))
                      ELSE Append(core.closed, <<m.slot, core.holes[m.slot].session>>)
    BY <1>2, <1>12, <2>1, ClosedIs DEF IInv, Typed
  <2>3. /\ DOMAIN core'.holes = DOMAIN core.holes \ {m.slot}
        /\ \A s \in DOMAIN core'.holes : core'.holes[s] = core.holes[s]
        /\ DOMAIN records' = DOMAIN records \ {m.slot}
        /\ \A s \in DOMAIN records' : records'[s] = records[s]
        /\ m.slot \in DOMAIN core.holes /\ core.holes[m.slot].epoch = m.epoch
    BY <1>12, <2>1, <2>2 DEF IsCurrent, Without, Restrict
  <2>4. Bounded'
    <3>1. IsFiniteSet(DOMAIN core'.holes)
          /\ Cardinality(DOMAIN core'.holes) = Cardinality(DOMAIN core.holes) - 1
          /\ Cardinality(DOMAIN core.holes) \in Nat
      BY <2>3, FS_RemoveElement, FS_CardinalityType DEF IInv, Bounded
    <3>2. Len(core'.closed) <= CLOSED_MEMORY
      <4> DEFINE x == <<m.slot, core.holes[m.slot].session>>
      <4>1. x \in Slot \X Session /\ core.closed \in Seq(Slot \X Session)
        <5>1. core.holes[m.slot] \in HoleRec
          BY <2>3, PartialValue DEF IInv, Typed, Core
        <5> QED
          BY <1>4, <5>1 DEF HoleRec, IInv, Typed, Core
      <4>2. Append(core.closed, x) \in Seq(Slot \X Session) /\ Append(core.closed, x) # <<>>
            /\ Len(Append(core.closed, x)) = Len(core.closed) + 1
        BY <4>1, AppendProperties
      <4>3. Len(Tail(Append(core.closed, x))) = Len(core.closed)
        BY <4>1, <4>2, HeadTailProperties, LenProperties
      <4>4. Len(core.closed) \in Nat /\ Len(core.closed) <= CLOSED_MEMORY
        BY <4>1, LenProperties DEF IInv, Bounded
      <4>5. core'.closed = IF m.retry THEN core.closed
                           ELSE IF Len(Append(core.closed, x)) > CLOSED_MEMORY
                                THEN Tail(Append(core.closed, x)) ELSE Append(core.closed, x)
        BY <2>2
      <4> HIDE DEF x
      <4> QED
        BY <4>2, <4>3, <4>4, <4>5, VpsServerAssumption
    <3> QED
      BY <3>1, <3>2, VpsServerAssumption DEF IInv, Bounded
  <2>5. EpochsAreOwn'
    BY <1>2, <1>3, <2>2, <2>3 DEF IInv, EpochsAreOwn
  <2>6. EpochsNameHoles'
    BY <1>2, <1>3, <2>3 DEF IInv, EpochsNameHoles
  <2>7. ReplacementWaits'
    BY <1>3 DEF ReplacementWaits, Idle
  <2>8. EndedAreOver'
    BY <1>6, <1>7 DEF IInv, EndedAreOver
  <2>9. AliveAreOfThisProcess'
    BY <1>3, <1>7, <1>8, <2>2, <2>3 DEF IInv, AliveAreOfThisProcess
  <2>10. ~Running(m.epoch)
    BY <1>2, <1>4, <1>12 DEF IInv, EndedAreOver, EndedInMailbox
  <2>11. PlacesAreServed'
    <3>1. (Idle => DOMAIN records = DOMAIN core.holes)'
      BY <1>9, <2>3
    <3>2. ASSUME NEW s \in DOMAIN records'
          PROVE  /\ s \in DOMAIN core'.holes /\ records'[s].epoch = core'.holes[s].epoch
                 /\ (Running(records[s].epoch))' \/ (EndedInMailbox(records[s].epoch))'
      <4>1. s \in DOMAIN records /\ s # m.slot /\ s \in DOMAIN core.holes
            /\ records'[s] = records[s] /\ records[s].epoch = core.holes[s].epoch
        BY <1>9, <2>3, <3>2 DEF IInv, PlacesAreServed
      <4>2. records[s].epoch # m.epoch
        BY <2>3, <4>1 DEF IInv, EpochsAreOwn
      <4>3. EndedInMailbox(records[s].epoch) => (EndedInMailbox(records[s].epoch))'
        BY <1>2, <4>1, <4>2 DEF EndedInMailbox
      <4>4. Running(records[s].epoch) => (Running(records[s].epoch))'
        BY <1>3, <4>1 DEF Running
      <4> QED
        BY <2>3, <4>1, <4>3, <4>4 DEF IInv, PlacesAreServed
    <3>3. ASSUME NEW f \in Epoch, (Running(f))'
          PROVE  tasks'[f].slot \in DOMAIN records' /\ records'[tasks'[f].slot].epoch = f
      <4>1. Running(f) /\ tasks[f].slot \in DOMAIN records
            /\ records[tasks[f].slot].epoch = f
        BY <1>7, <3>3 DEF IInv, PlacesAreServed
      <4>2. tasks[f].slot # m.slot
        BY <2>3, <2>10, <4>1 DEF IInv, PlacesAreServed
      <4> QED
        BY <1>3, <2>3, <4>1, <4>2
    <3> QED
      BY <3>1, <3>2, <3>3 DEF PlacesAreServed
  <2> QED
    BY <1>1, <2>4, <2>5, <2>6, <2>7, <2>8, <2>9, <2>11 DEF IInv
<1> QED
  BY <1>11, <1>12

(* The actor starts the task that waited for its place.                    *)
LEMMA ReplaceKeeps ==
    ASSUME IInv, Replace
    PROVE  IInv'
<1>0. PICK r, e : r = replacing.request /\ e = replacing.epoch
  OBVIOUS
<1>1. Typed'
  BY ReplaceTyped DEF IInv
<1>2. /\ UNCHANGED <<client, core, mailbox, leases, registry, over>> /\ ~Idle
      /\ replacing' = NoSpawn /\ Idle'
  BY DEF Replace, Idle
<1>3. /\ r \in client /\ r.started = core.started
      /\ DOMAIN records = DOMAIN core.holes \ {r.slot}
      /\ r.slot \in DOMAIN core.holes
      /\ core.holes[r.slot].epoch = e /\ core.holes[r.slot].session = r.session
      /\ e \notin DOMAIN tasks
      /\ \A i \in DOMAIN mailbox : mailbox[i].epoch # e
  BY <1>0, <1>2 DEF IInv, ReplacementWaits
<1>4. /\ DOMAIN records' = DOMAIN core.holes
      /\ records'[r.slot].epoch = e
      /\ \A s \in DOMAIN records : records'[s] = records[s]
  <2>1. records' = With(records, r.slot, [epoch |-> e, offered |-> FALSE])
    BY <1>0 DEF Replace, SpawnHole
  <2> QED
    BY <1>3, <2>1 DEF With
<1>5. /\ DOMAIN tasks' = DOMAIN tasks \cup {e}
      /\ \A f \in DOMAIN tasks : tasks'[f] = tasks[f]
      /\ tasks'[e].slot = r.slot /\ tasks'[e].session = r.session
      /\ tasks'[e].started = r.started /\ tasks'[e].aborted = FALSE
      /\ tasks'[e].stage = "starting"
  <2>1. tasks' = With(tasks, e, Task(r))
    BY <1>0 DEF Replace, SpawnHole
  <2> QED
    BY <1>3, <2>1 DEF With, Task
<1>6. e \in Epoch /\ e <= core.nextEpoch
  <2>1. e \in Epoch
    BY <1>0, <1>2, IdleIs DEF IInv, Typed, Spawn
  <2> QED
    BY <1>3, <2>1 DEF IInv, EpochsAreOwn
<1>7. /\ (Running(e))'
      /\ \A f \in Epoch \ {e} : (Running(f))' <=> Running(f)
  BY <1>5 DEF Running
<1>8. \A f \in Epoch : EndedInMailbox(f) <=> (EndedInMailbox(f))'
  BY <1>2 DEF EndedInMailbox
<1>9. DOMAIN tasks \subseteq Epoch
  BY PartialIs DEF IInv, Typed
<1>10. Bounded'
  BY <1>2 DEF IInv, Bounded
<1>11. EpochsAreOwn'
  BY <1>2, <1>5, <1>6 DEF IInv, EpochsAreOwn
<1>12. EpochsNameHoles'
  <2> SUFFICES ASSUME NEW s \in DOMAIN core.holes
               PROVE  /\ core.holes[s].epoch \in DOMAIN tasks' =>
                           /\ tasks'[core.holes[s].epoch].slot = s
                           /\ tasks'[core.holes[s].epoch].session = core.holes[s].session
                      /\ \A i \in DOMAIN mailbox :
                           mailbox[i].epoch = core.holes[s].epoch => mailbox[i].slot = s
    BY <1>2 DEF EpochsNameHoles
  <2>1. CASE s = r.slot
    BY <1>3, <1>5, <2>1
  <2>2. CASE s # r.slot
    <3>1. core.holes[s].epoch # e
      BY <1>3, <2>2 DEF IInv, EpochsAreOwn
    <3> QED
      BY <1>5, <3>1 DEF IInv, EpochsNameHoles
  <2> QED
    BY <2>1, <2>2
<1>13. ReplacementWaits'
  BY <1>2 DEF ReplacementWaits
<1>14. EndedAreOver'
  <2>1. ~EndedInMailbox(e)
    BY <1>3 DEF EndedInMailbox
  <2> QED
    BY <1>7, <1>8, <2>1 DEF IInv, EndedAreOver
<1>15. AliveAreOfThisProcess'
  <2>1. core.started \in Nat /\ core' = core /\ client' = client
    BY <1>2 DEF IInv, Typed, Core
  <2>2. ASSUME NEW f \in DOMAIN tasks'
        PROVE  /\ \E q \in client : /\ q.slot = tasks'[f].slot /\ q.session = tasks'[f].session
                                    /\ q.started = tasks'[f].started
               /\ tasks'[f].started <= core.started
               /\ (Running(f))' => tasks'[f].started = core.started
    <3>1. CASE f = e
      BY <1>3, <1>5, <2>1, <3>1
    <3>2. CASE f # e
      BY <1>5, <1>7, <1>9, <3>2 DEF IInv, AliveAreOfThisProcess
    <3> QED
      BY <3>1, <3>2
  <2> QED
    BY <2>1, <2>2 DEF IInv, AliveAreOfThisProcess
<1>16. PlacesAreServed'
  <2>1. ASSUME NEW s \in DOMAIN records'
        PROVE  /\ s \in DOMAIN core.holes /\ records'[s].epoch = core.holes[s].epoch
               /\ (Running(records[s].epoch))' \/ (EndedInMailbox(records[s].epoch))'
    <3>1. CASE s = r.slot
      BY <1>3, <1>4, <1>7, <3>1 DEF Running
    <3>2. CASE s # r.slot
      <4>1. s \in DOMAIN records /\ records'[s] = records[s]
        BY <1>3, <1>4, <2>1, <3>2
      <4>2. /\ s \in DOMAIN core.holes /\ records[s].epoch = core.holes[s].epoch
            /\ Running(records[s].epoch) \/ EndedInMailbox(records[s].epoch)
        BY <4>1 DEF IInv, PlacesAreServed
      <4>3. records[s].epoch # e /\ records[s].epoch \in Epoch
        <5>1. records[s].epoch # e
          BY <1>3, <3>2, <4>2 DEF IInv, EpochsAreOwn
        <5>2. records[s] \in Record
          BY <4>1, PartialValue DEF IInv, Typed
        <5> QED
          BY <5>1, <5>2 DEF Record
      <4> QED
        BY <1>7, <1>8, <4>1, <4>2, <4>3 DEF Running, EndedInMailbox
    <3> QED
      BY <3>1, <3>2
  <2>2. ASSUME NEW f \in Epoch, (Running(f))'
        PROVE  tasks'[f].slot \in DOMAIN records' /\ records'[tasks'[f].slot].epoch = f
    <3>1. CASE f = e
      BY <1>3, <1>4, <1>5, <3>1
    <3>2. CASE f # e
      <4>1. Running(f) /\ f \in DOMAIN tasks
        BY <1>7, <2>2, <3>2 DEF Running
      <4> QED
        BY <1>3, <1>4, <1>5, <4>1 DEF IInv, PlacesAreServed
    <3> QED
      BY <3>1, <3>2
  <2> QED
    BY <1>2, <1>4, <2>1, <2>2 DEF PlacesAreServed
<1> QED
  BY <1>1, <1>10, <1>11, <1>12, <1>13, <1>14, <1>15, <1>16 DEF IInv

(* What a knock finds once the core looked at the start of the process:     *)
(* after a restart no record is left and all tasks are aborted.             *)
RecordsGreeted(r) == IF Restarted(r) THEN <<>> ELSE records
TasksGreeted(r) == IF Restarted(r) THEN Aborted(RecordedEpochs(DOMAIN records)) ELSE tasks
RunningGreeted(r, e) ==
    e \in DOMAIN tasks /\ ~TasksGreeted(r)[e].aborted /\ TasksGreeted(r)[e].stage # "over"

LEMMA GreetingKeeps ==
    ASSUME IInv, NEW r \in client, Knock(r)
    PROVE  /\ r.started = Greeted(r).started /\ r.started \in Nat
           /\ \A s \in DOMAIN Greeted(r).holes :
                 /\ ~Restarted(r) /\ s \in DOMAIN core.holes
                 /\ Greeted(r).holes[s] = core.holes[s]
                 /\ core.started = r.started
           /\ Restarted(r) \/ Greeted(r).holes = core.holes
           /\ DOMAIN RecordsGreeted(r) = DOMAIN Greeted(r).holes
           /\ DOMAIN TasksGreeted(r) = DOMAIN tasks
           /\ \A e \in DOMAIN tasks :
                 /\ TasksGreeted(r)[e].slot = tasks[e].slot
                 /\ TasksGreeted(r)[e].session = tasks[e].session
                 /\ TasksGreeted(r)[e].started = tasks[e].started
                 /\ TasksGreeted(r)[e].stage = tasks[e].stage
                 /\ tasks[e].started <= r.started
           /\ \A e \in Epoch :
                 /\ RunningGreeted(r, e) <=> ~Restarted(r) /\ Running(e)
                 /\ RunningGreeted(r, e) => tasks[e].started = r.started
<1>1. /\ client \in Clients /\ core \in Core /\ tasks \in Partial(Epoch, TaskRec) /\ Idle
      /\ core.started \in Nat /\ r.started \in Nat
  BY RequestTypes DEF IInv, Typed, Knock, Core
<1>2. /\ Greeted(r).holes = IF Restarted(r) THEN <<>> ELSE core.holes
      /\ Greeted(r).started = IF Grown(r) THEN r.started ELSE core.started
  BY <1>1, GreetedIs
<1>3. \A q \in client : /\ q.started \in Nat
                        /\ q.started = 0 <=> r.started = 0
  BY <1>1, RequestTypes, VpsServerAssumption
<1>4. r.started = Greeted(r).started /\ core.started <= r.started
  BY <1>1, <1>2, <1>3 DEF Grown, Stale, Knock, IInv, AliveAreOfThisProcess
<1>5. \A s \in DOMAIN core.holes : Restarted(r) \/ core.started = r.started
  BY <1>1, <1>3, <1>4 DEF IInv, AliveAreOfThisProcess, Restarted, Grown
<1>6. /\ DOMAIN TasksGreeted(r) = DOMAIN tasks
      /\ \A e \in DOMAIN tasks :
            /\ TasksGreeted(r)[e].slot = tasks[e].slot
            /\ TasksGreeted(r)[e].session = tasks[e].session
            /\ TasksGreeted(r)[e].started = tasks[e].started
            /\ TasksGreeted(r)[e].stage = tasks[e].stage
            /\ TasksGreeted(r)[e].aborted =
                  (tasks[e].aborted \/ (Restarted(r) /\ e \in RecordedEpochs(DOMAIN records)))
  <2>1. CASE Restarted(r)
    BY <1>1, <2>1, AbortedIs DEF TasksGreeted
  <2>2. CASE ~Restarted(r)
    <3>1. \A e \in DOMAIN tasks : tasks[e].aborted \in BOOLEAN
      <4>1. \A e \in DOMAIN tasks : tasks[e] \in TaskRec
        BY <1>1, PartialValue
      <4> QED
        BY <4>1 DEF TaskRec
    <3> QED
      BY <2>2, <3>1 DEF TasksGreeted
  <2> QED
    BY <2>1, <2>2
<1>7. \A e \in DOMAIN tasks : tasks[e].started <= core.started /\ tasks[e].started \in Nat
  <2>1. \A e \in DOMAIN tasks : tasks[e] \in TaskRec
    BY <1>1, PartialValue
  <2> QED
    BY <2>1 DEF IInv, AliveAreOfThisProcess, TaskRec
<1>8. \A e \in Epoch : Running(e) => e \in RecordedEpochs(DOMAIN records)
  BY DEF IInv, PlacesAreServed, RecordedEpochs
<1>9. \A e \in Epoch : RunningGreeted(r, e) <=> ~Restarted(r) /\ Running(e)
  BY <1>6, <1>8 DEF RunningGreeted, Running
<1>10. \A e \in DOMAIN tasks : ~Restarted(r) => tasks[e].started = r.started \/ ~Running(e)
  BY <1>1, <1>3, <1>4, <1>7 DEF IInv, AliveAreOfThisProcess, Restarted, Grown
<1>11. DOMAIN RecordsGreeted(r) = DOMAIN Greeted(r).holes
  BY <1>1, <1>2 DEF RecordsGreeted, IInv, PlacesAreServed
<1>12. \A s \in DOMAIN Greeted(r).holes :
          /\ ~Restarted(r) /\ s \in DOMAIN core.holes
          /\ Greeted(r).holes[s] = core.holes[s]
          /\ core.started = r.started
  BY <1>2, <1>5, EmptyType
<1>13. \A e \in DOMAIN tasks : tasks[e].started <= r.started
  BY <1>1, <1>4, <1>7
<1>14. \A e \in Epoch : RunningGreeted(r, e) => tasks[e].started = r.started
  BY <1>9, <1>10 DEF Running
<1> QED
  BY <1>1, <1>2, <1>4, <1>6, <1>9, <1>11, <1>12, <1>13, <1>14

(* Facts about a knock that all its cases use.                             *)
LEMMA KnockFacts ==
    ASSUME IInv, NEW r \in client, Knock(r)
    PROVE  /\ Idle /\ UNCHANGED <<client, mailbox, leases, registry, over>>
           /\ Greeted(r) \in Core /\ Greeted(r).nextEpoch = core.nextEpoch
           /\ IsFiniteSet(DOMAIN Greeted(r).holes)
           /\ Cardinality(DOMAIN Greeted(r).holes) <= max_holes
           /\ Len(Greeted(r).closed) <= CLOSED_MEMORY
           /\ core.nextEpoch + 1 \in Epoch /\ core.nextEpoch \in Nat
           /\ \A s \in DOMAIN core.holes : core.holes[s].epoch \in Epoch
           /\ \A s \in DOMAIN records : records[s].epoch \in Epoch
           /\ DOMAIN tasks \subseteq Epoch
           /\ \A i \in DOMAIN mailbox : mailbox[i].epoch \in Epoch
           /\ \A f \in Epoch : EndedInMailbox(f) <=> (EndedInMailbox(f))'
<1>1. Idle /\ UNCHANGED <<client, mailbox, leases, registry, over>> /\ core.nextEpoch < MaxEpoch
  BY DEF Knock
<1>2. /\ Greeted(r) \in Core /\ Greeted(r).nextEpoch = core.nextEpoch
      /\ Greeted(r).holes = <<>> \/ Greeted(r).holes = core.holes
      /\ Greeted(r).closed = <<>> \/ Greeted(r).closed = core.closed
  BY GreetedIs DEF IInv, Typed
<1>3. core.nextEpoch + 1 \in Epoch /\ core.nextEpoch \in Nat
  BY <1>1, VpsServerAssumption DEF IInv, Typed, Core, Epoch
<1>4. /\ IsFiniteSet(DOMAIN Greeted(r).holes)
      /\ Cardinality(DOMAIN Greeted(r).holes) <= max_holes
  <2>1. CASE Greeted(r).holes = <<>>
    <3>1. DOMAIN Greeted(r).holes = {}
      BY <2>1, EmptyType
    <3> QED
      BY <3>1, FS_EmptySet, VpsServerAssumption
  <2>2. CASE Greeted(r).holes = core.holes
    BY <2>2 DEF IInv, Bounded
  <2> QED
    BY <1>2, <2>1, <2>2
<1>5. Len(Greeted(r).closed) <= CLOSED_MEMORY
  BY <1>2, VpsServerAssumption, EmptySeq DEF IInv, Bounded
<1>6. \A s \in DOMAIN core.holes : core.holes[s].epoch \in Epoch
  <2>1. \A s \in DOMAIN core.holes : core.holes[s] \in HoleRec
    BY PartialValue DEF IInv, Typed, Core
  <2> QED
    BY <2>1 DEF HoleRec
<1>7. \A s \in DOMAIN records : records[s].epoch \in Epoch
  <2>1. \A s \in DOMAIN records : records[s] \in Record
    BY PartialValue DEF IInv, Typed
  <2> QED
    BY <2>1 DEF Record
<1>8. \A i \in DOMAIN mailbox : mailbox[i].epoch \in Epoch
  <2>1. \A i \in DOMAIN mailbox : mailbox[i] \in Message
    BY LenProperties, ElementOfSeq DEF IInv, Typed
  <2> QED
    BY <2>1 DEF Message
<1>9. \A f \in Epoch : EndedInMailbox(f) <=> (EndedInMailbox(f))'
  BY <1>1 DEF EndedInMailbox
<1>10. DOMAIN tasks \subseteq Epoch
  BY PartialIs DEF IInv, Typed
<1> QED
  BY <1>1, <1>2, <1>3, <1>4, <1>5, <1>6, <1>7, <1>8, <1>9, <1>10

LEMMA KnockWithoutHoleKeeps ==
    ASSUME IInv, NEW r \in client, Knock(r), KnockWithoutHole(r)
    PROVE  IInv'
<1>0. PICK c : c = Greeted(r)
  OBVIOUS
<1>1. Typed'
  BY KnockTyped DEF IInv
<1>2. /\ core' = c /\ records' = RecordsGreeted(r) /\ tasks' = TasksGreeted(r)
      /\ replacing' = replacing
      /\ Idle /\ Idle' /\ UNCHANGED <<client, mailbox, leases, registry, over>>
  BY <1>0 DEF KnockWithoutHole, Knock, Idle, RecordsGreeted, TasksGreeted
<1>3. /\ c.nextEpoch = core.nextEpoch /\ r.started = c.started
      /\ IsFiniteSet(DOMAIN c.holes) /\ Cardinality(DOMAIN c.holes) <= max_holes
      /\ Len(c.closed) <= CLOSED_MEMORY
      /\ \A f \in Epoch : EndedInMailbox(f) <=> (EndedInMailbox(f))'
      /\ DOMAIN tasks \subseteq Epoch
      /\ \A s \in DOMAIN records : records[s].epoch \in Epoch
  BY <1>0, KnockFacts, GreetingKeeps
<1>4. /\ \A s \in DOMAIN c.holes : /\ ~Restarted(r) /\ s \in DOMAIN core.holes
                                   /\ c.holes[s] = core.holes[s]
                                   /\ core.started = r.started
      /\ DOMAIN records' = DOMAIN c.holes
      /\ DOMAIN tasks' = DOMAIN tasks
      /\ \A e \in DOMAIN tasks : /\ tasks'[e].slot = tasks[e].slot
                                 /\ tasks'[e].session = tasks[e].session
                                 /\ tasks'[e].started = tasks[e].started
                                 /\ tasks[e].started <= r.started
      /\ \A e \in Epoch : /\ (Running(e))' <=> ~Restarted(r) /\ Running(e)
                          /\ (Running(e))' => tasks[e].started = r.started
  <2>1. \A e \in Epoch : RunningGreeted(r, e) <=> (Running(e))'
    <3>1. DOMAIN TasksGreeted(r) = DOMAIN tasks
      BY GreetingKeeps
    <3> QED
      BY <1>2, <3>1 DEF RunningGreeted, Running
  <2> QED
    BY <1>0, <1>2, <2>1, GreetingKeeps
<1>5. Bounded'
  BY <1>2, <1>3 DEF Bounded
<1>6. EpochsAreOwn'
  BY <1>2, <1>3, <1>4 DEF IInv, EpochsAreOwn
<1>7. EpochsNameHoles'
  BY <1>2, <1>4 DEF IInv, EpochsNameHoles
<1>8. ReplacementWaits'
  BY <1>2 DEF ReplacementWaits
<1>9. EndedAreOver'
  BY <1>3, <1>4 DEF IInv, EndedAreOver
<1>10. AliveAreOfThisProcess'
  BY <1>2, <1>3, <1>4 DEF IInv, AliveAreOfThisProcess
<1>11. PlacesAreServed'
  <2>1. \A s \in DOMAIN records' : /\ s \in DOMAIN records /\ records'[s] = records[s]
                                   /\ ~Restarted(r)
    BY <1>2, <1>4 DEF RecordsGreeted
  <2>2. \A e \in Epoch : (Running(e))' => records' = records /\ e \in DOMAIN tasks
    BY <1>2, <1>4 DEF RecordsGreeted, Running
  <2>3. ASSUME NEW s \in DOMAIN records'
        PROVE  /\ s \in DOMAIN c.holes /\ records'[s].epoch = c.holes[s].epoch
               /\ (Running(records[s].epoch))' \/ (EndedInMailbox(records[s].epoch))'
    <3>1. PICK e \in Epoch : e = records[s].epoch /\ e = records'[s].epoch
      BY <1>3, <2>1
    <3>2. (Running(e))' \/ (EndedInMailbox(e))'
      BY <1>3, <1>4, <2>1, <3>1 DEF IInv, PlacesAreServed
    <3>3. (Running(records[s].epoch))' \/ (EndedInMailbox(records[s].epoch))'
      BY <3>1, <3>2 DEF Running, EndedInMailbox
    <3>4. s \in DOMAIN c.holes /\ records'[s].epoch = c.holes[s].epoch
      BY <1>4, <2>1 DEF IInv, PlacesAreServed
    <3> QED
      BY <3>3, <3>4
  <2>4. ASSUME NEW e \in Epoch, (Running(e))'
        PROVE  tasks'[e].slot \in DOMAIN records' /\ records'[tasks'[e].slot].epoch = e
    BY <1>4, <2>2, <2>4 DEF IInv, PlacesAreServed
  <2> QED
    BY <1>2, <1>4, <2>3, <2>4 DEF PlacesAreServed
<1> QED
  BY <1>1, <1>5, <1>6, <1>7, <1>8, <1>9, <1>10, <1>11 DEF IInv

(* What a knock that starts a hole at once leaves: c is the core it found,  *)
(* n the new epoch.                                                        *)
SpawnsAs(r, c, n) ==
    /\ core'.nextEpoch = n /\ core'.started = c.started /\ core'.closed = c.closed
    /\ r.slot \notin DOMAIN c.holes /\ Cardinality(DOMAIN c.holes) < max_holes
    /\ DOMAIN core'.holes = DOMAIN c.holes \cup {r.slot}
    /\ core'.holes[r.slot].epoch = n /\ core'.holes[r.slot].session = r.session
    /\ \A s \in DOMAIN c.holes : core'.holes[s] = c.holes[s]
    /\ DOMAIN records' = DOMAIN c.holes \cup {r.slot}
    /\ records'[r.slot].epoch = n
    /\ \A s \in DOMAIN c.holes : records'[s] = RecordsGreeted(r)[s]
    /\ DOMAIN tasks' = DOMAIN tasks \cup {n}
    /\ tasks'[n].slot = r.slot /\ tasks'[n].session = r.session
    /\ tasks'[n].started = r.started /\ ~tasks'[n].aborted
    /\ tasks'[n].stage = "starting"
    /\ \A e \in DOMAIN tasks \ {n} : tasks'[e] = TasksGreeted(r)[e]
    /\ ctl' = With(ctl, r.slot, n)
    /\ replacing' = replacing

(* The hole of a new number is started at once.                            *)
LEMMA KnockSpawnsIs ==
    ASSUME IInv, NEW r \in client, Knock(r), KnockSpawns(r)
    PROVE  SpawnsAs(r, Greeted(r), core.nextEpoch + 1)
<1>0. PICK c, n : c = Greeted(r) /\ n = core.nextEpoch + 1
  OBVIOUS
<1>1. /\ core' = Spawned(c, r) /\ ~Replaces(c, r) /\ Spawns(c, r)
      /\ SpawnHole(r, c.nextEpoch + 1, RecordsGreeted(r), TasksGreeted(r))
      /\ replacing' = replacing
  BY <1>0 DEF KnockSpawns, RecordsGreeted, TasksGreeted
<1>2. c \in Core /\ c.nextEpoch = core.nextEpoch /\ core.nextEpoch < MaxEpoch
  BY <1>0, KnockFacts DEF Knock
<1>3. r.slot \notin DOMAIN c.holes /\ Cardinality(DOMAIN c.holes) < max_holes
  BY <1>1 DEF Replaces, Spawns, HasRoom, Known
<1>4. /\ core'.holes = With(c.holes, r.slot, [epoch |-> n, session |-> r.session])
      /\ core'.nextEpoch = n /\ core'.started = c.started /\ core'.closed = c.closed
  BY <1>0, <1>1, <1>2, SpawnedIs DEF IInv, Typed
<1>5. /\ DOMAIN core'.holes = DOMAIN c.holes \cup {r.slot}
      /\ core'.holes[r.slot].epoch = n /\ core'.holes[r.slot].session = r.session
      /\ \A s \in DOMAIN c.holes : core'.holes[s] = c.holes[s]
  BY <1>3, <1>4 DEF With
<1>6. /\ records' = With(RecordsGreeted(r), r.slot, [epoch |-> n, offered |-> FALSE])
      /\ tasks' = With(TasksGreeted(r), n, Task(r))
      /\ ctl' = With(ctl, r.slot, n)
  BY <1>0, <1>1, <1>2 DEF SpawnHole
<1>7. DOMAIN RecordsGreeted(r) = DOMAIN c.holes /\ DOMAIN TasksGreeted(r) = DOMAIN tasks
  BY <1>0, GreetingKeeps
<1>8. /\ DOMAIN records' = DOMAIN c.holes \cup {r.slot}
      /\ records'[r.slot].epoch = n
      /\ \A s \in DOMAIN c.holes : records'[s] = RecordsGreeted(r)[s]
  BY <1>3, <1>6, <1>7 DEF With
<1>9. /\ DOMAIN tasks' = DOMAIN tasks \cup {n}
      /\ tasks'[n].slot = r.slot /\ tasks'[n].session = r.session
      /\ tasks'[n].started = r.started /\ ~tasks'[n].aborted
      /\ tasks'[n].stage = "starting"
      /\ \A e \in DOMAIN tasks \ {n} : tasks'[e] = TasksGreeted(r)[e]
  BY <1>6, <1>7 DEF With, Task
<1>10. SpawnsAs(r, c, n)
  BY <1>1, <1>3, <1>4, <1>5, <1>6, <1>8, <1>9 DEF SpawnsAs
<1> QED
  BY <1>0, <1>10

LEMMA KnockSpawnsKeeps ==
    ASSUME IInv, NEW r \in client, Knock(r), KnockSpawns(r)
    PROVE  IInv'
<1>0. PICK c, n : c = Greeted(r) /\ n = core.nextEpoch + 1
  OBVIOUS
<1>1. Typed'
  BY KnockTyped DEF IInv
<1>2. /\ core'.nextEpoch = n /\ core'.started = c.started /\ core'.closed = c.closed
      /\ r.slot \notin DOMAIN c.holes /\ Cardinality(DOMAIN c.holes) < max_holes
      /\ DOMAIN core'.holes = DOMAIN c.holes \cup {r.slot}
      /\ core'.holes[r.slot].epoch = n /\ core'.holes[r.slot].session = r.session
      /\ \A s \in DOMAIN c.holes : core'.holes[s] = c.holes[s]
      /\ DOMAIN records' = DOMAIN c.holes \cup {r.slot}
      /\ records'[r.slot].epoch = n
      /\ \A s \in DOMAIN c.holes : records'[s] = RecordsGreeted(r)[s]
      /\ DOMAIN tasks' = DOMAIN tasks \cup {n}
      /\ \A e \in DOMAIN tasks \ {n} : tasks'[e] = TasksGreeted(r)[e]
      /\ tasks'[n].slot = r.slot /\ tasks'[n].session = r.session
      /\ tasks'[n].started = r.started /\ ~tasks'[n].aborted /\ tasks'[n].stage = "starting"
  BY <1>0, KnockSpawnsIs DEF SpawnsAs
<1>3. /\ c.nextEpoch = core.nextEpoch /\ r.started = c.started /\ r.started \in Nat
      /\ IsFiniteSet(DOMAIN c.holes) /\ Cardinality(DOMAIN c.holes) <= max_holes
      /\ Len(c.closed) <= CLOSED_MEMORY
      /\ \A f \in Epoch : EndedInMailbox(f) <=> (EndedInMailbox(f))'
      /\ DOMAIN tasks \subseteq Epoch /\ n \in Epoch /\ core.nextEpoch \in Nat
      /\ \A s \in DOMAIN core.holes : core.holes[s].epoch \in Epoch
      /\ \A s \in DOMAIN records : records[s].epoch \in Epoch
      /\ \A i \in DOMAIN mailbox : mailbox[i].epoch \in Epoch
  BY <1>0, KnockFacts, GreetingKeeps
<1>4. /\ Idle' /\ Idle /\ UNCHANGED <<client, mailbox, leases, registry, over>>
      /\ n = core.nextEpoch + 1
  BY <1>0, KnockFacts, KnockSpawnsIs DEF Idle, SpawnsAs
<1>5. n \notin DOMAIN tasks /\ ~EndedInMailbox(n)
      /\ (\A i \in DOMAIN mailbox : mailbox[i].epoch # n)
      /\ (\A s \in DOMAIN core.holes : core.holes[s].epoch # n)
  <2>1. \A e \in Epoch : e <= core.nextEpoch => e # n
    BY <1>3, <1>4 DEF Epoch
  <2> QED
    BY <1>3, <1>4, <2>1 DEF IInv, EpochsAreOwn, EndedInMailbox
<1>6. /\ \A s \in DOMAIN c.holes : /\ ~Restarted(r) /\ s \in DOMAIN core.holes
                                   /\ c.holes[s] = core.holes[s]
                                   /\ core.started = r.started
                                   /\ records'[s] = records[s] /\ s \in DOMAIN records
      /\ \A e \in DOMAIN tasks : /\ tasks'[e].slot = tasks[e].slot
                                 /\ tasks'[e].session = tasks[e].session
                                 /\ tasks'[e].started = tasks[e].started
                                 /\ tasks[e].started <= r.started
      /\ \A e \in Epoch \ {n} : /\ (Running(e))' <=> ~Restarted(r) /\ Running(e)
                                /\ (Running(e))' => tasks[e].started = r.started
      /\ (Running(n))'
  <2>1. \A e \in Epoch \ {n} : RunningGreeted(r, e) <=> (Running(e))'
    BY <1>2, <1>5 DEF RunningGreeted, Running
  <2>2. (Running(n))'
    BY <1>2 DEF Running
  <2>3. \A s \in DOMAIN c.holes : records'[s] = records[s] /\ s \in DOMAIN records
    BY <1>0, <1>2, <1>4, GreetingKeeps DEF RecordsGreeted, IInv, PlacesAreServed
  <2> QED
    BY <1>0, <1>2, <1>5, <2>1, <2>2, <2>3, GreetingKeeps
<1>7. Bounded'
  <2>1. IsFiniteSet(DOMAIN core'.holes)
        /\ Cardinality(DOMAIN core'.holes) = Cardinality(DOMAIN c.holes) + 1
        /\ Cardinality(DOMAIN c.holes) \in Nat
    BY <1>2, <1>3, FS_AddElement, FS_CardinalityType
  <2> QED
    BY <1>2, <1>3, <2>1, VpsServerAssumption DEF Bounded
<1>8. EpochsAreOwn'
  <2>1. \A s \in DOMAIN core'.holes :
           /\ core'.holes[s].epoch <= n
           /\ s # r.slot => core'.holes[s].epoch # n
    BY <1>2, <1>3, <1>4, <1>5, <1>6 DEF IInv, EpochsAreOwn, Epoch
  <2>2. \A e \in DOMAIN tasks' : e <= n
    BY <1>2, <1>3, <1>4 DEF IInv, EpochsAreOwn, Epoch
  <2>3. \A i \in DOMAIN mailbox' : mailbox'[i].epoch <= n
    BY <1>3, <1>4 DEF IInv, EpochsAreOwn, Epoch
  <2>4. \A s, t \in DOMAIN core'.holes :
           core'.holes[s].epoch = core'.holes[t].epoch => s = t
    BY <1>2, <1>6, <2>1 DEF IInv, EpochsAreOwn
  <2> QED
    BY <1>2, <2>1, <2>2, <2>3, <2>4 DEF EpochsAreOwn
<1>9. EpochsNameHoles'
  <2> SUFFICES ASSUME NEW s \in DOMAIN core'.holes
               PROVE  /\ core'.holes[s].epoch \in DOMAIN tasks' =>
                           /\ tasks'[core'.holes[s].epoch].slot = s
                           /\ tasks'[core'.holes[s].epoch].session = core'.holes[s].session
                      /\ \A i \in DOMAIN mailbox :
                           mailbox[i].epoch = core'.holes[s].epoch => mailbox[i].slot = s
    BY <1>4 DEF EpochsNameHoles
  <2>1. CASE s = r.slot
    BY <1>2, <1>5, <2>1
  <2>2. CASE s # r.slot
    <3>1. core'.holes[s] = core.holes[s] /\ s \in DOMAIN core.holes
      BY <1>2, <1>6, <2>2
    <3> QED
      BY <1>2, <1>5, <1>6, <3>1 DEF IInv, EpochsNameHoles
  <2> QED
    BY <2>1, <2>2
<1>10. ReplacementWaits'
  BY <1>4 DEF ReplacementWaits
<1>11. EndedAreOver'
  BY <1>3, <1>5, <1>6 DEF IInv, EndedAreOver
<1>12. AliveAreOfThisProcess'
  <2>1. \A s \in DOMAIN core'.holes :
           \E q \in client : /\ q.slot = s /\ q.session = core'.holes[s].session
                             /\ q.started = r.started
    BY <1>2, <1>6 DEF IInv, AliveAreOfThisProcess
  <2>2. ASSUME NEW e \in DOMAIN tasks'
        PROVE  /\ \E q \in client : /\ q.slot = tasks'[e].slot /\ q.session = tasks'[e].session
                                    /\ q.started = tasks'[e].started
               /\ tasks'[e].started <= r.started
               /\ (Running(e))' => tasks'[e].started = r.started
    <3>1. CASE e = n
      BY <1>2, <1>3, <3>1
    <3>2. CASE e # n
      BY <1>2, <1>3, <1>6, <3>2 DEF IInv, AliveAreOfThisProcess
    <3> QED
      BY <3>1, <3>2
  <2> QED
    BY <1>2, <1>3, <1>4, <2>1, <2>2 DEF AliveAreOfThisProcess
<1>13. PlacesAreServed'
  <2>1. ASSUME NEW s \in DOMAIN records'
        PROVE  /\ s \in DOMAIN core'.holes /\ records'[s].epoch = core'.holes[s].epoch
               /\ (Running(records[s].epoch))' \/ (EndedInMailbox(records[s].epoch))'
    <3>1. CASE s = r.slot
      BY <1>2, <1>6, <3>1 DEF Running
    <3>2. CASE s # r.slot
      <4>1. /\ s \in DOMAIN records /\ records'[s] = records[s] /\ ~Restarted(r)
            /\ s \in DOMAIN core.holes /\ core'.holes[s] = core.holes[s]
        BY <1>2, <1>6, <2>1, <3>2
      <4>2. PICK e \in Epoch : e = records[s].epoch /\ e = records'[s].epoch
        BY <1>3, <4>1
      <4>3. Running(e) \/ EndedInMailbox(e)
        BY <4>1, <4>2 DEF IInv, PlacesAreServed
      <4>4. e # n
        BY <1>5, <4>1, <4>2 DEF IInv, PlacesAreServed
      <4>5. (Running(e))' \/ (EndedInMailbox(e))'
        BY <1>3, <1>6, <4>1, <4>3, <4>4
      <4>6. (Running(records[s].epoch))' \/ (EndedInMailbox(records[s].epoch))'
        BY <4>2, <4>5 DEF Running, EndedInMailbox
      <4> QED
        BY <1>2, <4>1, <4>6, <2>1 DEF IInv, PlacesAreServed
    <3> QED
      BY <3>1, <3>2
  <2>2. ASSUME NEW e \in Epoch, (Running(e))'
        PROVE  tasks'[e].slot \in DOMAIN records' /\ records'[tasks'[e].slot].epoch = e
    <3>1. CASE e = n
      BY <1>2, <3>1
    <3>2. CASE e # n
      <4>1. Running(e) /\ ~Restarted(r) /\ e \in DOMAIN tasks
        BY <1>6, <2>2, <3>2 DEF Running
      <4>2. tasks[e].slot \in DOMAIN records /\ records[tasks[e].slot].epoch = e
        BY <4>1 DEF IInv, PlacesAreServed
      <4>3. tasks[e].slot \in DOMAIN c.holes
        BY <1>0, <4>1, <4>2, GreetingKeeps DEF RecordsGreeted
      <4> QED
        BY <1>2, <1>6, <4>1, <4>2, <4>3
    <3> QED
      BY <3>1, <3>2
  <2> QED
    BY <1>2, <2>1, <2>2 DEF PlacesAreServed
<1> QED
  BY <1>1, <1>7, <1>8, <1>9, <1>10, <1>11, <1>12, <1>13 DEF IInv

(* What a knock that aborts the old task leaves.                           *)
ReplacesAs(r, n, old) ==
    /\ ~Restarted(r) /\ r.slot \in DOMAIN records /\ r.slot \in DOMAIN core.holes
    /\ core.started = r.started
    /\ core'.nextEpoch = n /\ core'.started = r.started
    /\ core'.closed = Greeted(r).closed
    /\ DOMAIN core'.holes = DOMAIN core.holes
    /\ core'.holes[r.slot].epoch = n /\ core'.holes[r.slot].session = r.session
    /\ \A s \in DOMAIN core.holes \ {r.slot} : core'.holes[s] = core.holes[s]
    /\ DOMAIN records' = DOMAIN records \ {r.slot}
    /\ \A s \in DOMAIN records' : records'[s] = records[s]
    /\ DOMAIN tasks' = DOMAIN tasks
    /\ \A e \in DOMAIN tasks :
          /\ tasks'[e].slot = tasks[e].slot /\ tasks'[e].session = tasks[e].session
          /\ tasks'[e].started = tasks[e].started
          /\ tasks'[e].stage = tasks[e].stage
    /\ \A e \in Epoch : (Running(e))' <=> Running(e) /\ e # old
    /\ old \in Epoch /\ old = core.holes[r.slot].epoch
    /\ replacing'.request = r /\ replacing'.epoch = n /\ replacing'.old = old
    /\ ~Idle' /\ ctl' = ctl

(* The hole of a known number waits for the end of the old task.           *)
LEMMA KnockReplacesIs ==
    ASSUME IInv, NEW r \in client, Knock(r), KnockReplaces(r)
    PROVE  ReplacesAs(r, core.nextEpoch + 1, records[r.slot].epoch)
<1>0. PICK n, old : n = core.nextEpoch + 1 /\ old = records[r.slot].epoch
  OBVIOUS
<1> DEFINE c == Greeted(r)
<1>1. /\ core' = Spawned(c, r) /\ r.slot \in DOMAIN c.holes /\ r.slot \in DOMAIN records
      /\ records' = Without(records, r.slot) /\ tasks' = Aborted({old}) /\ ctl' = ctl
      /\ replacing' = [epoch |-> c.nextEpoch + 1, request |-> r, old |-> old]
  BY <1>0 DEF KnockReplaces, Replaces
<1>2. /\ c \in Core /\ c.nextEpoch = core.nextEpoch /\ core.nextEpoch < MaxEpoch
      /\ core.nextEpoch + 1 \in Epoch /\ Idle
      /\ records[r.slot].epoch \in Epoch
  BY <1>1, KnockFacts DEF Knock
<1>3. /\ ~Restarted(r) /\ r.slot \in DOMAIN core.holes /\ core.started = r.started
      /\ c.holes = core.holes /\ c.started = r.started
  BY <1>1, GreetingKeeps
<1> DEFINE rec == [epoch |-> n, session |-> r.session]
<1>4. /\ core'.holes = With(core.holes, r.slot, rec)
      /\ core'.nextEpoch = n /\ core'.started = r.started /\ core'.closed = c.closed
  BY <1>0, <1>1, <1>2, <1>3, SpawnedIs DEF IInv, Typed
<1>5. rec.epoch = n /\ rec.session = r.session
  OBVIOUS
<1> HIDE DEF rec
<1>6. /\ DOMAIN core'.holes = DOMAIN core.holes
      /\ core'.holes[r.slot] = rec
      /\ \A s \in DOMAIN core.holes \ {r.slot} : core'.holes[s] = core.holes[s]
  BY <1>3, <1>4 DEF With
<1>7. /\ DOMAIN records' = DOMAIN records \ {r.slot}
      /\ \A s \in DOMAIN records' : records'[s] = records[s]
  BY <1>1 DEF Without, Restrict
<1>8. /\ DOMAIN tasks' = DOMAIN tasks
      /\ \A e \in DOMAIN tasks :
            /\ tasks'[e].slot = tasks[e].slot /\ tasks'[e].session = tasks[e].session
            /\ tasks'[e].started = tasks[e].started /\ tasks'[e].stage = tasks[e].stage
            /\ tasks'[e].aborted = (tasks[e].aborted \/ e = old)
  BY <1>1, AbortedIs DEF IInv, Typed
<1>9. \A e \in Epoch : (Running(e))' <=> Running(e) /\ e # old
  BY <1>8 DEF Running
<1>10. old \in Epoch /\ old = core.holes[r.slot].epoch
  BY <1>0, <1>1, <1>2 DEF IInv, PlacesAreServed
<1>11. replacing'.request = r /\ replacing'.epoch = n /\ replacing'.old = old
  BY <1>0, <1>1, <1>2
<1>12. ~Idle'
  <2>1. n # 0
    BY <1>0, <1>2, VpsServerAssumption DEF Epoch
  <2>2. replacing' # NoSpawn
    BY <1>11, <2>1 DEF NoSpawn
  <2> QED
    BY <2>2 DEF Idle, NoSpawn
<1>13. ReplacesAs(r, n, old)
  BY <1>1, <1>3, <1>4, <1>5, <1>6, <1>7, <1>8, <1>9, <1>10, <1>11, <1>12 DEF rec, ReplacesAs
<1> QED
  BY <1>0, <1>13

LEMMA KnockReplacesKeeps ==
    ASSUME IInv, NEW r \in client, Knock(r), KnockReplaces(r)
    PROVE  IInv'
<1>0. PICK n, old : n = core.nextEpoch + 1 /\ old = records[r.slot].epoch
  OBVIOUS
<1>1. Typed'
  BY KnockTyped DEF IInv
<1>2. /\ ~Restarted(r) /\ r.slot \in DOMAIN records /\ r.slot \in DOMAIN core.holes
      /\ core.started = r.started
      /\ core'.nextEpoch = n /\ core'.started = r.started
      /\ core'.closed = Greeted(r).closed
      /\ DOMAIN core'.holes = DOMAIN core.holes
      /\ core'.holes[r.slot].epoch = n /\ core'.holes[r.slot].session = r.session
      /\ \A s \in DOMAIN core.holes \ {r.slot} : core'.holes[s] = core.holes[s]
      /\ DOMAIN records' = DOMAIN records \ {r.slot}
      /\ \A s \in DOMAIN records' : records'[s] = records[s]
      /\ DOMAIN tasks' = DOMAIN tasks
      /\ \A e \in DOMAIN tasks :
            /\ tasks'[e].slot = tasks[e].slot /\ tasks'[e].session = tasks[e].session
            /\ tasks'[e].started = tasks[e].started
      /\ \A e \in Epoch : (Running(e))' <=> Running(e) /\ e # old
      /\ old \in Epoch /\ old = core.holes[r.slot].epoch
      /\ replacing'.request = r /\ replacing'.epoch = n /\ ~Idle'
  BY <1>0, KnockReplacesIs DEF ReplacesAs
<1>3. /\ Len(Greeted(r).closed) <= CLOSED_MEMORY
      /\ \A f \in Epoch : EndedInMailbox(f) <=> (EndedInMailbox(f))'
      /\ DOMAIN tasks \subseteq Epoch /\ n \in Epoch /\ core.nextEpoch \in Nat
      /\ n = core.nextEpoch + 1
      /\ \A s \in DOMAIN core.holes : core.holes[s].epoch \in Epoch
      /\ \A s \in DOMAIN records : records[s].epoch \in Epoch
      /\ \A i \in DOMAIN mailbox : mailbox[i].epoch \in Epoch
      /\ Idle /\ UNCHANGED <<client, mailbox, leases, registry, over>>
  BY <1>0, KnockFacts
<1>4. n \notin DOMAIN tasks /\ (\A i \in DOMAIN mailbox : mailbox[i].epoch # n)
      /\ (\A s \in DOMAIN core.holes : core.holes[s].epoch # n)
  <2>1. \A e \in Epoch : e <= core.nextEpoch => e # n
    BY <1>3 DEF Epoch
  <2> QED
    BY <1>3, <2>1 DEF IInv, EpochsAreOwn
<1>5. Bounded'
  BY <1>2, <1>3 DEF IInv, Bounded
<1>6. EpochsAreOwn'
  <2>1. \A s \in DOMAIN core'.holes :
           /\ core'.holes[s].epoch <= n
           /\ s # r.slot => core'.holes[s].epoch # n
    BY <1>2, <1>3, <1>4 DEF IInv, EpochsAreOwn, Epoch
  <2>2. \A e \in DOMAIN tasks' : e <= n
    BY <1>2, <1>3 DEF IInv, EpochsAreOwn, Epoch
  <2>3. \A i \in DOMAIN mailbox' : mailbox'[i].epoch <= n
    BY <1>3 DEF IInv, EpochsAreOwn, Epoch
  <2>4. \A s, t \in DOMAIN core'.holes :
           core'.holes[s].epoch = core'.holes[t].epoch => s = t
    BY <1>2, <2>1 DEF IInv, EpochsAreOwn
  <2> QED
    BY <1>2, <2>1, <2>2, <2>3, <2>4 DEF EpochsAreOwn
<1>7. EpochsNameHoles'
  <2> SUFFICES ASSUME NEW s \in DOMAIN core'.holes
               PROVE  /\ core'.holes[s].epoch \in DOMAIN tasks' =>
                           /\ tasks'[core'.holes[s].epoch].slot = s
                           /\ tasks'[core'.holes[s].epoch].session = core'.holes[s].session
                      /\ \A i \in DOMAIN mailbox :
                           mailbox[i].epoch = core'.holes[s].epoch => mailbox[i].slot = s
    BY <1>3 DEF EpochsNameHoles
  <2>1. CASE s = r.slot
    BY <1>2, <1>4, <2>1
  <2>2. CASE s # r.slot
    <3>1. core'.holes[s] = core.holes[s] /\ s \in DOMAIN core.holes
      BY <1>2, <2>2
    <3> QED
      BY <1>2, <3>1 DEF IInv, EpochsNameHoles
  <2> QED
    BY <2>1, <2>2
<1>8. ReplacementWaits'
  <2>1. DOMAIN records' = DOMAIN core'.holes \ {r.slot}
    BY <1>2, <1>3 DEF IInv, PlacesAreServed
  <2> QED
    BY <1>2, <1>3, <1>4, <2>1 DEF ReplacementWaits
<1>9. EndedAreOver'
  BY <1>2, <1>3 DEF IInv, EndedAreOver
<1>10. AliveAreOfThisProcess'
  <2>1. \A s \in DOMAIN core'.holes :
           \E q \in client : /\ q.slot = s /\ q.session = core'.holes[s].session
                             /\ q.started = r.started
    BY <1>2 DEF IInv, AliveAreOfThisProcess
  <2>2. ASSUME NEW e \in DOMAIN tasks'
        PROVE  /\ \E q \in client : /\ q.slot = tasks'[e].slot /\ q.session = tasks'[e].session
                                    /\ q.started = tasks'[e].started
               /\ tasks'[e].started <= r.started
               /\ (Running(e))' => tasks'[e].started = r.started
    <3>1. /\ e \in DOMAIN tasks /\ e \in Epoch
          /\ tasks'[e].slot = tasks[e].slot /\ tasks'[e].session = tasks[e].session
          /\ tasks'[e].started = tasks[e].started
          /\ (Running(e))' => Running(e)
      BY <1>2, <1>3
    <3>2. core.started = r.started
      BY <1>2
    <3> QED
      BY <3>1, <3>2 DEF IInv, AliveAreOfThisProcess
  <2> QED
    BY <1>2, <1>3, <2>1, <2>2 DEF AliveAreOfThisProcess
<1>11. PlacesAreServed'
  <2>1. ASSUME NEW s \in DOMAIN records'
        PROVE  /\ s \in DOMAIN core'.holes /\ records'[s].epoch = core'.holes[s].epoch
               /\ (Running(records[s].epoch))' \/ (EndedInMailbox(records[s].epoch))'
    <3>1. /\ s \in DOMAIN records /\ records'[s] = records[s] /\ s # r.slot
          /\ s \in DOMAIN core.holes /\ records[s].epoch = core.holes[s].epoch
          /\ core'.holes[s] = core.holes[s]
      BY <1>2, <2>1 DEF IInv, PlacesAreServed
    <3>2. PICK e \in Epoch : e = records[s].epoch /\ e = records'[s].epoch
      BY <1>3, <3>1
    <3>3. e # old
      <4>1. core.holes[s].epoch # core.holes[r.slot].epoch
        BY <1>2, <3>1 DEF IInv, EpochsAreOwn
      <4> QED
        BY <1>2, <3>1, <3>2, <4>1
    <3>4. (Running(e))' \/ (EndedInMailbox(e))'
      BY <1>2, <1>3, <3>1, <3>2, <3>3 DEF IInv, PlacesAreServed
    <3>5. (Running(records[s].epoch))' \/ (EndedInMailbox(records[s].epoch))'
      BY <3>2, <3>4 DEF Running, EndedInMailbox
    <3> QED
      BY <1>2, <3>1, <3>5
  <2>2. ASSUME NEW e \in Epoch, (Running(e))'
        PROVE  tasks'[e].slot \in DOMAIN records' /\ records'[tasks'[e].slot].epoch = e
    <3>1. Running(e) /\ e # old /\ e \in DOMAIN tasks
      BY <1>2, <2>2 DEF Running
    <3>2. tasks[e].slot \in DOMAIN records /\ records[tasks[e].slot].epoch = e
      BY <3>1 DEF IInv, PlacesAreServed
    <3>3. tasks[e].slot # r.slot
      BY <1>0, <3>1, <3>2
    <3> QED
      BY <1>2, <3>1, <3>2, <3>3
  <2> QED
    BY <1>2, <2>1, <2>2 DEF PlacesAreServed
<1> QED
  BY <1>1, <1>5, <1>6, <1>7, <1>8, <1>9, <1>10, <1>11 DEF IInv

-----------------------------------------------------------------------------
(* The invariant holds.                                                    *)

LEMMA InitIInv == Init => IInv
<1> SUFFICES ASSUME Init
             PROVE  IInv
  OBVIOUS
<1>1. /\ Typed /\ Bounded
      /\ DOMAIN core.holes = {} /\ DOMAIN records = {} /\ DOMAIN tasks = {}
      /\ DOMAIN mailbox = {} /\ Idle /\ core.started = 0
  BY InitTyped, EmptyType DEF Init, Idle
<1> QED
  BY <1>1 DEF IInv, EpochsAreOwn, EpochsNameHoles, ReplacementWaits, EndedAreOver,
     EndedInMailbox, AliveAreOfThisProcess, PlacesAreServed, Running

LEMMA StepIInv == IInv /\ [Next]_vars => IInv'
<1> SUFFICES ASSUME IInv, [Next]_vars
             PROVE  IInv'
  OBVIOUS
<1>1. ASSUME NEW r \in client, Knock(r)
      PROVE  IInv'
  BY <1>1, KnockWithoutHoleKeeps, KnockSpawnsKeeps, KnockReplacesKeeps DEF Knock
<1>2. CASE Replace
  BY <1>2, ReplaceKeeps
<1>3. CASE Receive
  BY <1>3, ReceiveKeeps
<1>4. ASSUME NEW e \in Epoch, Listen(e) \/ NoPort(e) \/ Hold(e) \/ End(e) \/ Drop(e)
      PROVE  IInv'
  BY <1>4, TasksMove, MovesKeep DEF IInv
<1>5. CASE UNCHANGED vars
  BY <1>5 DEF vars, actorVars, IInv, Typed, Bounded, EpochsAreOwn, EpochsNameHoles,
     ReplacementWaits, EndedAreOver, EndedInMailbox, AliveAreOfThisProcess, PlacesAreServed,
     Running, Idle
<1> QED
  BY <1>1, <1>2, <1>3, <1>4, <1>5 DEF Next

LEMMA Invariance == Spec => []IInv
<1> QED
  BY InitIInv, StepIInv, PTL DEF Spec

(* The state of the actor, of the tasks and of the shared tables keeps its  *)
(* types, and no bound of the code is passed (vps/mod.rs:428-447).          *)
THEOREM TypeCorrect == Spec => []TypeOK
<1>1. IInv => TypeOK
  <2> SUFFICES ASSUME IInv
               PROVE  TypeOK
    OBVIOUS
  <2>1. \A S, T, f : f \in Partial(S, T) => DOMAIN f \subseteq S /\ f \in [DOMAIN f -> T]
    BY PartialIs
  <2>2. /\ core.holes \in Partial(Slot, HoleRec) /\ core.nextEpoch \in 0 .. MaxEpoch
        /\ records \in Partial(Slot, Record) /\ tasks \in Partial(Epoch, TaskRec)
        /\ leases \in Partial(Epoch, Port) /\ ctl \in Partial(Slot, Epoch)
        /\ registry \in Partial(Slot, Epoch)
    BY DEF IInv, Typed, Core
  <2>3. \A e \in DOMAIN tasks : tasks[e].stage \in Stage
    <3>1. \A e \in DOMAIN tasks : tasks[e] \in TaskRec
      BY <2>2, PartialValue
    <3> QED
      BY <3>1 DEF TaskRec
  <2> QED
    BY <2>1, <2>2, <2>3 DEF IInv, Typed, Bounded, TypeOK
<1> QED
  BY <1>1, Invariance, PTL

(* No place of the client is lost and no task runs that the actor could not *)
(* abort, however requests, ends, drops and restarts of the client meet     *)
(* (vps/mod.rs:393-402, 479-481), on one thread or on many.                 *)
THEOREM PlacesAreServedHolds == Spec => []PlacesAreServed
<1>1. IInv => PlacesAreServed
  BY DEF IInv
<1> QED
  BY <1>1, Invariance, PTL

-----------------------------------------------------------------------------
(* Late requests.                                                          *)

(* Distinct members of a finite set, one for each place of a sequence, are  *)
(* no fewer than the sequence is long.                                      *)
LEMMA SequenceFits ==
    ASSUME NEW n \in Nat, NEW S, IsFiniteSet(S), NEW f \in [1 .. n -> S],
           \A i, j \in 1 .. n : f[i] = f[j] => i = j
    PROVE  n <= Cardinality(S)
<1>1. f \in Injection(1 .. n, S)
  BY DEF Injection, IsInjective
<1>2. Cardinality(1 .. n) <= Cardinality(S)
  BY <1>1, FS_Injection
<1>3. Cardinality(1 .. n) = n
  BY FS_Interval
<1> QED
  BY <1>2, <1>3

(* A knock starts no session that is over.                                 *)
LEMMA KnockRemembers ==
    ASSUME IInv, MIInv, NEW r \in client, Knock(r)
    PROVE  MIInv'
<1>0. PICK c, n, old : /\ c = Greeted(r) /\ n = core.nextEpoch + 1
                       /\ old = records[r.slot].epoch
  OBVIOUS
<1>1. UNCHANGED <<client, over>>
  BY DEF Knock
<1>2. /\ core' = c /\ (\A s \in DOMAIN core'.holes : core'.holes[s] = c.holes[s] /\ s \in DOMAIN c.holes)
      \/ /\ core'.closed = c.closed /\ core'.started = c.started
         /\ \A s \in DOMAIN core'.holes \ {r.slot} :
               s \in DOMAIN c.holes /\ core'.holes[s] = c.holes[s]
         /\ core'.holes[r.slot].session = r.session /\ ~WasClosed(c, r)
  <2>1. CASE KnockWithoutHole(r)
    BY <1>0, <2>1 DEF KnockWithoutHole
  <2>2. CASE KnockSpawns(r)
    <3>1. ~WasClosed(c, r)
      BY <1>0, <2>2 DEF KnockSpawns, Spawns
    <3>2. /\ core'.closed = c.closed /\ core'.started = c.started
          /\ DOMAIN core'.holes = DOMAIN c.holes \cup {r.slot}
          /\ core'.holes[r.slot].session = r.session
          /\ \A s \in DOMAIN c.holes : core'.holes[s] = c.holes[s]
      BY <1>0, <2>2, KnockSpawnsIs DEF SpawnsAs
    <3> QED
      BY <3>1, <3>2
  <2>3. CASE KnockReplaces(r)
    <3>1. ~WasClosed(c, r) /\ r.slot \in DOMAIN c.holes
      BY <1>0, <2>3 DEF KnockReplaces, Spawns, Replaces
    <3>2. /\ core'.closed = c.closed /\ core'.started = r.started
          /\ core'.holes[r.slot].session = r.session
          /\ DOMAIN core'.holes = DOMAIN core.holes
          /\ \A s \in DOMAIN core.holes \ {r.slot} : core'.holes[s] = core.holes[s]
      BY <1>0, <2>3, KnockReplacesIs DEF ReplacesAs
    <3>3. c.holes = core.holes /\ c.started = r.started
      BY <1>0, <3>1, GreetingKeeps
    <3> QED
      BY <3>1, <3>2, <3>3
  <2> QED
    BY <2>1, <2>2, <2>3 DEF Knock
<1>3. /\ r.started = c.started /\ r.started \in Nat /\ core.started \in Nat
      /\ c.closed = (IF Grown(r) THEN <<>> ELSE core.closed)
      /\ c.started = (IF Grown(r) THEN r.started ELSE core.started)
      /\ \A s \in DOMAIN c.holes : s \in DOMAIN core.holes /\ c.holes[s] = core.holes[s]
  BY <1>0, GreetedIs, GreetingKeeps DEF IInv, Typed, Core
<1>4. core.started <= r.started /\ (Grown(r) <=> core.started # r.started)
      /\ (~Grown(r) => core'.closed = core.closed)
      /\ (Grown(r) => core'.closed = <<>>)
      /\ core'.started = r.started
  <2>1. core'.closed = c.closed /\ core'.started = c.started
    BY <1>2
  <2> QED
    BY <1>3, <2>1 DEF Grown
<1>5. ASSUME Cardinality(over) <= CLOSED_MEMORY
      PROVE  /\ \A i \in DOMAIN core'.closed : core'.closed[i][2] \in over
             /\ \A i, j \in DOMAIN core'.closed :
                   core'.closed[i][2] = core'.closed[j][2] => i = j
             /\ \A s \in DOMAIN core'.holes : core'.holes[s].session \notin over
             /\ \A x \in over : \E q \in client :
                   /\ q.session = x /\ q.started <= core'.started
                   /\ q.started = core'.started => Contains(core'.closed, <<q.slot, x>>)
  <2>1. /\ \A i \in DOMAIN core.closed : core.closed[i][2] \in over
        /\ \A i, j \in DOMAIN core.closed : core.closed[i][2] = core.closed[j][2] => i = j
        /\ \A s \in DOMAIN core.holes : core.holes[s].session \notin over
        /\ \A x \in over : \E q \in client :
              /\ q.session = x /\ q.started <= core.started
              /\ q.started = core.started => Contains(core.closed, <<q.slot, x>>)
    BY <1>5 DEF MIInv, MemoryIsComplete
  <2>2. \A q \in client : q.started \in Nat /\ (q.session = r.session => q = r)
    BY RequestTypes, VpsServerAssumption DEF IInv, Typed
  <2>3. \A x \in over : \E q \in client :
           /\ q.session = x /\ q.started <= core'.started
           /\ q.started = core'.started => Contains(core'.closed, <<q.slot, x>>)
    <3> SUFFICES ASSUME NEW x \in over
                 PROVE  \E q \in client :
                           /\ q.session = x /\ q.started <= core'.started
                           /\ q.started = core'.started => Contains(core'.closed, <<q.slot, x>>)
      OBVIOUS
    <3>1. PICK q \in client : /\ q.session = x /\ q.started <= core.started
                              /\ q.started = core.started => Contains(core.closed, <<q.slot, x>>)
      BY <2>1
    <3> DEFINE was == core.started
               now == core'.started
    <3>0. /\ q.started \in Nat /\ was \in Nat /\ now \in Nat
          /\ q.started <= was /\ was <= now /\ now = r.started
      <4>1. q.started \in Nat
        BY <2>2
      <4> QED
        BY <1>3, <1>4, <3>1, <4>1
    <3> HIDE DEF was, now
    <3>2. q.started <= now
      BY <3>0
    <3>3. q.started = now => was = r.started /\ q.started = was
      BY <3>0
    <3> USE DEF was, now
    <3>4. q.started = core'.started => Contains(core'.closed, <<q.slot, x>>)
      BY <1>4, <3>1, <3>3
    <3> QED
      BY <3>1, <3>2, <3>4
  <2>4. ASSUME ~WasClosed(c, r)
        PROVE  r.session \notin over
    <3>1. SUFFICES ASSUME r.session \in over
                   PROVE  FALSE
      OBVIOUS
    <3>2. /\ r.started <= core.started
          /\ r.started = core.started => Contains(core.closed, <<r.slot, r.session>>)
      BY <2>1, <2>2, <3>1
    <3>3. ~Grown(r) /\ c.closed = core.closed /\ Contains(core.closed, <<r.slot, r.session>>)
      BY <1>3, <1>4, <3>2
    <3> QED
      BY <2>4, <3>3 DEF WasClosed
  <2>5. \A s \in DOMAIN core'.holes : core'.holes[s].session \notin over
    BY <1>2, <1>3, <2>1, <2>4
  <2>6. DOMAIN <<>> = {}
    BY EmptyType
  <2> QED
    BY <1>4, <2>1, <2>3, <2>5, <2>6
<1> QED
  BY <1>1, <1>5 DEF MIInv, MemoryIsComplete

(* The end of a hole is remembered before the memory forgets another.      *)
LEMMA ReceiveRemembers ==
    ASSUME IInv, MIInv, Receive
    PROVE  MIInv'
<1> DEFINE m == Head(mailbox)
<1>1. UNCHANGED client
  BY DEF Receive
<1>2. CASE core' = core /\ over' = over
  BY <1>1, <1>2 DEF MIInv, MemoryIsComplete
<1>3. CASE /\ m.kind = "ended" /\ IsCurrent(m) /\ core' = Closed(m)
           /\ over' = IF m.retry THEN over ELSE over \cup {core.holes[m.slot].session}
  <2>0. PICK x : x = core.holes[m.slot].session
    OBVIOUS
  <2>1. m \in Message
    BY HeadIs DEF IInv, Typed, Receive
  <2>2. /\ core'.holes = Without(core.holes, m.slot) /\ core'.started = core.started
        /\ core'.closed = IF m.retry THEN core.closed
                          ELSE IF Len(Append(core.closed, <<m.slot, x>>)) > CLOSED_MEMORY
                               THEN Tail(Append(core.closed, <<m.slot, x>>))
                               ELSE Append(core.closed, <<m.slot, x>>)
    BY <1>3, <2>0, <2>1, ClosedIs DEF IInv, Typed
  <2>3. \A s \in DOMAIN core'.holes :
           s \in DOMAIN core.holes /\ s # m.slot /\ core'.holes[s] = core.holes[s]
    BY <2>2 DEF Without, Restrict
  <2>4. CASE m.retry
    BY <1>1, <1>3, <2>2, <2>3, <2>4 DEF MIInv, MemoryIsComplete
  <2>5. CASE ~m.retry
    <3>1. over' = over \cup {x} /\ IsFiniteSet(over')
      BY <1>3, <2>0, <2>5, FS_AddElement DEF MIInv
    <3>2. SUFFICES ASSUME Cardinality(over') <= CLOSED_MEMORY
                   PROVE  MemoryIsComplete'
      BY <3>1 DEF MIInv, MemoryIsComplete
    <3>3. /\ Cardinality(over) <= CLOSED_MEMORY /\ Cardinality(over) \in Nat
          /\ x \notin over => Cardinality(over') = Cardinality(over) + 1
      <4>1. Cardinality(over) \in Nat /\ Cardinality(over') \in Nat
        BY <3>1, FS_CardinalityType DEF MIInv
      <4>2. Cardinality(over') = IF x \in over THEN Cardinality(over) ELSE Cardinality(over) + 1
        BY <3>1, FS_AddElement DEF MIInv
      <4> QED
        BY <3>2, <4>1, <4>2, VpsServerAssumption
    <3>4. /\ \A i \in DOMAIN core.closed : core.closed[i][2] \in over
          /\ \A i, j \in DOMAIN core.closed : core.closed[i][2] = core.closed[j][2] => i = j
          /\ \A s \in DOMAIN core.holes : core.holes[s].session \notin over
          /\ \A y \in over : \E q \in client :
                /\ q.session = y /\ q.started <= core.started
                /\ q.started = core.started => Contains(core.closed, <<q.slot, y>>)
      BY <3>3 DEF MIInv, MemoryIsComplete
    <3>5. m.slot \in DOMAIN core.holes /\ x \notin over
      BY <1>3, <2>0, <3>4 DEF IsCurrent
    <3>6. /\ m.slot \in Slot /\ x \in Session /\ core.closed \in Seq(Slot \X Session)
          /\ core.started \in Nat
      <4>1. core.holes[m.slot] \in HoleRec
        BY <3>5, PartialValue DEF IInv, Typed, Core
      <4> QED
        BY <2>0, <2>1, <4>1 DEF HoleRec, Message, IInv, Typed, Core
    <3>7. PICK n \in Nat : n = Len(core.closed) /\ DOMAIN core.closed = 1 .. n
      BY <3>6, LenProperties
    <3>8. n <= Cardinality(over)
      <4> DEFINE f == [i \in 1 .. n |-> core.closed[i][2]]
      <4>1. f \in [1 .. n -> over]
        BY <3>4, <3>7
      <4>2. \A i, j \in 1 .. n : f[i] = f[j] => i = j
        BY <3>4, <3>7
      <4>3. IsFiniteSet(over)
        BY DEF MIInv
      <4> HIDE DEF f
      <4> QED
        BY <4>1, <4>2, <4>3, SequenceFits
    <3>a. PICK new : new = <<m.slot, x>>
      OBVIOUS
    <3>9. new = <<m.slot, x>> /\ new \in Slot \X Session /\ new[2] = x
      BY <3>6, <3>a
    <3>10. /\ Len(Append(core.closed, new)) = n + 1
           /\ \A i \in 1 .. n : Append(core.closed, new)[i] = core.closed[i]
           /\ Append(core.closed, new)[n + 1] = new
           /\ Append(core.closed, new) \in Seq(Slot \X Session)
      BY <3>6, <3>7, <3>9, AppendProperties
    <3>11. core'.closed = Append(core.closed, new)
      <4>1. n + 1 <= CLOSED_MEMORY
        BY <3>2, <3>3, <3>5, <3>8, VpsServerAssumption
      <4> QED
        BY <2>2, <2>5, <3>9, <3>10, <4>1, VpsServerAssumption
    <3>12. DOMAIN core'.closed = 1 .. (n + 1) /\ Len(core'.closed) = n + 1
      BY <3>10, <3>11, LenProperties
    <3>13. \A i \in DOMAIN core'.closed :
              /\ i \in DOMAIN core.closed => core'.closed[i] = core.closed[i]
              /\ i \notin DOMAIN core.closed => i = n + 1 /\ core'.closed[i] = new
      BY <3>7, <3>10, <3>11, <3>12
    <3>14. \A i \in DOMAIN core'.closed : core'.closed[i][2] \in over'
      BY <3>1, <3>4, <3>9, <3>13
    <3>15. \A i, j \in DOMAIN core'.closed : core'.closed[i][2] = core'.closed[j][2] => i = j
      BY <3>4, <3>5, <3>9, <3>13
    <3>16. \A s \in DOMAIN core'.holes : core'.holes[s].session \notin over'
      <4> SUFFICES ASSUME NEW s \in DOMAIN core'.holes
                   PROVE  core'.holes[s].session \notin over'
        OBVIOUS
      <4>1. s \in DOMAIN core.holes /\ s # m.slot /\ core'.holes[s] = core.holes[s]
        BY <2>3
      <4>2. PICK q \in client : q.slot = s /\ q.session = core.holes[s].session
        BY <4>1 DEF IInv, AliveAreOfThisProcess
      <4>3. PICK p \in client : p.slot = m.slot /\ p.session = x
        BY <2>0, <3>5 DEF IInv, AliveAreOfThisProcess
      <4>4. q.session # x
        BY <4>1, <4>2, <4>3, VpsServerAssumption DEF IInv, Typed
      <4> QED
        BY <3>1, <3>4, <4>1, <4>2, <4>4
    <3>17. ASSUME NEW y \in over'
           PROVE  \E q \in client :
                     /\ q.session = y /\ q.started <= core.started
                     /\ q.started = core.started => Contains(core'.closed, <<q.slot, y>>)
      <4>1. CASE y = x
        <5>1. PICK q \in client : q.slot = m.slot /\ q.session = x /\ q.started = core.started
          BY <2>0, <3>5 DEF IInv, AliveAreOfThisProcess
        <5>2. n + 1 \in 1 .. Len(core'.closed) /\ core'.closed[n + 1] = <<q.slot, y>>
          BY <3>9, <3>10, <3>11, <3>12, <4>1, <5>1
        <5>3. Contains(core'.closed, <<q.slot, y>>)
          BY <5>2 DEF Contains
        <5>4. q.started <= core.started
          BY <3>6, <5>1
        <5> QED
          BY <4>1, <5>1, <5>3, <5>4
      <4>2. CASE y \in over
        <5>1. PICK q \in client :
                /\ q.session = y /\ q.started <= core.started
                /\ q.started = core.started => Contains(core.closed, <<q.slot, y>>)
          BY <3>4, <4>2
        <5>2. Contains(core.closed, <<q.slot, y>>) => Contains(core'.closed, <<q.slot, y>>)
          BY <3>7, <3>12, <3>13 DEF Contains
        <5> QED
          BY <5>1, <5>2
      <4> QED
        BY <3>1, <4>1, <4>2
    <3> QED
      BY <1>1, <2>2, <3>14, <3>15, <3>16, <3>17 DEF MemoryIsComplete
  <2> QED
    BY <2>4, <2>5
<1> QED
  BY <1>2, <1>3 DEF Receive

LEMMA MemoryStep == IInv /\ MIInv /\ [Next]_vars => MIInv'
<1> SUFFICES ASSUME IInv, MIInv, [Next]_vars
             PROVE  MIInv'
  OBVIOUS
<1>1. ASSUME NEW r \in client, Knock(r)
      PROVE  MIInv'
  BY <1>1, KnockRemembers
<1>2. CASE Receive
  BY <1>2, ReceiveRemembers
<1>3. CASE UNCHANGED <<client, core, over>>
  BY <1>3 DEF MIInv, MemoryIsComplete
<1>4. ASSUME NEW e \in Epoch, Listen(e) \/ NoPort(e) \/ Hold(e) \/ End(e) \/ Drop(e)
      PROVE  UNCHANGED <<client, core, over>>
  BY <1>4, TasksMove DEF IInv, TaskMoves, actorVars
<1> QED
  BY <1>1, <1>2, <1>3, <1>4 DEF Next, Replace, vars, actorVars

LEMMA MemoryHolds == Spec => [](IInv /\ MIInv)
<1>1. Init => MIInv
  <2> SUFFICES ASSUME Init
               PROVE  MIInv
    OBVIOUS
  <2>1. over = {} /\ DOMAIN core.closed = {} /\ DOMAIN core.holes = {}
    BY EmptyType DEF Init
  <2> QED
    BY <2>1, FS_EmptySet DEF MIInv, MemoryIsComplete
<1> QED
  BY <1>1, InitIInv, StepIInv, MemoryStep, PTL DEF Spec

(* A request that was late, repeated or reordered never starts a hole of an *)
(* earlier process of the client, nor one that ended for good while the      *)
(* memory of closed numbers is not exhausted (vps/mod.rs:13-15, 386).       *)
THEOREM LateRequestsStartNothingHolds == Spec => []LateRequestsStartNothing
<1>1. IInv /\ MIInv => LateRequestsStartNothing
  <2> SUFFICES ASSUME IInv, MIInv, NEW e \in Epoch, Running(e)
               PROVE  /\ tasks[e].started \in {0, core.started}
                      /\ Cardinality(over) <= CLOSED_MEMORY => tasks[e].session \notin over
    BY DEF LateRequestsStartNothing
  <2>1. e \in DOMAIN tasks
    BY DEF Running
  <2>2. tasks[e].started = core.started
    BY <2>1 DEF IInv, AliveAreOfThisProcess
  <2>3. /\ tasks[e].slot \in DOMAIN core.holes
        /\ core.holes[tasks[e].slot].epoch = e
    BY DEF IInv, PlacesAreServed
  <2>4. tasks[e].session = core.holes[tasks[e].slot].session
    BY <2>1, <2>3 DEF IInv, EpochsNameHoles
  <2> QED
    BY <2>2, <2>3, <2>4 DEF MIInv, MemoryIsComplete
<1> QED
  BY <1>1, MemoryHolds, PTL
-----------------------------------------------------------------------------
(* With one thread a task is dropped as it ends: the traces of the next task *)
(* of its number come later.                                               *)

(* A task of an earlier process of the client has another number.          *)
LEMMA EarlierHaveOtherNumbers ==
    ASSUME IInv, NEW r \in client, NEW f \in DOMAIN tasks, tasks[f].started # r.started
    PROVE  tasks[f].slot # r.slot
<1>1. PICK q \in client : q.slot = tasks[f].slot /\ q.started = tasks[f].started
  BY DEF IInv, AliveAreOfThisProcess
<1> QED
  BY <1>1, VpsServerAssumption DEF IInv, Typed

(* A task n is started with a number that no other task has.               *)
LEMMA StartTells ==
    ASSUME IInv, TIInv, NEW r \in client, NEW n \in Epoch,
           ctl' = With(ctl, r.slot, n), registry' = registry,
           DOMAIN tasks' = DOMAIN tasks \cup {n}, n \notin DOMAIN tasks,
           tasks'[n].slot = r.slot, tasks'[n].stage = "starting",
           \A f \in DOMAIN tasks :
              /\ tasks'[f].slot = tasks[f].slot /\ tasks'[f].stage = tasks[f].stage
              /\ (Running(f))' => Running(f)
              /\ tasks[f].slot # r.slot
    PROVE  /\ TracesAreOwn'
           /\ \A e \in DOMAIN tasks' : tasks'[e].stage # "over"
           /\ \A e, f \in DOMAIN tasks' : tasks'[e].slot = tasks'[f].slot => e = f
<1>1. \A e, f \in DOMAIN tasks' : tasks'[e].slot = tasks'[f].slot => e = f
  BY DEF TIInv, TasksAreTold
<1>2. ASSUME NEW e \in Epoch, (Running(e))'
      PROVE  /\ tasks'[e].slot \in DOMAIN ctl' /\ ctl'[tasks'[e].slot] = e
             /\ tasks'[e].stage = "held" =>
                   tasks'[e].slot \in DOMAIN registry' /\ registry'[tasks'[e].slot] = e
  <2>1. CASE e = n
    BY <2>1 DEF With
  <2>2. CASE e # n
    <3>1. Running(e) /\ e \in DOMAIN tasks
      BY <1>2, <2>2 DEF Running
    <3> QED
      BY <3>1 DEF With, TIInv, TracesAreOwn
  <2> QED
    BY <2>1, <2>2
<1>3. \A e \in DOMAIN tasks' : tasks'[e].stage # "over"
  BY DEF TIInv, TasksAreTold
<1> QED
  BY <1>1, <1>2, <1>3 DEF TracesAreOwn

(* A task that is dropped takes only traces of its own with it.            *)
LEMMA DropTells ==
    ASSUME IInv, TIInv, NEW e \in DOMAIN tasks, Dropped(e), UNCHANGED <<core, replacing>>
    PROVE  TIInv'
<1>1. /\ DOMAIN tasks' = DOMAIN tasks \ {e}
      /\ \A f \in DOMAIN tasks' : tasks'[f] = tasks[f]
  BY DroppedIs DEF IInv
<1>2. \A f \in Epoch : (Running(f))' => Running(f)
  BY <1>1 DEF Running
<1>3. \A f \in DOMAIN tasks' : tasks[f].slot # tasks[e].slot
  BY <1>1 DEF TIInv, TasksAreTold
<1>4. ctl' = Without(ctl, tasks[e].slot) /\ registry' = Without(registry, tasks[e].slot)
  BY DEF Dropped
<1>5. DOMAIN tasks \subseteq Epoch
  BY PartialIs DEF IInv, Typed
<1>6. TasksAreTold'
  <2>1. \A f \in DOMAIN tasks' : (Running(f))' <=> Running(f)
    BY <1>1 DEF Running
  <2> QED
    BY <1>1, <2>1 DEF TIInv, TasksAreTold, Idle
<1>7. ASSUME NEW f \in Epoch, (Running(f))'
      PROVE  /\ tasks'[f].slot \in DOMAIN ctl' /\ ctl'[tasks'[f].slot] = f
             /\ tasks'[f].stage = "held" =>
                   tasks'[f].slot \in DOMAIN registry' /\ registry'[tasks'[f].slot] = f
  <2>1. f \in DOMAIN tasks' /\ tasks'[f] = tasks[f] /\ Running(f)
    BY <1>1, <1>2, <1>7 DEF Running
  <2>2. tasks[f].slot # tasks[e].slot
    BY <1>3, <2>1
  <2> QED
    BY <1>4, <2>1, <2>2 DEF TIInv, TracesAreOwn, Without, Restrict
<1> QED
  BY <1>6, <1>7 DEF TIInv, TracesAreOwn

LEMMA TaskTells ==
    ASSUME ~MultiThread, IInv, TIInv, NEW e \in Epoch,
           Listen(e) \/ NoPort(e) \/ Hold(e) \/ End(e) \/ Drop(e)
    PROVE  TIInv'
<1>1. CASE Listen(e)
  <2>1. /\ e \in DOMAIN tasks /\ tasks' = [tasks EXCEPT ![e].stage = "punching"]
        /\ UNCHANGED <<core, replacing, ctl, registry>>
    BY <1>1 DEF Listen, Running, actorVars
  <2>2. /\ DOMAIN tasks' = DOMAIN tasks
        /\ \A f \in DOMAIN tasks :
              /\ tasks'[f].slot = tasks[f].slot /\ tasks'[f].started = tasks[f].started
              /\ tasks'[f].aborted = tasks[f].aborted
              /\ tasks'[f].stage = IF f = e THEN "punching" ELSE tasks[f].stage
    BY <2>1, StagedIs DEF IInv, Typed, Stage
  <2>3. \A f : (Running(f))' => Running(f)
    BY <2>2, <1>1 DEF Running, Listen
  <2>4. \A f \in DOMAIN tasks : Running(f) => (Running(f))'
    BY <2>2 DEF Running
  <2> QED
    BY <2>1, <2>2, <2>3, <2>4 DEF TIInv, TasksAreTold, TracesAreOwn, Idle, Running
<1>2. CASE Hold(e)
  <2>1. /\ e \in DOMAIN tasks /\ tasks' = [tasks EXCEPT ![e].stage = "held"] /\ Running(e)
        /\ UNCHANGED <<core, replacing, ctl>> /\ registry' = With(registry, tasks[e].slot, e)
    BY <1>2 DEF Hold, Running, actorVars
  <2>2. /\ DOMAIN tasks' = DOMAIN tasks
        /\ \A f \in DOMAIN tasks :
              /\ tasks'[f].slot = tasks[f].slot /\ tasks'[f].started = tasks[f].started
              /\ tasks'[f].aborted = tasks[f].aborted
              /\ tasks'[f].stage = IF f = e THEN "held" ELSE tasks[f].stage
    BY <2>1, StagedIs DEF IInv, Typed, Stage
  <2>3. \A f : (Running(f))' => Running(f)
    BY <2>1, <2>2 DEF Running
  <2>4. \A f \in DOMAIN tasks : Running(f) => (Running(f))'
    BY <2>2 DEF Running
  <2>5. TasksAreTold'
    BY <2>1, <2>2, <2>4 DEF TIInv, TasksAreTold, Idle
  <2>6. ASSUME NEW f \in Epoch, (Running(f))'
        PROVE  /\ tasks'[f].slot \in DOMAIN ctl' /\ ctl'[tasks'[f].slot] = f
               /\ tasks'[f].stage = "held" =>
                     tasks'[f].slot \in DOMAIN registry' /\ registry'[tasks'[f].slot] = f
    <3>1. Running(f) /\ f \in DOMAIN tasks
      BY <2>3, <2>6 DEF Running
    <3>2. f # e => tasks[f].slot # tasks[e].slot
      BY <2>1, <3>1 DEF TIInv, TasksAreTold
    <3> QED
      BY <2>1, <2>2, <3>1, <3>2 DEF TIInv, TracesAreOwn, With
  <2> QED
    BY <2>5, <2>6 DEF TIInv, TracesAreOwn
<1>3. CASE NoPort(e) \/ End(e) \/ Drop(e)
  <2>1. e \in DOMAIN tasks /\ Dropped(e) /\ UNCHANGED <<core, replacing>>
    BY <1>3 DEF NoPort, End, Drop, EndTask, Running, actorVars
  <2> QED
    BY <2>1, DropTells
<1> QED
  BY <1>1, <1>2, <1>3

LEMMA ReceiveTells ==
    ASSUME IInv, TIInv, Receive
    PROVE  TIInv'
<1>1. /\ UNCHANGED <<replacing, tasks, ctl, registry>>
      /\ core' = core \/ core' = Closed(Head(mailbox))
  BY DEF Receive
<1>2. core'.started = core.started
  <2>1. core \in Core
    BY DEF IInv, Typed
  <2>2. Closed(Head(mailbox)).started = core.started
    BY <2>1 DEF Closed, Core
  <2> QED
    BY <1>1, <2>2
<1> QED
  BY <1>1, <1>2 DEF TIInv, TasksAreTold, TracesAreOwn, Running, Idle

LEMMA ReplaceTells ==
    ASSUME IInv, TIInv, Replace
    PROVE  TIInv'
<1>1. PICK r, e : r = replacing.request /\ e = replacing.epoch
  OBVIOUS
<1>2. /\ UNCHANGED <<client, core, registry>> /\ ~Idle
      /\ replacing.old \notin DOMAIN tasks
      /\ tasks' = With(tasks, e, Task(r)) /\ ctl' = With(ctl, r.slot, e)
  BY <1>1 DEF Replace, SpawnHole
<1>3. /\ r \in client /\ r.started = core.started
      /\ DOMAIN records = DOMAIN core.holes \ {r.slot}
      /\ e \notin DOMAIN tasks
  BY <1>1, <1>2 DEF IInv, ReplacementWaits
<1>4. e \in Epoch /\ core.started \in Nat
  BY <1>1, <1>2, IdleIs DEF IInv, Typed, Spawn, Core
<1>5. /\ DOMAIN tasks' = DOMAIN tasks \cup {e}
      /\ \A f \in DOMAIN tasks : tasks'[f] = tasks[f]
      /\ tasks'[e].slot = r.slot /\ tasks'[e].aborted = FALSE
      /\ tasks'[e].stage = "starting" /\ tasks'[e].started = r.started
  BY <1>2, <1>3 DEF With, Task
<1>6. DOMAIN tasks \subseteq Epoch /\ \A f \in DOMAIN tasks : tasks[f].started \in Nat
  <2>1. \A f \in DOMAIN tasks : tasks[f] \in TaskRec
    BY PartialValue DEF IInv, Typed
  <2> QED
    BY <2>1, PartialIs DEF IInv, Typed, TaskRec
<1>7. \A f \in DOMAIN tasks : Running(f) \/ tasks[f].started < core.started
  BY <1>2 DEF TIInv, TasksAreTold
<1>8. \A f \in DOMAIN tasks : tasks[f].slot # r.slot
  <2> SUFFICES ASSUME NEW f \in DOMAIN tasks
               PROVE  tasks[f].slot # r.slot
    OBVIOUS
  <2>1. CASE Running(f)
    BY <1>3, <1>6, <2>1 DEF IInv, PlacesAreServed
  <2>2. CASE ~Running(f)
    BY <1>3, <1>4, <1>6, <1>7, <2>2, EarlierHaveOtherNumbers
  <2> QED
    BY <2>1, <2>2
<1>9. /\ \A f \in DOMAIN tasks : (Running(f))' <=> Running(f)
      /\ (Running(e))'
  BY <1>5 DEF Running
<1>10. /\ TracesAreOwn'
       /\ \A f \in DOMAIN tasks' : tasks'[f].stage # "over"
       /\ \A f, g \in DOMAIN tasks' : tasks'[f].slot = tasks'[g].slot => f = g
  BY <1>2, <1>3, <1>4, <1>5, <1>8, <1>9, StartTells
<1>11. \A f \in DOMAIN tasks' : (Running(f))' \/ tasks'[f].started < core'.started
  BY <1>2, <1>5, <1>7, <1>9
<1> QED
  BY <1>10, <1>11 DEF TIInv, TasksAreTold

LEMMA KnockTells ==
    ASSUME IInv, TIInv, NEW r \in client, Knock(r)
    PROVE  TIInv'
<1>0. PICK c, n : c = Greeted(r) /\ n = core.nextEpoch + 1
  OBVIOUS
<1>1. /\ Idle /\ registry' = registry /\ n \in Epoch /\ DOMAIN tasks \subseteq Epoch
      /\ core.nextEpoch \in Nat
  BY <1>0, KnockFacts
<1>2. /\ c.started = r.started /\ r.started \in Nat /\ core.started \in Nat
      /\ core.started <= r.started
      /\ DOMAIN TasksGreeted(r) = DOMAIN tasks
      /\ \A f \in DOMAIN tasks :
            /\ TasksGreeted(r)[f].slot = tasks[f].slot
            /\ TasksGreeted(r)[f].started = tasks[f].started
            /\ TasksGreeted(r)[f].stage = tasks[f].stage
            /\ RunningGreeted(r, f) <=> ~Restarted(r) /\ Running(f)
  <2>1. core.started \in Nat
    BY DEF IInv, Typed, Core
  <2>2. c.started = r.started /\ r.started \in Nat
    BY <1>0, GreetingKeeps
  <2>3. core.started <= r.started
    <3>1. c.started = IF Grown(r) THEN r.started ELSE core.started
      BY <1>0, GreetedIs DEF IInv, Typed
    <3> QED
      BY <2>1, <2>2, <3>1 DEF Grown
  <2> QED
    BY <1>0, <1>1, <2>1, <2>2, <2>3, GreetingKeeps
<1>3. \A f \in DOMAIN tasks : tasks[f].started \in Nat /\ tasks[f].started <= core.started
  <2>1. \A f \in DOMAIN tasks : tasks[f] \in TaskRec
    BY PartialValue DEF IInv, Typed
  <2> QED
    BY <2>1 DEF IInv, AliveAreOfThisProcess, TaskRec
<1>4. \A f \in DOMAIN tasks : Running(f) \/ tasks[f].started < core.started
  BY <1>1 DEF TIInv, TasksAreTold
<1>5. \A f \in DOMAIN tasks : RunningGreeted(r, f) \/ tasks[f].started < r.started
  <2>1. Restarted(r) => core.started < r.started
    BY DEF Restarted, Grown
  <2> QED
    BY <1>2, <1>3, <1>4, <2>1
<1>6. CASE KnockWithoutHole(r)
  <2>1. /\ tasks' = TasksGreeted(r) /\ core'.started = r.started
        /\ ctl' = ctl /\ replacing' = replacing
    BY <1>0, <1>2, <1>6 DEF KnockWithoutHole, TasksGreeted
  <2>2. \A f \in DOMAIN tasks : (Running(f))' <=> RunningGreeted(r, f)
    BY <1>2, <2>1 DEF Running, RunningGreeted
  <2>3. TasksAreTold'
    BY <1>2, <1>5, <2>1, <2>2 DEF TIInv, TasksAreTold
  <2>4. TracesAreOwn'
    <3>1. \A f \in Epoch : (Running(f))' => f \in DOMAIN tasks /\ Running(f)
      BY <1>2, <2>1, <2>2 DEF Running
    <3> QED
      BY <1>1, <1>2, <2>1, <3>1 DEF TIInv, TracesAreOwn
  <2> QED
    BY <2>3, <2>4 DEF TIInv
<1>7. CASE KnockSpawns(r)
  <2>1. /\ core'.started = r.started /\ r.slot \notin DOMAIN c.holes
        /\ DOMAIN tasks' = DOMAIN tasks \cup {n}
        /\ tasks'[n].slot = r.slot /\ tasks'[n].started = r.started
        /\ ~tasks'[n].aborted /\ tasks'[n].stage = "starting"
        /\ \A f \in DOMAIN tasks \ {n} : tasks'[f] = TasksGreeted(r)[f]
        /\ ctl' = With(ctl, r.slot, n)
    BY <1>0, <1>2, <1>7, KnockSpawnsIs DEF SpawnsAs
  <2>2. n \notin DOMAIN tasks
    <3>1. \A f \in DOMAIN tasks : f \in Nat /\ f <= core.nextEpoch
      BY <1>1 DEF IInv, EpochsAreOwn, Epoch
    <3> QED
      BY <1>0, <1>1, <3>1
  <2>3. /\ \A f \in DOMAIN tasks : (Running(f))' <=> RunningGreeted(r, f)
        /\ (Running(n))'
    BY <1>2, <2>1, <2>2 DEF Running, RunningGreeted
  <2>4. \A f \in DOMAIN tasks : tasks[f].slot # r.slot
    <3> SUFFICES ASSUME NEW f \in DOMAIN tasks
                 PROVE  tasks[f].slot # r.slot
      OBVIOUS
    <3>1. CASE RunningGreeted(r, f)
      <4>1. Running(f) /\ ~Restarted(r) /\ f \in Epoch
        BY <1>1, <1>2, <3>1
      <4>2. tasks[f].slot \in DOMAIN records
        BY <4>1 DEF IInv, PlacesAreServed
      <4>3. DOMAIN records = DOMAIN c.holes
        BY <1>0, <4>1, GreetingKeeps DEF RecordsGreeted
      <4> QED
        BY <2>1, <4>2, <4>3
    <3>2. CASE tasks[f].started < r.started
      BY <1>2, <1>3, <3>2, EarlierHaveOtherNumbers
    <3> QED
      BY <1>5, <3>1, <3>2
  <2>5. \A f \in DOMAIN tasks :
           /\ tasks'[f].slot = tasks[f].slot /\ tasks'[f].stage = tasks[f].stage
           /\ tasks'[f].started = tasks[f].started
           /\ (Running(f))' => Running(f)
    BY <1>2, <2>1, <2>2, <2>3
  <2>6. /\ TracesAreOwn'
        /\ \A f \in DOMAIN tasks' : tasks'[f].stage # "over"
        /\ \A f, g \in DOMAIN tasks' : tasks'[f].slot = tasks'[g].slot => f = g
    BY <1>1, <2>1, <2>2, <2>4, <2>5, StartTells
  <2>7. \A f \in DOMAIN tasks' : (Running(f))' \/ tasks'[f].started < core'.started
    BY <1>5, <2>1, <2>3, <2>5
  <2> QED
    BY <2>6, <2>7 DEF TIInv, TasksAreTold
<1>8. CASE KnockReplaces(r)
  <2>0. PICK old : old = records[r.slot].epoch
    OBVIOUS
  <2>1. /\ core'.started = r.started /\ core.started = r.started
        /\ DOMAIN tasks' = DOMAIN tasks
        /\ \A f \in DOMAIN tasks :
              /\ tasks'[f].slot = tasks[f].slot /\ tasks'[f].started = tasks[f].started
              /\ tasks'[f].stage = tasks[f].stage
        /\ \A f \in Epoch : (Running(f))' <=> Running(f) /\ f # old
        /\ replacing'.old = old /\ ~Idle' /\ ctl' = ctl
    BY <1>0, <1>8, <2>0, KnockReplacesIs DEF ReplacesAs
  <2>2. TasksAreTold'
    BY <1>1, <1>4, <2>1 DEF TIInv, TasksAreTold
  <2>3. TracesAreOwn'
    <3>1. \A f \in Epoch : (Running(f))' => f \in DOMAIN tasks /\ Running(f)
      BY <2>1 DEF Running
    <3> QED
      BY <1>1, <2>1, <3>1 DEF TIInv, TracesAreOwn
  <2> QED
    BY <2>2, <2>3 DEF TIInv
<1> QED
  BY <1>6, <1>7, <1>8 DEF Knock

(* The end of an old task does not touch a new hole with its number          *)
(* (vps/mod.rs:531-532), when no task runs between an end and its drop: what *)
(* is running gets the commands, and what is held is in the registry.       *)
THEOREM TracesAreOwnHolds == ~MultiThread => (Spec => []TracesAreOwn)
<1> SUFFICES ASSUME ~MultiThread
             PROVE  Spec => []TracesAreOwn
  OBVIOUS
<1>1. Init => TIInv
  <2> SUFFICES ASSUME Init
               PROVE  TIInv
    OBVIOUS
  <2>1. DOMAIN tasks = {}
    BY EmptyType DEF Init
  <2> QED
    BY <2>1 DEF TIInv, TasksAreTold, TracesAreOwn, Running
<1>2. IInv /\ TIInv /\ [Next]_vars => TIInv'
  <2> SUFFICES ASSUME IInv, TIInv, [Next]_vars
               PROVE  TIInv'
    OBVIOUS
  <2>1. CASE UNCHANGED vars
    BY <2>1 DEF vars, actorVars, TIInv, TasksAreTold, TracesAreOwn, Running, Idle
  <2> QED
    BY <2>1, KnockTells, ReplaceTells, ReceiveTells, TaskTells DEF Next
<1>3. TIInv => TracesAreOwn
  BY DEF TIInv
<1> QED
  BY <1>1, <1>2, <1>3, InitIInv, StepIInv, PTL DEF Spec

-----------------------------------------------------------------------------
(* Peers, phones and clients: Pairing.                                     *)

(* The types of the state, more exact than PairingTypeOK.                  *)
Entries == [peer : Client \cup Int, number : Nat, token : Nat, live : BOOLEAN, due : BOOLEAN,
            origin : {"settings", "paired", "pending", "file"}]
Texts == [peer : Int, number : Nat]
Calls == {NoCall} \cup [step : {"creating"}, peer : Int, number : Nat]
            \cup [step : {"adding"}, peer : Client, token : Nat]
            \cup [step : {"saving"}] \cup [step : {"writing"}, text : SUBSET Texts]

PairingTyped ==
    /\ program \in Programs
    /\ entries \in Seq(Entries) /\ doing \in [Caller -> Calls]
    /\ file \in SUBSET Texts
    /\ clients \in SUBSET Client /\ known \in SUBSET Client
    /\ changes \in Seq([op : {"add", "remove"}, peer : Client])
    /\ made \in 0 .. MaxPhones /\ overlapped \in BOOLEAN /\ dismissed \in BOOLEAN

(* What only one of the programs has.                                      *)
KindsFit ==
    /\ \A i \in DOMAIN entries : entries[i].origin = "file" <=> entries[i].peer \in Client
    /\ \A c \in Caller : doing[c].step = "adding" => c = "changes"
    /\ \A c \in Caller : doing[c].step = "writing" => program = "hp-server"
    /\ Pairs => /\ changes = <<>> /\ clients = {} /\ known = {}
                /\ \A i \in DOMAIN entries : entries[i].origin # "file"
                /\ \A c \in Caller : doing[c].step # "adding"
    /\ ~Pairs => /\ file = {} /\ promised = {}
                 /\ \A i \in DOMAIN entries : entries[i].origin = "file"
                 /\ \A c \in Caller : doing[c].step # "creating"

(* A phone that waits is the only one with its pair of GUIDs, and its       *)
(* package is valid only before its term ends.                             *)
Creating(c) == doing[c].step = "creating"
PendingFit ==
    /\ \A i \in DOMAIN entries : entries[i].origin = "pending" =>
          /\ entries[i].peer \in 1 .. made
          /\ \A j \in DOMAIN entries :
                entries[j].origin = "pending" /\ entries[j].peer = entries[i].peer => i = j
          /\ \A c \in Caller : Creating(c) => doing[c].peer # entries[i].peer
          /\ entries[i].due => entries[i].peer \notin promised
    /\ \A c \in Caller : Creating(c) => doing[c].peer \in 1 .. made
    /\ \A c, d \in Caller : Creating(c) /\ Creating(d) /\ doing[c].peer = doing[d].peer => c = d

(* The router's numbers: those of the settings are taken for good, and the  *)
(* one phone being paired has a number that nobody has.                    *)
Taken == {e.number : e \in ToSet(FromSettings)} \ {0}
NumbersFit ==
    /\ \A n \in Taken : \E i \in DOMAIN entries : entries[i].origin = "settings" /\ entries[i].number = n
    /\ \A i \in DOMAIN entries : entries[i].origin # "settings" => entries[i].number \notin Taken
    /\ \A l \in file : l.number \notin Taken
    /\ \A c \in Caller : doing[c].step = "writing" => \A l \in doing[c].text : l.number \notin Taken
    /\ \A c \in Caller : Creating(c) =>
          /\ c \in Tray /\ doing[c].number \notin Taken
          /\ program = "hp-router" =>
                /\ \A i \in DOMAIN entries : entries[i].number # doing[c].number
                /\ \A d \in Caller : Creating(d) => c = d

(* The copy that is written is the list, unless somebody will save again.  *)
Writing(c) == doing[c].step = "writing"
FileFits ==
    /\ IsFiniteSet(file) /\ \A c \in Caller : Writing(c) => IsFiniteSet(doing[c].text)
    /\ ~overlapped =>
          /\ \A c, d \in Caller : Writing(c) /\ Writing(d) => c = d
          /\ (\A c \in Caller : doing[c].step # "saving") =>
                /\ \A c \in Caller : Writing(c) => doing[c].text = Lines(entries)
                /\ (\A c \in Caller : ~Writing(c)) => file = Lines(entries)

(* The entries with the one being added.                                   *)
Adding == doing["changes"].step = "adding"
InWork == [Entry(doing["changes"].peer, 0, "file") EXCEPT !.token = doing["changes"].token]
Served == IF Adding THEN Append(entries, InWork) ELSE entries

Goes(list, x, y) == \E a, b \in DOMAIN list : a < b /\ list[a].peer = x /\ list[b].peer = y
(* x was served before y at the moment before the change i.                *)
Elder(list, V, x, y, i) ==
    \E j \in 0 .. i - 1 :
        /\ \A k \in j .. i - 1 : x \in V[k] /\ y \in V[k]
        /\ j = 0 => Goes(list, x, y)
        /\ j > 0 => changes[j].op = "add" /\ changes[j].peer = y /\ x \in V[j - 1]
StepOf(list, V, i) ==
    LET x == changes[i].peer IN
    \/ changes[i].op = "add" /\ x \notin V[i - 1] /\ V[i] = V[i - 1] \cup {x}
    \/ /\ changes[i].op = "remove" /\ x \in V[i - 1] /\ V[i] = V[i - 1] \ {x}
       /\ \A y \in V[i - 1] : y # x /\ NameOf[y] = NameOf[x] => Elder(list, V, x, y, i)
LeadsToKnown(list, V) ==
    /\ V[0] = Peers(list) /\ V[Len(changes)] = known
    /\ \A i \in 1 .. Len(changes) : StepOf(list, V, i)
(* The changes under way lead from the clients served to those the watcher  *)
(* knows; of two with one name the elder is removed first.                 *)
ChangesFit ==
    ~Pairs =>
        /\ \A a, b \in clients : NameOf[a] = NameOf[b] => a = b
        /\ \A a, b \in known : NameOf[a] = NameOf[b] => a = b
        /\ ~dismissed =>
              /\ \A i, j \in DOMAIN Served : Served[i].peer = Served[j].peer => i = j
              /\ \E V \in [0 .. Len(changes) -> SUBSET Client] : LeadsToKnown(Served, V)

(* The registration of the last entry with a name.                         *)
Names == {NameOf[c] : c \in Client} \cup {"any"}
Regs == [name : Names, token : Nat]
Commands == [op : {"register", "unregister", "inject"}, name : Names, token : Nat]
ListenerTyped ==
    /\ \E D \in SUBSET Names : IsFiniteSet(D) /\ listener \in [D -> Nat]
    /\ commands \in Seq(Commands) /\ Len(commands) <= COMMAND_QUEUE
    /\ guarded \in SUBSET Regs /\ leaving \in SUBSET Regs /\ IsFiniteSet(guarded) /\ IsFiniteSet(leaving)
Asks(k, r) == commands[k] = Command("register", r)
Rival(k, r) == commands[k].op = "register" /\ commands[k].name = r.name
LatestFits(r) ==
    /\ r \in guarded /\ r \notin leaving
    /\ \A k \in DOMAIN commands : commands[k] # Command("unregister", r)
    /\ \/ /\ r \notin Entered
          /\ \E k \in DOMAIN commands :
                /\ Asks(k, r)
                /\ \A m \in DOMAIN commands : Rival(m, r) => m = k \/ (m < k /\ ~Asks(m, r))
       \/ r \in Entered /\ \A k \in DOMAIN commands : ~Rival(k, r)
RegOf(e) == Registration(Name(e.peer), e.token)
NewestOf(list, i) == \A j \in DOMAIN list : i < j => Name(list[j].peer) # Name(list[i].peer)
TokensFit ==
    ~Pairs =>
        /\ \A i, j \in DOMAIN Served : Served[i].token = Served[j].token => i = j
        /\ \A i \in DOMAIN Served : NewestOf(Served, i) => LatestFits(RegOf(Served[i]))

(* What keeps the phones: of the service and of the router.                *)
PhonesIInv ==
    PairingTyped /\ KindsFit /\ PendingFit /\ NumbersFit /\ FileFits /\ PackagesAreServed

LEMMA SetInduction ==
    ASSUME NEW T \in SUBSET Nat, 0 \in T, \A n \in T : n + 1 \in T
    PROVE  T = Nat
<1> SUFFICES ASSUME Nat \ T # {}
             PROVE  FALSE
  OBVIOUS
<1> DEFINE Less == OpToRel(<, Nat)
<1>1. IsWellFoundedOn(Less, Nat)
  BY NatLessThanWellFounded
<1>2. PICK m \in Nat \ T : \A n \in Nat \ T : <<n, m>> \notin Less
  <2> HIDE DEF Less
  <2> QED
    BY <1>1, WFMin, Nat \ T \subseteq Nat, Zenon
<1>0. m \in Nat /\ m # 0
  BY <1>2
<1>3. m - 1 \in Nat /\ m - 1 < m
  BY <1>0
<1>4. m - 1 \in Nat \ T
  <2>1. ASSUME m - 1 \in T
        PROVE  m \in T
    <3>1. m - 1 + 1 \in T
      BY <2>1
    <3>2. m - 1 + 1 = m
      BY <1>0
    <3> QED
      BY <3>1, <3>2
  <2> QED
    BY <1>2, <1>3, <2>1
<1>5. <<m - 1, m>> \in Less
  BY <1>2, <1>3 DEF OpToRel
<1> QED
  BY <1>2, <1>4, <1>5

(* A set of places has a first one.                                        *)
LEMMA FirstIs ==
    ASSUME NEW s \in SUBSET Nat, s # {}
    PROVE  Min(s) \in s /\ \A v \in s : Min(s) <= v
<1> DEFINE Less == OpToRel(<, Nat)
<1>1. IsWellFoundedOn(Less, Nat)
  BY NatLessThanWellFounded
<1>2. PICK u \in s : \A v \in s : <<v, u>> \notin Less
  <2> HIDE DEF Less
  <2> QED
    BY <1>1, WFMin, Zenon
<1>3. \A v \in s : ~(v < u)
  BY <1>2 DEF OpToRel
<1>4. \E x \in s : \A v \in s : x <= v
  BY <1>3
<1> QED
  BY <1>4 DEF Min

(* The new list is made of elements of the old one that stand at these      *)
(* places, in their order; at tells from where each comes.                 *)
Embeds(new, old, places, at) ==
    /\ at \in [DOMAIN new -> DOMAIN old]
    /\ \A i, j \in DOMAIN new : i < j => at[i] < at[j]
    /\ \A i \in DOMAIN new : new[i] = old[at[i]] /\ at[i] \in places
    /\ \A k \in DOMAIN old : k \in places => \E i \in DOMAIN new : at[i] = k

(* What Filtered has computed at each place up to n.                       *)
FiltersTo(f, list, places, n) ==
    /\ f[0] = <<>>
    /\ \A i \in 1 .. n : f[i] = IF i \in places THEN Append(f[i - 1], list[i]) ELSE f[i - 1]

LEMMA FilterExists ==
    ASSUME NEW S, NEW list \in Seq(S), NEW places, NEW n \in Nat, n <= Len(list)
    PROVE  \E f \in [0 .. n -> Seq(S)] : FiltersTo(f, list, places, n)
<1> DEFINE Has(m) == \E f \in [0 .. m -> Seq(S)] : FiltersTo(f, list, places, m)
           T == {m \in Nat : m <= Len(list) => Has(m)}
<1>1. 0 \in T
  <2>1. [i \in 0 .. 0 |-> <<>>] \in [0 .. 0 -> Seq(S)]
    OBVIOUS
  <2>2. FiltersTo([i \in 0 .. 0 |-> <<>>], list, places, 0)
    BY DEF FiltersTo
  <2> QED
    BY <2>1, <2>2
<1>2. ASSUME NEW m \in T
      PROVE  m + 1 \in T
  <2>0. m \in Nat /\ m + 1 \in Nat
    OBVIOUS
  <2> SUFFICES ASSUME m + 1 <= Len(list)
               PROVE  Has(m + 1)
    BY <2>0
  <2>1. PICK f \in [0 .. m -> Seq(S)] : FiltersTo(f, list, places, m)
    BY <2>0
  <2> DEFINE next == IF m + 1 \in places THEN Append(f[m], list[m + 1]) ELSE f[m]
             g == [i \in 0 .. m + 1 |-> IF i = m + 1 THEN next ELSE f[i]]
  <2>2. f[m] \in Seq(S) /\ list[m + 1] \in S
    BY <2>0, <2>1
  <2>3. next \in Seq(S)
    BY <2>2
  <2> HIDE DEF next
  <2>4. g \in [0 .. m + 1 -> Seq(S)]
    BY <2>0, <2>1, <2>3
  <2>5. g[0] = <<>> /\ g[m + 1] = next /\ \A i \in 0 .. m : g[i] = f[i]
    <3>1. f[0] = <<>>
      BY <2>1 DEF FiltersTo
    <3>2. 0 \in 0 .. m + 1 /\ 0 # m + 1 /\ m + 1 \in 0 .. m + 1
      BY <2>0
    <3>3. g[m + 1] = next
      BY <3>2
    <3>4. ASSUME NEW i \in 0 .. m
          PROVE  g[i] = f[i]
      <4>1. i \in 0 .. m + 1 /\ i # m + 1
        BY <2>0
      <4> QED
        BY <4>1
    <3>5. g[0] = <<>>
      BY <3>1, <3>2
    <3> QED
      BY <3>3, <3>4, <3>5
  <2> HIDE DEF g
  <2>6. FiltersTo(g, list, places, m + 1)
    <3>1. ASSUME NEW i \in 1 .. m + 1
          PROVE  g[i] = IF i \in places THEN Append(g[i - 1], list[i]) ELSE g[i - 1]
      <4>1. CASE i = m + 1
        <5>1. i - 1 = m /\ m \in 0 .. m
          BY <2>0, <4>1
        <5>2. g[i - 1] = f[m] /\ g[i] = next
          BY <2>5, <4>1, <5>1
        <5> QED
          BY <4>1, <5>2 DEF next
      <4>2. CASE i # m + 1
        <5>1. i \in 1 .. m /\ i - 1 \in 0 .. m /\ i \in 0 .. m
          BY <2>0, <4>2
        <5> QED
          BY <2>1, <2>5, <5>1 DEF FiltersTo
      <4> QED
        BY <4>1, <4>2
    <3> QED
      BY <2>5, <3>1 DEF FiltersTo
  <2> QED
    BY <2>4, <2>6
<1>3. T = Nat
  <2>1. T \in SUBSET Nat
    OBVIOUS
  <2> HIDE DEF T
  <2> QED
    BY <1>1, <1>2, <2>1, SetInduction
<1> QED
  BY <1>3

(* Filtered keeps what stands at the places, in order.                     *)
LEMMA FilteredIs ==
    ASSUME NEW S, NEW list \in Seq(S), NEW places
    PROVE  /\ Filtered(list, places) \in Seq(S)
           /\ \E at : Embeds(Filtered(list, places), list, places, at)
           /\ DOMAIN list \subseteq places => Filtered(list, places) = list
<1> DEFINE n == Len(list)
           Filters(f) == f = [i \in 0 .. Len(list) |->
                                IF i = 0 THEN <<>>
                                ELSE IF i \in places THEN Append(f[i - 1], list[i]) ELSE f[i - 1]]
<1>0. n \in Nat /\ DOMAIN list = 1 .. n /\ n = Len(list)
  OBVIOUS
<1> HIDE DEF n
<1>1. PICK f : f = CHOOSE g : Filters(g)
  OBVIOUS
<1>2. Filtered(list, places) = f[n]
  BY <1>0, <1>1 DEF Filtered
<1>3. Filters(f)
  <2>1. PICK g \in [0 .. n -> Seq(S)] : FiltersTo(g, list, places, n)
    <3>1. n <= Len(list)
      BY <1>0
    <3> QED
      BY <1>0, <3>1, FilterExists
  <2>2. Filters(g)
    <3>1. \A i \in 0 .. n : g[i] = IF i = 0 THEN <<>>
                ELSE IF i \in places THEN Append(g[i - 1], list[i]) ELSE g[i - 1]
      <4> TAKE i \in 0 .. n
      <4>1. CASE i = 0
        BY <2>1, <4>1 DEF FiltersTo
      <4>2. CASE i # 0
        <5>1. i \in 1 .. n
          BY <1>0, <4>2
        <5> QED
          BY <2>1, <4>2, <5>1 DEF FiltersTo
      <4> QED
        BY <4>1, <4>2
    <3> QED
      BY <1>0, <2>1, <3>1
  <2> HIDE DEF Filters
  <2> QED
    BY <1>1, <2>2
<1>4. f[0] = <<>> /\ \A i \in 1 .. n : f[i] = IF i \in places THEN Append(f[i - 1], list[i]) ELSE f[i - 1]
  <2>1. \A i \in 0 .. n : f[i] = IF i = 0 THEN <<>>
                ELSE IF i \in places THEN Append(f[i - 1], list[i]) ELSE f[i - 1]
    BY <1>0, <1>3
  <2> HIDE DEF Filters
  <2>2. 0 \in 0 .. n /\ \A i \in 1 .. n : i \in 0 .. n /\ i # 0
    BY <1>0
  <2> QED
    BY <2>1, <2>2
<1> HIDE DEF Filters
<1> DEFINE Upto(m) == SubSeq(list, 1, m)
           Right(m) == /\ f[m] \in Seq(S) /\ \E at : Embeds(f[m], Upto(m), places, at)
                       /\ 1 .. m \subseteq places => f[m] = Upto(m)
           T == {m \in Nat : m <= n => Right(m)}
<1>5. 0 \in T
  <2>1. Upto(0) = <<>> /\ f[0] \in Seq(S)
    BY <1>4
  <2>2. Embeds(<<>>, <<>>, places, <<>>)
    BY DEF Embeds
  <2> QED
    BY <1>4, <2>1, <2>2
<1>6. ASSUME NEW m \in T
      PROVE  m + 1 \in T
  <2>0. m \in Nat /\ m + 1 \in Nat
    OBVIOUS
  <2> SUFFICES ASSUME m + 1 <= n
               PROVE  Right(m + 1)
    BY <2>0
  <2>1. f[m] \in Seq(S) /\ (1 .. m \subseteq places => f[m] = Upto(m))
    BY <1>0, <2>0
  <2>2. PICK at : Embeds(f[m], Upto(m), places, at)
    BY <1>0, <2>0
  <2>3. /\ list[m + 1] \in S /\ m + 1 \in 1 .. n
        /\ DOMAIN Upto(m) = 1 .. m /\ \A i \in 1 .. m : Upto(m)[i] = list[i]
        /\ DOMAIN Upto(m + 1) = 1 .. m + 1 /\ \A i \in 1 .. m + 1 : Upto(m + 1)[i] = list[i]
    BY <1>0, <2>0
  <2>4. Upto(m + 1) = Append(Upto(m), list[m + 1])
    BY <1>0, <2>0, <2>3
  <2> HIDE DEF Upto
  <2>5. CASE m + 1 \in places
    <3>1. f[m + 1] = Append(f[m], list[m + 1])
      <4>1. (m + 1) - 1 = m
        BY <2>0
      <4> QED
        BY <1>4, <2>3, <2>5, <4>1
    <3> DEFINE l == Len(f[m])
               up == [i \in 1 .. l + 1 |-> IF i = l + 1 THEN m + 1 ELSE at[i]]
    <3>2. /\ l \in Nat /\ DOMAIN f[m] = 1 .. l /\ DOMAIN f[m + 1] = 1 .. l + 1
          /\ f[m + 1] \in Seq(S) /\ f[m + 1][l + 1] = list[m + 1]
          /\ \A i \in 1 .. l : f[m + 1][i] = f[m][i]
      BY <2>1, <2>3, <3>1
    <3>0. at \in [1 .. l -> 1 .. m]
      BY <2>2, <2>3, <3>2 DEF Embeds
    <3> HIDE DEF l
    <3>3. up[l + 1] = m + 1 /\ \A i \in 1 .. l : up[i] = at[i] /\ at[i] \in 1 .. m
      <4>1. up[l + 1] = m + 1
        BY <3>2
      <4>2. \A i \in 1 .. l : i \in 1 .. l + 1 /\ i # l + 1
        BY <3>2
      <4> QED
        BY <3>0, <4>1, <4>2
    <3>4. up \in [1 .. l + 1 -> 1 .. m + 1]
      <4>1. \A i \in 1 .. l + 1 : i = l + 1 \/ i \in 1 .. l
        BY <3>2
      <4>2. \A i \in 1 .. l + 1 : up[i] \in 1 .. m + 1
        <5> HIDE DEF up
        <5> QED
          BY <2>0, <3>3, <4>1
      <4> QED
        BY <4>2
    <3> HIDE DEF up
    <3>5. \A i, j \in 1 .. l + 1 : i < j => up[i] < up[j]
      <4> SUFFICES ASSUME NEW i \in 1 .. l + 1, NEW j \in 1 .. l + 1, i < j
                   PROVE  up[i] < up[j]
        OBVIOUS
      <4>1. i \in 1 .. l /\ up[i] = at[i] /\ at[i] \in 1 .. m
        BY <3>2, <3>3
      <4>2. CASE j = l + 1
        BY <2>0, <3>3, <4>1, <4>2
      <4>3. CASE j # l + 1
        <5>1. j \in 1 .. l /\ up[j] = at[j]
          BY <3>2, <3>3, <4>3
        <5> QED
          BY <2>2, <3>2, <4>1, <5>1 DEF Embeds
      <4> QED
        BY <4>2, <4>3
    <3>6. \A i \in 1 .. l + 1 : f[m + 1][i] = Upto(m + 1)[up[i]] /\ up[i] \in places
      <4> SUFFICES ASSUME NEW i \in 1 .. l + 1
                   PROVE  f[m + 1][i] = Upto(m + 1)[up[i]] /\ up[i] \in places
        OBVIOUS
      <4>1. CASE i = l + 1
        BY <2>3, <2>5, <3>2, <3>3, <4>1
      <4>2. CASE i # l + 1
        <5>1. i \in 1 .. l
          BY <3>2, <4>2
        <5>2. f[m][i] = Upto(m)[at[i]] /\ at[i] \in places
          BY <2>2, <3>2, <5>1 DEF Embeds
        <5> QED
          BY <2>0, <2>3, <3>2, <3>3, <5>1, <5>2
      <4> QED
        BY <4>1, <4>2
    <3>7. \A k \in 1 .. m + 1 : k \in places => \E i \in 1 .. l + 1 : up[i] = k
      <4> SUFFICES ASSUME NEW k \in 1 .. m + 1, k \in places
                   PROVE  \E i \in 1 .. l + 1 : up[i] = k
        OBVIOUS
      <4>1. CASE k = m + 1
        BY <3>2, <3>3, <4>1
      <4>2. CASE k # m + 1
        <5>1. k \in 1 .. m
          BY <2>0, <4>2
        <5>2. PICK i \in 1 .. l : at[i] = k
          BY <2>2, <2>3, <3>2, <5>1 DEF Embeds
        <5>3. i \in 1 .. l + 1 /\ up[i] = k
          BY <3>2, <3>3, <5>2
        <5> QED
          BY <5>3
      <4> QED
        BY <4>1, <4>2
    <3>8. Embeds(f[m + 1], Upto(m + 1), places, up)
      BY <2>3, <3>2, <3>4, <3>5, <3>6, <3>7 DEF Embeds
    <3>9. 1 .. m + 1 \subseteq places => f[m + 1] = Upto(m + 1)
      BY <2>0, <2>1, <2>4, <3>1
    <3> QED
      BY <3>2, <3>8, <3>9
  <2>6. CASE m + 1 \notin places
    <3>1. f[m + 1] = f[m]
      BY <1>4, <2>3, <2>6, <2>0
    <3>2. Embeds(f[m], Upto(m + 1), places, at)
      <4>1. at \in [DOMAIN f[m] -> 1 .. m + 1]
        BY <2>0, <2>2, <2>3 DEF Embeds
      <4>2. \A i \in DOMAIN f[m] : at[i] \in 1 .. m /\ f[m][i] = Upto(m + 1)[at[i]]
        <5> TAKE i \in DOMAIN f[m]
        <5>1. at[i] \in 1 .. m /\ f[m][i] = Upto(m)[at[i]]
          BY <2>2, <2>3 DEF Embeds
        <5>2. at[i] \in 1 .. m + 1
          BY <2>0, <5>1
        <5> QED
          BY <2>3, <5>1, <5>2
      <4>3. \A k \in 1 .. m + 1 : k \in places => k \in 1 .. m
        BY <2>0, <2>6
      <4> QED
        BY <2>2, <2>3, <4>1, <4>2, <4>3 DEF Embeds
    <3>3. ~(1 .. m + 1 \subseteq places)
      BY <2>0, <2>6
    <3> QED
      BY <2>1, <3>1, <3>2, <3>3
  <2> QED
    BY <2>5, <2>6
<1>7. T = Nat
  <2>1. T \in SUBSET Nat
    OBVIOUS
  <2> HIDE DEF T
  <2> QED
    BY <1>5, <1>6, <2>1, SetInduction
<1>8. Right(n)
  <2>1. n \in T
    BY <1>0, <1>7
  <2> HIDE DEF Right
  <2> QED
    BY <1>0, <2>1
<1>9. Upto(n) = list
  BY <1>0
<1> QED
  BY <1>0, <1>2, <1>8, <1>9

(* RemoveAt takes one place out.                                           *)
LEMMA RemovedIs ==
    ASSUME NEW S, NEW list \in Seq(S), NEW k \in DOMAIN list
    PROVE  /\ RemoveAt(list, k) \in Seq(S) /\ Len(RemoveAt(list, k)) = Len(list) - 1
           /\ Embeds(RemoveAt(list, k), list, DOMAIN list \ {k},
                     [i \in 1 .. Len(list) - 1 |-> IF i < k THEN i ELSE i + 1])
<1> DEFINE n == Len(list)
           a == SubSeq(list, 1, k - 1)
           b == SubSeq(list, k + 1, n)
           at == [i \in 1 .. n - 1 |-> IF i < k THEN i ELSE i + 1]
<1>0. n \in Nat /\ DOMAIN list = 1 .. n /\ k \in 1 .. n
  OBVIOUS
<1>1. a \in Seq(S) /\ Len(a) = k - 1 /\ \A i \in 1 .. k - 1 : a[i] = list[i]
  BY <1>0
<1>2. b \in Seq(S) /\ Len(b) = n - k /\ \A i \in 1 .. n - k : b[i] = list[i + k]
  BY <1>0
<1> HIDE DEF a, b
<1>3. /\ a \o b \in Seq(S) /\ Len(a \o b) = n - 1
      /\ \A i \in 1 .. n - 1 : (a \o b)[i] = IF i < k THEN list[i] ELSE list[i + 1]
  <2>0. /\ a \o b \in Seq(S) /\ Len(a \o b) = Len(a) + Len(b)
        /\ \A i \in 1 .. Len(a) + Len(b) :
              (a \o b)[i] = IF i <= Len(a) THEN a[i] ELSE b[i - Len(a)]
    <3>1. a \in Seq(S) /\ b \in Seq(S)
      BY <1>1, <1>2
    <3> QED
      BY <3>1, ConcatProperties
  <2>a. Len(a) = k - 1 /\ Len(a) + Len(b) = n - 1
    BY <1>0, <1>1, <1>2
  <2>1. a \o b \in Seq(S) /\ Len(a \o b) = n - 1
    BY <2>0, <2>a, Zenon
  <2>2. ASSUME NEW i \in 1 .. n - 1
        PROVE  (a \o b)[i] = IF i <= k - 1 THEN a[i] ELSE b[i - (k - 1)]
    BY <2>0, <2>a, Zenon
  <2>3. \A i \in 1 .. n - 1 : i >= k => i - (k - 1) \in 1 .. n - k
    BY <1>0
  <2>4. ASSUME NEW i \in 1 .. n - 1, i >= k
        PROVE  b[i - (k - 1)] = list[i + 1]
    <3>1. b[i - (k - 1)] = list[i - (k - 1) + k]
      BY <1>2, <2>3, <2>4, Zenon
    <3>2. i - (k - 1) + k = i + 1
      BY <1>0
    <3> QED
      BY <3>1, <3>2
  <2> QED
    BY <1>0, <1>1, <2>1, <2>2, <2>4
<1>4. RemoveAt(list, k) = a \o b
  BY DEF RemoveAt, a, b
<1>5. DOMAIN (a \o b) = 1 .. n - 1
  <2>1. DOMAIN (a \o b) = 1 .. Len(a \o b)
    BY <1>3
  <2> QED
    BY <1>3, <2>1
<1>6. at \in [1 .. n - 1 -> 1 .. n] /\ \A i \in 1 .. n - 1 : at[i] # k
  BY <1>0
<1>7. \A j \in 1 .. n : j # k => \E i \in 1 .. n - 1 : at[i] = j
  <2> SUFFICES ASSUME NEW j \in 1 .. n, j # k
               PROVE  \E i \in 1 .. n - 1 : at[i] = j
    OBVIOUS
  <2>1. CASE j < k
    <3>1. j \in 1 .. n - 1 /\ at[j] = j
      BY <1>0, <2>1
    <3> QED
      BY <3>1
  <2>2. CASE j > k
    <3>1. j - 1 \in 1 .. n - 1 /\ at[j - 1] = j
      BY <1>0, <2>2
    <3> QED
      BY <3>1
  <2> QED
    BY <1>0, <2>1, <2>2
<1>8. \A i, j \in 1 .. n - 1 : i < j => at[i] < at[j]
  BY <1>0
<1>9. \A i \in 1 .. n - 1 : (a \o b)[i] = list[at[i]]
  BY <1>0, <1>3
<1> HIDE DEF at
<1>10. Embeds(a \o b, list, DOMAIN list \ {k}, at)
  BY <1>0, <1>5, <1>6, <1>7, <1>8, <1>9 DEF Embeds
<1> QED
  BY <1>3, <1>4, <1>10 DEF at

LEMMA NamedIs ==
    ASSUME PairingTyped, NEW name
    PROVE  /\ Named(name) # 0 =>
                 /\ Named(name) \in DOMAIN entries /\ Name(entries[Named(name)].peer) = name
                 /\ \A j \in DOMAIN entries : Name(entries[j].peer) = name => Named(name) <= j
           /\ Named(name) = 0 => \A j \in DOMAIN entries : Name(entries[j].peer) # name
<1> DEFINE I == {i \in 1 .. Len(entries) : Name(entries[i].peer) = name}
<1>1. Named(name) = IF I # {} THEN Min(I) ELSE 0
  BY DEF Named, SelectInSeq
<1>2. I \in SUBSET Nat /\ DOMAIN entries = 1 .. Len(entries)
  BY DEF PairingTyped
<1>3. I # {} => Min(I) \in I /\ \A v \in I : Min(I) <= v
  BY <1>2, FirstIs
<1>4. \A i \in DOMAIN entries : Name(entries[i].peer) = name <=> i \in I
  BY <1>2
<1>5. \A i \in I : i \in DOMAIN entries /\ i # 0 /\ Name(entries[i].peer) = name
  BY <1>2
<1> HIDE DEF I
<1> QED
  BY <1>1, <1>3, <1>4, <1>5

LEMMA PendingIs ==
    ASSUME PairingTyped, Pending(entries) # 0
    PROVE  Pending(entries) \in DOMAIN entries /\ entries[Pending(entries)].origin = "pending"
<1> DEFINE I == {i \in 1 .. Len(entries) : entries[i].origin = "pending"}
<1>1. Pending(entries) = IF I # {} THEN Min(I) ELSE 0
  BY DEF Pending, SelectInSeq
<1>2. I \in SUBSET Nat /\ DOMAIN entries = 1 .. Len(entries)
  BY DEF PairingTyped
<1>3. I # {} => Min(I) \in I
  BY <1>2, FirstIs
<1>4. \A i \in I : i \in DOMAIN entries /\ entries[i].origin = "pending"
  BY <1>2
<1> HIDE DEF I
<1> QED
  BY <1>1, <1>3, <1>4

(* Only a number that is taken is replaced.                                *)
LEMMA InsertedIs ==
    ASSUME PairingTyped, NEW e,
           program = "hp-router" => \A i \in DOMAIN entries : entries[i].number # e.number
    PROVE  Inserted(entries, e) = Append(entries, e)
<1>1. CASE program = "hp-router"
  <2> DEFINE places == {i \in DOMAIN entries : entries[i].number # e.number}
  <2>1. DOMAIN entries \subseteq places
    BY <1>1
  <2>2. entries \in Seq(Entries)
    BY DEF PairingTyped
  <2> HIDE DEF places
  <2>3. Filtered(entries, places) = entries
    BY <2>1, <2>2, FilteredIs
  <2> QED
    BY <1>1, <2>3 DEF Inserted, places
<1>2. CASE program # "hp-router"
  BY <1>2 DEF Inserted
<1> QED
  BY <1>1, <1>2

(* Where an entry of the list comes from, and what may differ.             *)
Comes(new, at) ==
    /\ at \in [DOMAIN new -> DOMAIN entries]
    /\ \A i, j \in DOMAIN new : at[i] = at[j] => i = j
    /\ \A i \in DOMAIN new :
          /\ new[i].peer = entries[at[i]].peer /\ new[i].number = entries[at[i]].number
          /\ new[i].origin = "settings" <=> entries[at[i]].origin = "settings"
          /\ new[i].origin = "file" <=> entries[at[i]].origin = "file"
          /\ new[i].origin = "pending" => entries[at[i]].origin = "pending"
    /\ \A k \in DOMAIN entries : entries[k].origin = "settings" => \E i \in DOMAIN new : at[i] = k

(* Housekeeping takes out who is expired, and keeps who is connected.       *)
LEMMA KeptIs ==
    ASSUME PairingTyped
    PROVE  /\ Kept \in Seq(Entries)
           /\ \E at : /\ Comes(Kept, at)
                      /\ \A i \in DOMAIN Kept :
                            Kept[i] = IF Connected(at[i]) THEN [entries[at[i]] EXCEPT !.origin = "paired"]
                                      ELSE entries[at[i]]
                      /\ \A k \in DOMAIN entries : Expired(k) \/ \E i \in DOMAIN Kept : at[i] = k
           /\ (\A i \in DOMAIN entries : entries[i].origin # "pending") => Kept = entries
<1> DEFINE kept == [i \in DOMAIN entries |->
                      IF Connected(i) THEN [entries[i] EXCEPT !.origin = "paired"] ELSE entries[i]]
           places == {i \in DOMAIN kept : ~(kept[i].origin = "pending" /\ kept[i].due)}
<1>0. DOMAIN entries = 1 .. Len(entries) /\ Len(entries) \in Nat /\ DOMAIN kept = DOMAIN entries
  BY DEF PairingTyped
<1>1. \A i \in DOMAIN entries :
         /\ kept[i] = IF Connected(i) THEN [entries[i] EXCEPT !.origin = "paired"] ELSE entries[i]
         /\ entries[i] \in Entries
  BY DEF PairingTyped
<1>2. Kept = Filtered(kept, places)
  BY DEF Kept
<1> HIDE DEF kept
<1>3. \A i \in DOMAIN entries :
         /\ kept[i] \in Entries /\ kept[i].peer = entries[i].peer /\ kept[i].number = entries[i].number
         /\ kept[i].due = entries[i].due /\ kept[i].live = entries[i].live
         /\ kept[i].origin = IF Connected(i) THEN "paired" ELSE entries[i].origin
  BY <1>1 DEF Entries
<1>4. kept \in Seq(Entries)
  <2>1. kept \in [1 .. Len(entries) -> Entries]
    BY <1>0, <1>3 DEF kept
  <2> QED
    BY <1>0, <2>1
<1>5. \A i \in DOMAIN entries : i \notin places <=> Expired(i)
  <2> TAKE i \in DOMAIN entries
  <2>1. entries[i].live \in BOOLEAN /\ entries[i].due \in BOOLEAN
    BY <1>1 DEF Entries
  <2>2. i \in places <=> ~(kept[i].origin = "pending" /\ kept[i].due)
    BY <1>0
  <2> QED
    BY <1>3, <2>1, <2>2 DEF Expired, Connected
<1> HIDE DEF places
<1>6. PICK at : Embeds(Filtered(kept, places), kept, places, at)
  BY <1>4, FilteredIs
<1>7. Kept \in Seq(Entries)
  BY <1>2, <1>4, FilteredIs
<1>8. /\ at \in [DOMAIN Kept -> DOMAIN entries]
      /\ \A i, j \in DOMAIN Kept : i < j => at[i] < at[j]
      /\ \A i \in DOMAIN Kept : Kept[i] = kept[at[i]] /\ at[i] \in places
      /\ \A k \in DOMAIN entries : k \in places => \E i \in DOMAIN Kept : at[i] = k
  BY <1>0, <1>2, <1>6 DEF Embeds
<1>9. \A i, j \in DOMAIN Kept : at[i] = at[j] => i = j
  <2> SUFFICES ASSUME NEW i \in DOMAIN Kept, NEW j \in DOMAIN Kept, at[i] = at[j], i # j
               PROVE  FALSE
    OBVIOUS
  <2>1. i \in Nat /\ j \in Nat /\ at[i] \in Nat
    BY <1>0, <1>7, <1>8
  <2>2. i < j \/ j < i
    BY <2>1
  <2> QED
    BY <1>8, <2>1, <2>2
<1>10. \A k \in DOMAIN entries : Expired(k) \/ \E i \in DOMAIN Kept : at[i] = k
  BY <1>5, <1>8
<1>11. Comes(Kept, at)
  <2>1. \A k \in DOMAIN entries : entries[k].origin = "settings" => ~Expired(k)
    BY DEF Expired
  <2>2. \A i \in DOMAIN Kept :
          /\ Kept[i].peer = entries[at[i]].peer /\ Kept[i].number = entries[at[i]].number
          /\ Kept[i].origin = "settings" <=> entries[at[i]].origin = "settings"
          /\ Kept[i].origin = "file" <=> entries[at[i]].origin = "file"
          /\ Kept[i].origin = "pending" => entries[at[i]].origin = "pending"
    BY <1>3, <1>8 DEF Connected
  <2> QED
    BY <1>8, <1>9, <1>10, <2>1, <2>2 DEF Comes
<1>12. ASSUME \A i \in DOMAIN entries : entries[i].origin # "pending"
       PROVE  Kept = entries
  <2>1. DOMAIN kept \subseteq places
    BY <1>0, <1>5, <1>12 DEF Expired
  <2>2. Kept = kept
    BY <1>2, <1>4, <2>1, FilteredIs
  <2>3. \A i \in 1 .. Len(entries) : kept[i] = entries[i]
    BY <1>0, <1>1, <1>12 DEF Connected
  <2>4. entries \in [1 .. Len(entries) -> Entries]
    BY <1>0 DEF PairingTyped
  <2>5. kept = [i \in 1 .. Len(entries) |-> kept[i]]
    BY <1>0, <1>4
  <2> QED
    BY <2>2, <2>3, <2>4, <2>5
<1>13. \A i \in DOMAIN Kept :
          Kept[i] = IF Connected(at[i]) THEN [entries[at[i]] EXCEPT !.origin = "paired"]
                    ELSE entries[at[i]]
  BY <1>1, <1>8
<1> QED
  BY <1>7, <1>10, <1>11, <1>12, <1>13

(* A removed entry leaves the others as they are.                          *)
LEMMA TakenOutIs ==
    ASSUME PairingTyped, NEW k \in DOMAIN entries, entries[k].origin # "settings"
    PROVE  /\ RemoveAt(entries, k) \in Seq(Entries)
           /\ \E at : /\ Comes(RemoveAt(entries, k), at)
                      /\ \A i \in DOMAIN RemoveAt(entries, k) : RemoveAt(entries, k)[i] = entries[at[i]]
                      /\ \A i \in DOMAIN entries : i # k =>
                            \E j \in DOMAIN RemoveAt(entries, k) : at[j] = i
<1> DEFINE at == [i \in 1 .. Len(entries) - 1 |-> IF i < k THEN i ELSE i + 1]
           new == RemoveAt(entries, k)
<1>0. entries \in Seq(Entries) /\ DOMAIN entries = 1 .. Len(entries) /\ Len(entries) \in Nat
  BY DEF PairingTyped
<1>1. new \in Seq(Entries) /\ Embeds(new, entries, DOMAIN entries \ {k}, at)
  BY <1>0, RemovedIs
<1> HIDE DEF at, new
<1>2. /\ at \in [DOMAIN new -> DOMAIN entries]
      /\ \A i, j \in DOMAIN new : i < j => at[i] < at[j]
      /\ \A i \in DOMAIN new : new[i] = entries[at[i]]
      /\ \A i \in DOMAIN entries : i # k => \E j \in DOMAIN new : at[j] = i
  BY <1>1 DEF Embeds
<1>3. \A i, j \in DOMAIN new : at[i] = at[j] => i = j
  <2> SUFFICES ASSUME NEW i \in DOMAIN new, NEW j \in DOMAIN new, at[i] = at[j], i # j
               PROVE  FALSE
    OBVIOUS
  <2>1. i \in Nat /\ j \in Nat /\ at[i] \in Nat
    BY <1>0, <1>1, <1>2
  <2>2. i < j \/ j < i
    BY <2>1
  <2> QED
    BY <1>2, <2>1, <2>2
<1>4. Comes(new, at)
  BY <1>2, <1>3 DEF Comes
<1> QED
  BY <1>1, <1>2, <1>4 DEF new

(* A VPS server has no phones.                                             *)
LEMMA NoPhones ==
    PairingTyped /\ KindsFit /\ ~Pairs => PendingFit /\ NumbersFit /\ FileFits /\ PackagesAreServed
<1> SUFFICES ASSUME PairingTyped, KindsFit, ~Pairs
             PROVE  PendingFit /\ NumbersFit /\ FileFits /\ PackagesAreServed
  OBVIOUS
<1>1. /\ file = {} /\ promised = {} /\ program = "vps-server"
      /\ \A i \in DOMAIN entries : entries[i].origin = "file"
      /\ \A c \in Caller : ~Creating(c) /\ ~Writing(c)
  BY DEF KindsFit, Pairs, Creating, Writing
<1>2. Taken = {}
  <2>1. FromSettings = [n \in {} |-> Entry(-n, IF program = "hp-router" THEN n ELSE 0, "settings")]
    BY DEF FromSettings
  <2>2. DOMAIN FromSettings = {}
    BY <2>1
  <2> QED
    BY <2>2 DEF Taken, ToSet
<1>3. PendingFit
  BY <1>1 DEF PendingFit
<1>4. NumbersFit
  BY <1>1, <1>2 DEF NumbersFit, Writing
<1>5. Lines(entries) = {}
  BY <1>1 DEF Lines, ToSet
<1>6. FileFits
  BY <1>1, <1>5, FS_EmptySet DEF FileFits
<1>7. PackagesAreServed
  BY <1>1 DEF PackagesAreServed
<1> QED
  BY <1>3, <1>4, <1>6, <1>7

LEMMA NoPhonesNext ==
    (PairingTyped /\ KindsFit /\ ~Pairs => PendingFit /\ NumbersFit /\ FileFits /\ PackagesAreServed)'
BY NoPhones, PTL

(* What is written to the file are the paired phones.                      *)
LEMMA LinesAre ==
    ASSUME NEW list
    PROVE  \A l : l \in Lines(list) <=>
               \E i \in DOMAIN list : list[i].origin = "paired" /\ l = Line(list[i])
BY DEF Lines, ToSet

LEMMA LinesFit ==
    ASSUME PairingTyped, KindsFit
    PROVE  Lines(entries) \in SUBSET Texts /\ IsFiniteSet(Lines(entries))
<1> DEFINE P == {i \in DOMAIN entries : entries[i].origin = "paired"}
           f == [i \in P |-> Line(entries[i])]
<1>1. DOMAIN entries = 1 .. Len(entries) /\ Len(entries) \in Nat
      /\ \A i \in DOMAIN entries : entries[i] \in Entries
  BY DEF PairingTyped
<1>2. IsFiniteSet(P)
  <2>1. IsFiniteSet(1 .. Len(entries)) /\ P \in SUBSET (1 .. Len(entries))
    BY <1>1, FS_Interval
  <2> QED
    BY <2>1, FS_Subset
<1>3. f \in Surjection(P, Lines(entries))
  BY LinesAre DEF Surjection
<1>4. IsFiniteSet(Lines(entries))
  BY <1>2, <1>3, FS_Surjection
<1>5. \A l \in Lines(entries) : l \in Texts
  <2> SUFFICES ASSUME NEW i \in DOMAIN entries, entries[i].origin = "paired"
               PROVE  Line(entries[i]) \in Texts
    BY LinesAre
  <2>1. entries[i].peer \notin Client
    BY DEF KindsFit
  <2> QED
    BY <1>1, <2>1 DEF Line, Texts, Entries
<1> QED
  BY <1>4, <1>5

LEMMA LinesAreFree ==
    ASSUME NumbersFit, NEW l \in Lines(entries)
    PROVE  l.number \notin Taken
<1>1. PICK i \in DOMAIN entries : entries[i].origin = "paired" /\ l = Line(entries[i])
  BY LinesAre
<1> QED
  BY <1>1 DEF NumbersFit, Line

LEMMA SameLines ==
    ASSUME NEW list, NEW new,
           \A i \in DOMAIN new : new[i].origin = "paired" =>
               \E k \in DOMAIN list : list[k].origin = "paired" /\ Line(list[k]) = Line(new[i]),
           \A k \in DOMAIN list : list[k].origin = "paired" =>
               \E i \in DOMAIN new : new[i].origin = "paired" /\ Line(list[k]) = Line(new[i])
    PROVE  Lines(new) = Lines(list)
<1>1. \A l : l \in Lines(new) <=> \E i \in DOMAIN new : new[i].origin = "paired" /\ l = Line(new[i])
  BY LinesAre
<1>2. \A l : l \in Lines(list) <=> \E i \in DOMAIN list : list[i].origin = "paired" /\ l = Line(list[i])
  BY LinesAre
<1>3. \A l : l \in Lines(new) <=> l \in Lines(list)
  BY <1>1, <1>2
<1> QED
  BY <1>3

(* A step after which the callers are where they were, are done, or save.  *)
CallsGoOn ==
    \A c \in Caller : doing'[c] = doing[c] \/ doing'[c] \in {NoCall, [step |-> "saving"]}

(* Entries that are gone or changed leave the phones in order.             *)
LEMMA PhonesKept ==
    ASSUME PairingTyped, PendingFit, NumbersFit, NEW at, Comes(entries', at), CallsGoOn,
           UNCHANGED <<program, made, file>>,
           \A i \in DOMAIN entries' :
               entries'[i].origin = "pending" /\ entries'[i].due => entries'[i].peer \notin promised'
    PROVE  PendingFit' /\ NumbersFit'
<1>1. /\ \A c \in Caller : Creating(c)' => Creating(c) /\ doing'[c] = doing[c]
      /\ \A c \in Caller : doing'[c].step = "writing" => doing'[c] = doing[c]
  BY DEF CallsGoOn, Creating, NoCall
<1>2. /\ at \in [DOMAIN entries' -> DOMAIN entries]
      /\ \A i, j \in DOMAIN entries' : at[i] = at[j] => i = j
      /\ \A i \in DOMAIN entries' :
          /\ entries'[i].peer = entries[at[i]].peer /\ entries'[i].number = entries[at[i]].number
          /\ entries'[i].origin = "settings" <=> entries[at[i]].origin = "settings"
          /\ entries'[i].origin = "pending" => entries[at[i]].origin = "pending"
      /\ \A k \in DOMAIN entries : entries[k].origin = "settings" => \E i \in DOMAIN entries' : at[i] = k
  BY DEF Comes
<1>3. PendingFit'
  <2>1. ASSUME NEW i \in DOMAIN entries', entries'[i].origin = "pending"
        PROVE  /\ entries'[i].peer \in 1 .. made'
               /\ \A j \in DOMAIN entries' :
                     entries'[j].origin = "pending" /\ entries'[j].peer = entries'[i].peer => i = j
               /\ \A c \in Caller : Creating(c)' => doing'[c].peer # entries'[i].peer
    <3>1. at[i] \in DOMAIN entries /\ entries[at[i]].origin = "pending"
          /\ entries'[i].peer = entries[at[i]].peer
      BY <1>2, <2>1
    <3>2. entries'[i].peer \in 1 .. made'
      BY <3>1 DEF PendingFit
    <3>3. ASSUME NEW j \in DOMAIN entries', entries'[j].origin = "pending", entries'[j].peer = entries'[i].peer
          PROVE  i = j
      <4>1. at[j] \in DOMAIN entries /\ entries[at[j]].origin = "pending"
            /\ entries[at[j]].peer = entries[at[i]].peer
        BY <1>2, <3>1, <3>3
      <4>2. at[i] = at[j]
        BY <3>1, <4>1 DEF PendingFit
      <4> QED
        BY <1>2, <4>2
    <3>4. \A c \in Caller : Creating(c)' => doing'[c].peer # entries'[i].peer
      BY <1>1, <3>1 DEF PendingFit
    <3> QED
      BY <3>2, <3>3, <3>4
  <2>2. \A c \in Caller : Creating(c)' => doing'[c].peer \in 1 .. made'
    BY <1>1 DEF PendingFit
  <2>3. \A c, d \in Caller : Creating(c)' /\ Creating(d)' /\ doing'[c].peer = doing'[d].peer => c = d
    BY <1>1 DEF PendingFit
  <2> QED
    BY <2>1, <2>2, <2>3 DEF PendingFit
<1>4. NumbersFit'
  <2>0. Taken' = Taken
    BY DEF Taken, FromSettings, Pairs
  <2>1. \A n \in Taken : \E i \in DOMAIN entries' :
            entries'[i].origin = "settings" /\ entries'[i].number = n
    <3> TAKE n \in Taken
    <3>1. PICK k \in DOMAIN entries : entries[k].origin = "settings" /\ entries[k].number = n
      BY DEF NumbersFit
    <3>2. PICK i \in DOMAIN entries' : at[i] = k
      BY <1>2, <3>1
    <3> QED
      BY <1>2, <3>1, <3>2
  <2>2. \A i \in DOMAIN entries' : entries'[i].origin # "settings" => entries'[i].number \notin Taken
    BY <1>2 DEF NumbersFit
  <2>3. \A c \in Caller : doing'[c].step = "writing" => \A l \in doing'[c].text : l.number \notin Taken
    BY <1>1 DEF NumbersFit
  <2>4. \A c \in Caller : Creating(c)' =>
          /\ c \in Tray /\ doing'[c].number \notin Taken
          /\ program' = "hp-router" =>
                /\ \A i \in DOMAIN entries' : entries'[i].number # doing'[c].number
                /\ \A d \in Caller : Creating(d)' => c = d
    <3> TAKE c \in Caller
    <3> HAVE Creating(c)'
    <3>1. /\ c \in Tray /\ doing'[c].number \notin Taken
          /\ program = "hp-router" =>
                /\ \A i \in DOMAIN entries : entries[i].number # doing'[c].number
                /\ \A d \in Caller : Creating(d) => c = d
      BY <1>1 DEF NumbersFit
    <3> QED
      BY <1>1, <1>2, <3>1
  <2> QED
    BY <2>0, <2>1, <2>2, <2>3, <2>4 DEF NumbersFit
<1> QED
  BY <1>3, <1>4

(* The file stays right while the paired phones are the same, or somebody   *)
(* saves after the step.                                                    *)
LEMMA FileKept ==
    ASSUME FileFits, UNCHANGED <<file, overlapped>>,
           \A c \in Caller : Writing(c)' <=> Writing(c),
           \A c \in Caller : Writing(c) => doing'[c] = doing[c],
           \A c \in Caller : doing[c].step = "saving" => doing'[c].step = "saving",
           Lines(entries') = Lines(entries) \/ \E c \in Caller : doing'[c].step = "saving"
    PROVE  FileFits'
BY DEF FileFits

(* A step of the callers among themselves, or of the phones.               *)
LEMMA PhonesStep ==
    ASSUME PhonesIInv, entries' \in Seq(Entries), NEW at, Comes(entries', at),
           doing' \in [Caller -> Calls], CallsGoOn,
           \A c \in Caller : doing[c].step \in {"saving", "writing"} => doing'[c] = doing[c],
           UNCHANGED <<program, file, clients, known, changes, made, overlapped>>,
           dismissed' \in BOOLEAN, promised' \subseteq Peers(entries'), ~Pairs => promised' = {},
           \A i \in DOMAIN entries' :
               entries'[i].origin = "pending" /\ entries'[i].due => entries'[i].peer \notin promised',
           Lines(entries') = Lines(entries) \/ \E c \in Caller : doing'[c].step = "saving"
    PROVE  PhonesIInv'
<1>1. PairingTyped'
  BY DEF PhonesIInv, PairingTyped
<1>2. /\ \A c \in Caller : doing'[c].step = "adding" => doing[c].step = "adding"
      /\ \A c \in Caller : doing'[c].step = "writing" <=> doing[c].step = "writing"
      /\ \A c \in Caller : doing'[c].step = "creating" => doing[c].step = "creating"
  BY DEF CallsGoOn, NoCall
<1>3. KindsFit'
  <2>1. \A i \in DOMAIN entries' : entries'[i].origin = "file" <=> entries'[i].peer \in Client
    BY DEF PhonesIInv, KindsFit, Comes
  <2>2. /\ Pairs => \A i \in DOMAIN entries' : entries'[i].origin # "file"
        /\ ~Pairs => \A i \in DOMAIN entries' : entries'[i].origin = "file"
    BY DEF PhonesIInv, KindsFit, Comes
  <2>3. Pairs' = Pairs
    BY DEF Pairs
  <2> QED
    BY <1>2, <2>1, <2>2, <2>3 DEF PhonesIInv, KindsFit
<1>4. PendingFit' /\ NumbersFit'
  BY PhonesKept DEF PhonesIInv
<1>5. FileFits'
  <2>1. \A c \in Caller : Writing(c)' <=> Writing(c)
    BY <1>2 DEF Writing
  <2>2. \A c \in Caller : Writing(c) => doing'[c] = doing[c]
    BY DEF Writing
  <2>3. \A c \in Caller : doing[c].step = "saving" => doing'[c].step = "saving"
    OBVIOUS
  <2> QED
    BY <2>1, <2>2, <2>3, FileKept DEF PhonesIInv
<1>6. PackagesAreServed'
  BY DEF PackagesAreServed
<1> QED
  BY <1>1, <1>3, <1>4, <1>5, <1>6 DEF PhonesIInv

(* The callers' records are told apart by their steps.                     *)
LEMMA CallIs ==
    ASSUME PairingTyped, NEW c \in Caller
    PROVE  /\ NoCall \in Calls /\ [step |-> "saving"] \in Calls
           /\ NoCall.step = "idle"
           /\ doing[c] \in Calls
           /\ Creating(c) => doing[c].peer \in Int /\ doing[c].number \in Nat
           /\ doing[c].step = "adding" => doing[c].peer \in Client /\ doing[c].token \in Nat
           /\ Writing(c) => doing[c].text \in SUBSET Texts
<1>1. doing[c] \in Calls
  BY DEF PairingTyped
<1> QED
  BY <1>1 DEF Calls, NoCall, Creating, Writing

LEMMA ItselfComes ==
    ASSUME PairingTyped, NEW new, DOMAIN new = DOMAIN entries,
           \A i \in DOMAIN entries :
               /\ new[i].peer = entries[i].peer /\ new[i].number = entries[i].number
               /\ new[i].origin = entries[i].origin
    PROVE  Comes(new, [i \in DOMAIN entries |-> i]) /\ Peers(new) = Peers(entries)
           /\ Lines(new) = Lines(entries)
<1>1. Comes(new, [i \in DOMAIN entries |-> i])
  BY DEF Comes
<1>2. Peers(new) = Peers(entries)
  BY DEF Peers
<1>3. \A i \in DOMAIN entries : Line(new[i]) = Line(entries[i])
  BY DEF Line
<1>4. Lines(new) = Lines(entries)
  BY <1>3, SameLines
<1> QED
  BY <1>1, <1>2, <1>4

LEMMA StepPairAgain == ASSUME PhonesIInv, NEW c \in Tray, PairAgain(c) PROVE PhonesIInv'
<1> DEFINE k == Pending(entries)
<1>0. PairingTyped /\ KindsFit /\ PendingFit /\ PackagesAreServed
  BY DEF PhonesIInv
<1>1. k # 0 /\ k \in DOMAIN entries /\ entries[k].origin = "pending"
  BY <1>0, PendingIs DEF PairAgain
<1> HIDE DEF k
<1>2. /\ entries' = [entries EXCEPT ![k].due = FALSE]
      /\ promised' = promised \cup {entries[k].peer} /\ Pairs
      /\ UNCHANGED <<program, file, doing, clients, known, changes, made, overlapped, dismissed>>
  BY DEF PairAgain, Reused, MayPair, k, watch
<1>3. entries \in Seq(Entries)
  BY <1>0 DEF PairingTyped
<1>4. /\ DOMAIN entries' = DOMAIN entries
      /\ \A i \in DOMAIN entries : i # k => entries'[i] = entries[i]
      /\ entries'[k] = [entries[k] EXCEPT !.due = FALSE] /\ entries[k] \in Entries
  BY <1>1, <1>2, <1>3
<1>5. \A i \in DOMAIN entries :
         /\ entries'[i] \in Entries
         /\ entries'[i].peer = entries[i].peer /\ entries'[i].number = entries[i].number
         /\ entries'[i].origin = entries[i].origin
         /\ i # k => entries'[i].due = entries[i].due
  <2>1. entries'[k] \in Entries /\ entries'[k].peer = entries[k].peer
        /\ entries'[k].number = entries[k].number /\ entries'[k].origin = entries[k].origin
    BY <1>4 DEF Entries
  <2>2. \A i \in DOMAIN entries : entries[i] \in Entries
    BY <1>3
  <2> QED
    BY <1>4, <2>1, <2>2
<1>6. ~entries'[k].due
  <2>1. PICK e \in Entries : entries'[k] = [e EXCEPT !.due = FALSE]
    BY <1>4
  <2>2. ~[e EXCEPT !.due = FALSE].due
    BY DEF Entries
  <2> QED
    BY <2>1, <2>2
<1>7. entries' \in Seq(Entries)
  <2>1. DOMAIN entries = 1 .. Len(entries) /\ Len(entries) \in Nat
    BY <1>3
  <2>2. entries' = [i \in 1 .. Len(entries) |-> entries'[i]]
    BY <1>2, <2>1
  <2>3. \A i \in 1 .. Len(entries) : entries'[i] \in Entries
    BY <1>5, <2>1
  <2> QED
    BY <2>1, <2>2, <2>3
<1>8. Comes(entries', [i \in DOMAIN entries |-> i]) /\ Peers(entries') = Peers(entries)
      /\ Lines(entries') = Lines(entries)
  BY <1>0, <1>4, <1>5, ItselfComes
<1>9. promised' \subseteq Peers(entries')
  BY <1>0, <1>1, <1>2, <1>8 DEF PackagesAreServed, Peers
<1>10. ASSUME NEW i \in DOMAIN entries', entries'[i].origin = "pending", entries'[i].due
       PROVE  entries'[i].peer \notin promised'
  <2>1. i # k /\ i \in DOMAIN entries /\ entries[i].origin = "pending" /\ entries[i].due
    BY <1>4, <1>5, <1>6, <1>10
  <2>2. entries[i].peer \notin promised /\ entries[i].peer # entries[k].peer
    BY <1>0, <1>1, <2>1 DEF PendingFit
  <2> QED
    BY <1>2, <1>5, <2>1, <2>2
<1>11. CallsGoOn /\ doing' \in [Caller -> Calls] /\ dismissed' \in BOOLEAN
  BY <1>0, <1>2 DEF CallsGoOn, PairingTyped
<1> QED
  BY <1>2, <1>7, <1>8, <1>9, <1>10, <1>11, PhonesStep

LEMMA StepPair == ASSUME PhonesIInv, NEW c \in Tray, Pair(c) PROVE PhonesIInv'
<1>0. /\ PairingTyped /\ KindsFit /\ PendingFit /\ NumbersFit /\ FileFits /\ PackagesAreServed
      /\ c \in Caller
  BY DEF PhonesIInv, Caller
<1>1. PICK n \in Nat :
        /\ doing' = [doing EXCEPT ![c] = [step |-> "creating", peer |-> made + 1, number |-> n]]
        /\ n \notin Taken
        /\ program = "hp-router" => \A i \in DOMAIN entries : entries[i].number # n
  <2>1. CASE program = "hp-server"
    <3>1. doing' = [doing EXCEPT ![c] = [step |-> "creating", peer |-> made + 1, number |-> 0]]
      BY <2>1 DEF Pair, Paused
    <3> QED
      BY <2>1, <3>1 DEF Taken
  <2>2. CASE program = "hp-router"
    <3>1. PICK n \in FreeNumbers :
              doing' = [doing EXCEPT ![c] = [step |-> "creating", peer |-> made + 1, number |-> n]]
      BY <2>2 DEF Pair, Paused
    <3>2. n \in Nat /\ \A i \in DOMAIN entries : entries[i].number # n
      BY <3>1, PairingAssumption DEF FreeNumbers
    <3>3. n \notin Taken
      BY <1>0, <3>2 DEF NumbersFit
    <3> QED
      BY <3>1, <3>2, <3>3
  <2> QED
    BY <2>1, <2>2 DEF Pair
<1>2. /\ doing[c] = NoCall /\ Pairs /\ made' = made + 1 /\ made < MaxPhones
      /\ UNCHANGED <<program, entries, file, clients, known, changes, promised, overlapped, dismissed>>
      /\ program = "hp-router" => \A d \in Tray : ~Creating(d)
  BY DEF Pair, AtRest, MayPair, watch, history, Creating
<1> DEFINE call == [step |-> "creating", peer |-> made + 1, number |-> n]
<1>3. made \in Nat /\ made' \in 0 .. MaxPhones
  BY <1>0, <1>2, PairingAssumption DEF PairingTyped
<1>4. call \in Calls /\ call.step = "creating" /\ call.peer = made + 1 /\ call.number = n
  BY <1>3 DEF Calls
<1>5. /\ doing' \in [Caller -> Calls] /\ doing'[c] = call
      /\ \A d \in Caller : d # c => doing'[d] = doing[d]
      /\ doing[c].step = "idle"
  BY <1>0, <1>1, <1>2, <1>4 DEF PairingTyped, NoCall
<1> HIDE DEF call
<1>6. PairingTyped'
  BY <1>0, <1>2, <1>3, <1>5 DEF PairingTyped
<1>7. KindsFit'
  BY <1>0, <1>2, <1>4, <1>5 DEF KindsFit, Pairs
<1>8. PendingFit'
  <2>1. \A i \in DOMAIN entries : entries[i].origin = "pending" => entries[i].peer \in 1 .. made
    BY <1>0 DEF PendingFit
  <2>2. \A d \in Caller : Creating(d) => doing[d].peer \in 1 .. made
    BY <1>0 DEF PendingFit
  <2>3. \A d \in Caller : Creating(d)' => d = c \/ (Creating(d) /\ doing'[d] = doing[d])
    BY <1>5 DEF Creating
  <2>4. made + 1 \notin 1 .. made /\ made + 1 \in 1 .. made' /\ 1 .. made \subseteq 1 .. made'
    BY <1>2, <1>3
  <2>5. \A i \in DOMAIN entries : entries[i].origin = "pending" =>
          \A d \in Caller : Creating(d)' => doing'[d].peer # entries[i].peer
    BY <1>0, <1>4, <1>5, <2>1, <2>3, <2>4 DEF PendingFit
  <2>6. \A d, e \in Caller : Creating(d)' /\ Creating(e)' /\ doing'[d].peer = doing'[e].peer => d = e
    BY <1>0, <1>4, <1>5, <2>2, <2>3, <2>4 DEF PendingFit
  <2>7. \A d \in Caller : Creating(d)' => doing'[d].peer \in 1 .. made'
    BY <1>4, <1>5, <2>2, <2>3, <2>4
  <2>8. \A i \in DOMAIN entries : entries[i].origin = "pending" => entries[i].peer \in 1 .. made'
    BY <2>1, <2>4
  <2> QED
    BY <1>0, <1>2, <2>5, <2>6, <2>7, <2>8 DEF PendingFit
<1>9. NumbersFit'
  <2>1. Taken' = Taken
    BY <1>2 DEF Taken, FromSettings, Pairs
  <2>2. \A d \in Caller : doing'[d].step = "writing" => doing'[d] = doing[d]
    BY <1>4, <1>5
  <2>3. \A d \in Caller : Creating(d)' => d = c \/ (Creating(d) /\ doing'[d] = doing[d])
    BY <1>5 DEF Creating
  <2>4. program = "hp-router" => \A d \in Caller : Creating(d)' => d = c
    BY <1>0, <1>2, <2>3 DEF NumbersFit
  <2>5. \A d \in Caller : Creating(d)' =>
          /\ d \in Tray /\ doing'[d].number \notin Taken
          /\ program = "hp-router" =>
                /\ \A i \in DOMAIN entries : entries[i].number # doing'[d].number
                /\ \A e \in Caller : Creating(e)' => d = e
    BY <1>0, <1>1, <1>4, <1>5, <2>3, <2>4 DEF NumbersFit
  <2> QED
    BY <1>0, <1>2, <2>1, <2>2, <2>5 DEF NumbersFit
<1>10. FileFits'
  <2>1. \A d \in Caller : Writing(d)' <=> Writing(d)
    BY <1>4, <1>5 DEF Writing
  <2>2. \A d \in Caller : Writing(d) => doing'[d] = doing[d]
    BY <1>5 DEF Writing
  <2>3. \A d \in Caller : doing[d].step = "saving" => doing'[d].step = "saving"
    BY <1>5
  <2> QED
    BY <1>0, <1>2, <2>1, <2>2, <2>3, FileKept
<1>11. PackagesAreServed'
  BY <1>0, <1>2 DEF PackagesAreServed, Peers
<1> QED
  BY <1>6, <1>7, <1>8, <1>9, <1>10, <1>11 DEF PhonesIInv

LEMMA StepPaired == ASSUME PhonesIInv, NEW c \in Tray, Paired(c) PROVE PhonesIInv'
<1> DEFINE e == Entry(doing[c].peer, doing[c].number, "pending")
<1>0. /\ PairingTyped /\ KindsFit /\ PendingFit /\ NumbersFit /\ FileFits /\ PackagesAreServed
      /\ c \in Caller
  BY DEF PhonesIInv, Caller
<1>1. /\ Creating(c) /\ entries' = Inserted(entries, e)
      /\ doing' = [doing EXCEPT ![c] = NoCall] /\ promised' = promised \cup {doing[c].peer}
      /\ UNCHANGED <<program, file, clients, known, changes, made, overlapped, dismissed>>
  BY DEF Paired, Paused, watch, Creating
<1>2. doing[c].peer \in Int /\ doing[c].number \in Nat /\ NoCall \in Calls /\ NoCall.step = "idle"
  BY <1>0, <1>1, CallIs
<1>3. /\ e \in Entries /\ e.peer = doing[c].peer /\ e.number = doing[c].number
      /\ e.origin = "pending" /\ ~e.due
  BY <1>2 DEF Entry, Entries
<1>4. Pairs
  BY <1>0, <1>1 DEF KindsFit, Creating
<1>5. entries' = Append(entries, e)
  <2>1. program = "hp-router" => \A i \in DOMAIN entries : entries[i].number # e.number
    BY <1>0, <1>1, <1>3 DEF NumbersFit
  <2> QED
    BY <1>0, <1>1, <2>1, InsertedIs
<1> HIDE DEF e
<1> DEFINE n == Len(entries)
<1>6. /\ entries' \in Seq(Entries) /\ n \in Nat
      /\ DOMAIN entries = 1 .. n /\ DOMAIN entries' = 1 .. n + 1
      /\ entries'[n + 1] = e /\ \A i \in 1 .. n : entries'[i] = entries[i]
  BY <1>0, <1>3, <1>5 DEF PairingTyped
<1> HIDE DEF n
<1>7. \A i \in DOMAIN entries' : i = n + 1 \/ i \in DOMAIN entries
  BY <1>6
<1>8. /\ doing' \in [Caller -> Calls] /\ doing'[c] = NoCall
      /\ \A d \in Caller : d # c => doing'[d] = doing[d]
  BY <1>0, <1>1, <1>2 DEF PairingTyped
<1>9. /\ \A d \in Caller : doing'[d].step # "idle" => d # c /\ doing'[d] = doing[d]
      /\ \A d \in Caller : Creating(d)' => d # c /\ Creating(d) /\ doing'[d] = doing[d]
      /\ \A d \in Caller : Writing(d)' <=> Writing(d)
  BY <1>1, <1>2, <1>8 DEF Creating, Writing
<1>10. PairingTyped'
  BY <1>0, <1>1, <1>6, <1>8 DEF PairingTyped
<1>11. KindsFit'
  <2>1. e.peer \notin Client
    BY <1>2, <1>3, PairingAssumption
  <2>2. \A i \in DOMAIN entries' : entries'[i].origin = "file" <=> entries'[i].peer \in Client
    BY <1>0, <1>3, <1>6, <1>7, <2>1 DEF KindsFit
  <2>3. \A i \in DOMAIN entries' : entries'[i].origin # "file"
    BY <1>0, <1>3, <1>4, <1>6, <1>7 DEF KindsFit
  <2>4. Pairs'
    BY <1>1, <1>4 DEF Pairs
  <2> QED
    BY <1>0, <1>1, <1>4, <1>9, <2>2, <2>3, <2>4 DEF KindsFit
<1>12. PendingFit'
  <2>1. \A i \in DOMAIN entries : entries[i].origin = "pending" => entries[i].peer # e.peer
    BY <1>0, <1>1, <1>3 DEF PendingFit
  <2>2. e.peer \in 1 .. made
    BY <1>0, <1>1, <1>3 DEF PendingFit
  <2>3. ASSUME NEW i \in DOMAIN entries', entries'[i].origin = "pending"
        PROVE  /\ entries'[i].peer \in 1 .. made
               /\ \A j \in DOMAIN entries' :
                     entries'[j].origin = "pending" /\ entries'[j].peer = entries'[i].peer => i = j
               /\ \A d \in Caller : Creating(d)' => doing'[d].peer # entries'[i].peer
               /\ entries'[i].due => entries'[i].peer \notin promised'
    <3>1. CASE i = n + 1
      <4>1. \A j \in DOMAIN entries' :
                entries'[j].origin = "pending" /\ entries'[j].peer = e.peer => j = n + 1
        BY <1>6, <1>7, <2>1
      <4>2. \A d \in Caller : Creating(d)' => doing'[d].peer # e.peer
        BY <1>0, <1>1, <1>3, <1>9 DEF PendingFit
      <4> QED
        BY <1>3, <1>6, <2>2, <3>1, <4>1, <4>2
    <3>2. CASE i # n + 1
      <4>1. i \in DOMAIN entries /\ entries'[i] = entries[i]
        BY <1>6, <1>7, <3>2
      <4>2. entries[i].peer # e.peer
        BY <2>1, <2>3, <4>1
      <4>3. \A j \in DOMAIN entries' :
                entries'[j].origin = "pending" /\ entries'[j].peer = entries[i].peer => i = j
        BY <1>0, <1>6, <1>7, <2>3, <4>1, <4>2 DEF PendingFit
      <4>4. \A d \in Caller : Creating(d)' => doing'[d].peer # entries[i].peer
        BY <1>0, <1>9, <2>3, <4>1 DEF PendingFit
      <4>5. entries[i].due => entries[i].peer \notin promised'
        BY <1>0, <1>1, <1>3, <2>3, <4>1, <4>2 DEF PendingFit
      <4> QED
        BY <1>0, <2>3, <4>1, <4>3, <4>4, <4>5 DEF PendingFit
    <3> QED
      BY <3>1, <3>2
  <2>4. \A d \in Caller : Creating(d)' => doing'[d].peer \in 1 .. made
    BY <1>0, <1>9 DEF PendingFit
  <2>5. \A d, f \in Caller : Creating(d)' /\ Creating(f)' /\ doing'[d].peer = doing'[f].peer => d = f
    BY <1>0, <1>9 DEF PendingFit
  <2> QED
    BY <1>1, <2>3, <2>4, <2>5 DEF PendingFit
<1>13. NumbersFit'
  <2>1. Taken' = Taken
    BY <1>1 DEF Taken, FromSettings, Pairs
  <2>2. e.number \notin Taken
    BY <1>0, <1>1, <1>3 DEF NumbersFit
  <2>3. \A m \in Taken : \E i \in DOMAIN entries' :
            entries'[i].origin = "settings" /\ entries'[i].number = m
    <3> TAKE m \in Taken
    <3>1. PICK i \in DOMAIN entries : entries[i].origin = "settings" /\ entries[i].number = m
      BY <1>0 DEF NumbersFit
    <3>2. i \in DOMAIN entries' /\ entries'[i] = entries[i]
      BY <1>6
    <3> QED
      BY <3>1, <3>2
  <2>4. \A i \in DOMAIN entries' : entries'[i].origin # "settings" => entries'[i].number \notin Taken
    BY <1>0, <1>6, <1>7, <2>2 DEF NumbersFit
  <2>5. \A d \in Caller : Creating(d)' => d \in Tray /\ doing'[d].number \notin Taken
    BY <1>0, <1>9 DEF NumbersFit
  <2>6. program = "hp-router" => \A d \in Caller : ~Creating(d)'
    BY <1>0, <1>1, <1>9 DEF NumbersFit
  <2>7. \A d \in Caller : doing'[d].step = "writing" => doing'[d] = doing[d]
    BY <1>9
  <2> QED
    BY <1>0, <1>1, <2>1, <2>3, <2>4, <2>5, <2>6, <2>7 DEF NumbersFit
<1>14. FileFits'
  <2>1. Lines(entries') = Lines(entries)
    <3>1. \A i \in DOMAIN entries' : entries'[i].origin = "paired" =>
              i \in DOMAIN entries /\ entries'[i] = entries[i]
      BY <1>3, <1>6, <1>7
    <3>2. \A i \in DOMAIN entries : i \in DOMAIN entries' /\ entries'[i] = entries[i]
      BY <1>6
    <3> QED
      BY <3>1, <3>2, SameLines
  <2>2. \A d \in Caller : Writing(d) => doing'[d] = doing[d]
    BY <1>1, <1>8 DEF Writing, Creating
  <2>3. \A d \in Caller : doing[d].step = "saving" => doing'[d].step = "saving"
    BY <1>1, <1>8 DEF Creating
  <2> QED
    BY <1>0, <1>1, <1>9, <2>1, <2>2, <2>3, FileKept
<1>15. PackagesAreServed'
  <2>1. Peers(entries) \subseteq Peers(entries')
    BY <1>6 DEF Peers
  <2>2. doing[c].peer \in Peers(entries')
    <3>1. n + 1 \in DOMAIN entries' /\ entries'[n + 1].peer = doing[c].peer
      BY <1>3, <1>6
    <3> QED
      BY <3>1 DEF Peers
  <2> QED
    BY <1>0, <1>1, <2>1, <2>2 DEF PackagesAreServed
<1> QED
  BY <1>10, <1>11, <1>12, <1>13, <1>14, <1>15 DEF PhonesIInv

(* The tray takes an entry out.                                            *)
LEMMA StepRemovePeer == ASSUME PhonesIInv, NEW c \in Tray, RemovePeer(c) PROVE PhonesIInv'
<1>0. PairingTyped /\ KindsFit /\ PendingFit /\ PackagesAreServed /\ c \in Caller
  BY DEF PhonesIInv, Caller
<1>1. PICK name : TakeOut(c, name)
  BY DEF RemovePeer
<1> DEFINE k == Named(name)
<1>2. k \in DOMAIN entries /\ entries[k].origin # "settings"
  BY <1>0, <1>1, NamedIs DEF TakeOut
<1>3. /\ entries' = RemoveAt(entries, k) /\ promised' = promised \ {entries[k].peer}
      /\ doing' = [doing EXCEPT ![c] = [step |-> "saving"]] /\ doing[c] = NoCall
      /\ dismissed' = (dismissed \/ program = "vps-server")
      /\ UNCHANGED <<program, file, clients, known, changes, made, overlapped>>
  BY <1>1 DEF RemovePeer, TakeOut, Paused, AtRest, watch
<1> HIDE DEF k
<1>4. PICK at : /\ Comes(entries', at)
                /\ \A i \in DOMAIN entries' : entries'[i] = entries[at[i]]
                /\ \A i \in DOMAIN entries : i # k => \E j \in DOMAIN entries' : at[j] = i
  BY <1>0, <1>2, <1>3, TakenOutIs
<1>5. entries' \in Seq(Entries)
  BY <1>0, <1>2, <1>3, TakenOutIs
<1>6. /\ doing' \in [Caller -> Calls] /\ doing'[c] = [step |-> "saving"]
      /\ \A d \in Caller : d # c => doing'[d] = doing[d]
      /\ doing[c].step = "idle" /\ doing'[c].step = "saving"
  BY <1>0, <1>3, CallIs DEF PairingTyped
<1>7. CallsGoOn
  BY <1>6 DEF CallsGoOn
<1>8. \A d \in Caller : doing[d].step \in {"saving", "writing"} => doing'[d] = doing[d]
  BY <1>6
<1>9. promised' \subseteq Peers(entries')
  <2> SUFFICES ASSUME NEW p \in promised, p # entries[k].peer
               PROVE  p \in Peers(entries')
    BY <1>3
  <2>1. PICK i \in DOMAIN entries : entries[i].peer = p
    BY <1>0 DEF PackagesAreServed, Peers
  <2>2. PICK j \in DOMAIN entries' : at[j] = i
    BY <1>4, <2>1
  <2>3. entries'[j].peer = p
    BY <1>4, <2>1, <2>2
  <2> QED
    BY <2>3 DEF Peers
<1>10. ASSUME NEW i \in DOMAIN entries', entries'[i].origin = "pending", entries'[i].due
       PROVE  entries'[i].peer \notin promised'
  <2>1. at[i] \in DOMAIN entries /\ entries'[i] = entries[at[i]]
    BY <1>4 DEF Comes
  <2> QED
    BY <1>0, <1>3, <1>10, <2>1 DEF PendingFit
<1>11. dismissed' \in BOOLEAN /\ (~Pairs => promised' = {})
  BY <1>0, <1>3 DEF PairingTyped, KindsFit
<1>12. \E d \in Caller : doing'[d].step = "saving"
  BY <1>0, <1>6
<1> QED
  BY <1>3, <1>4, <1>5, <1>6, <1>7, <1>8, <1>9, <1>10, <1>11, <1>12, PhonesStep

LEMMA StepHousekeeping == ASSUME PhonesIInv, Housekeeping PROVE PhonesIInv'
<1>0. PairingTyped /\ KindsFit /\ PendingFit /\ PackagesAreServed /\ "main" \in Caller
  BY DEF PhonesIInv, Caller
<1> DEFINE came == \E i \in DOMAIN entries : Connected(i)
           call == IF came THEN [step |-> "saving"] ELSE NoCall
<1>1. /\ entries' = Kept /\ doing["main"] = NoCall
      /\ doing' = [doing EXCEPT !["main"] = call]
      /\ UNCHANGED <<program, file, clients, known, changes, made, promised, overlapped, dismissed>>
  BY DEF Housekeeping, AtRest, Paused, watch, history
<1>2. PICK at : /\ Comes(entries', at)
                /\ \A i \in DOMAIN entries' :
                      entries'[i] = IF Connected(at[i]) THEN [entries[at[i]] EXCEPT !.origin = "paired"]
                                    ELSE entries[at[i]]
                /\ \A k \in DOMAIN entries : Expired(k) \/ \E i \in DOMAIN entries' : at[i] = k
  BY <1>0, <1>1, KeptIs
<1>3. entries' \in Seq(Entries)
  BY <1>0, <1>1, KeptIs
<1>4. /\ call \in {NoCall, [step |-> "saving"]} /\ call \in Calls
      /\ came => call.step = "saving"
      /\ doing["main"].step = "idle"
  BY <1>0, <1>1, CallIs
<1> HIDE DEF call
<1>5. /\ doing' \in [Caller -> Calls] /\ doing'["main"] = call
      /\ \A d \in Caller : d # "main" => doing'[d] = doing[d]
  BY <1>0, <1>1, <1>4 DEF PairingTyped
<1>6. CallsGoOn
  BY <1>4, <1>5 DEF CallsGoOn
<1>7. \A d \in Caller : doing[d].step \in {"saving", "writing"} => doing'[d] = doing[d]
  BY <1>4, <1>5
<1>8. \A i \in DOMAIN entries' :
         /\ at[i] \in DOMAIN entries /\ entries'[i].peer = entries[at[i]].peer
         /\ entries'[i].number = entries[at[i]].number
         /\ ~Connected(at[i]) => entries'[i] = entries[at[i]]
         /\ Connected(at[i]) => entries'[i].origin = "paired"
  <2> TAKE i \in DOMAIN entries'
  <2>1. at[i] \in DOMAIN entries /\ entries'[i].peer = entries[at[i]].peer
        /\ entries'[i].number = entries[at[i]].number
    BY <1>2 DEF Comes
  <2>2. entries[at[i]] \in Entries
    BY <1>0, <2>1 DEF PairingTyped
  <2>3. ~Connected(at[i]) => entries'[i] = entries[at[i]]
    BY <1>2
  <2>4. Connected(at[i]) => entries'[i].origin = "paired"
    <3> HAVE Connected(at[i])
    <3>1. entries'[i] = [entries[at[i]] EXCEPT !.origin = "paired"]
      BY <1>2
    <3> QED
      BY <2>2, <3>1 DEF Entries
  <2> QED
    BY <2>1, <2>3, <2>4
<1>9. promised' \subseteq Peers(entries')
  <2> SUFFICES ASSUME NEW p \in promised
               PROVE  p \in Peers(entries')
    BY <1>1
  <2>1. PICK i \in DOMAIN entries : entries[i].peer = p
    BY <1>0 DEF PackagesAreServed, Peers
  <2>2. ~Expired(i)
    BY <1>0, <2>1 DEF PendingFit, Expired
  <2>3. PICK j \in DOMAIN entries' : at[j] = i
    BY <1>2, <2>2
  <2>4. entries'[j].peer = p
    BY <1>8, <2>1, <2>3
  <2> QED
    BY <2>4 DEF Peers
<1>10. ASSUME NEW i \in DOMAIN entries', entries'[i].origin = "pending", entries'[i].due
       PROVE  entries'[i].peer \notin promised'
  <2>1. at[i] \in DOMAIN entries /\ entries'[i] = entries[at[i]]
    BY <1>8, <1>10
  <2> QED
    BY <1>0, <1>1, <1>10, <2>1 DEF PendingFit
<1>11. dismissed' \in BOOLEAN /\ (~Pairs => promised' = {})
  BY <1>0, <1>1 DEF PairingTyped, KindsFit
<1>12. Lines(entries') = Lines(entries) \/ \E d \in Caller : doing'[d].step = "saving"
  <2>1. CASE came
    BY <1>0, <1>4, <1>5, <2>1
  <2>2. CASE ~came
    <3>1. \A i \in DOMAIN entries' : at[i] \in DOMAIN entries /\ entries'[i] = entries[at[i]]
      BY <1>8, <2>2
    <3>2. \A k \in DOMAIN entries : entries[k].origin = "paired" =>
              \E i \in DOMAIN entries' : entries'[i] = entries[k]
      <4> SUFFICES ASSUME NEW k \in DOMAIN entries, entries[k].origin = "paired"
                   PROVE  \E i \in DOMAIN entries' : entries'[i] = entries[k]
        OBVIOUS
      <4>1. ~Expired(k)
        BY DEF Expired
      <4>2. PICK i \in DOMAIN entries' : at[i] = k
        BY <1>2, <4>1
      <4> QED
        BY <3>1, <4>2
    <3>3. Lines(entries') = Lines(entries)
      BY <3>1, <3>2, SameLines
    <3> QED
      BY <3>3
  <2> QED
    BY <2>1, <2>2
<1> HIDE DEF came
<1> QED
  BY <1>1, <1>2, <1>3, <1>5, <1>6, <1>7, <1>9, <1>10, <1>11, <1>12, PhonesStep

(* What waits comes up, or its term ends.                                  *)
LEMMA StepPhone ==
    ASSUME PhonesIInv, NEW i \in DOMAIN entries, GoesLive(i) \/ TermEnds(i)
    PROVE  PhonesIInv'
<1>0. PairingTyped /\ KindsFit /\ PendingFit /\ PackagesAreServed
  BY DEF PhonesIInv
<1>1. /\ UNCHANGED <<program, file, doing, clients, known, changes, made, overlapped, dismissed>>
      /\ entries[i].origin = "pending"
      /\ \E e \in Entries :
            /\ entries' = [entries EXCEPT ![i] = e]
            /\ e.peer = entries[i].peer /\ e.number = entries[i].number /\ e.origin = entries[i].origin
            /\ \/ (e.due <=> entries[i].due) /\ promised' = promised
               \/ promised' = promised \ {entries[i].peer}
  <2>1. entries[i] \in Entries
    BY <1>0 DEF PairingTyped
  <2>2. CASE GoesLive(i)
    <3> DEFINE e == [entries[i] EXCEPT !.live = ~@]
    <3>1. e \in Entries /\ e.peer = entries[i].peer /\ e.number = entries[i].number
          /\ e.origin = entries[i].origin /\ (e.due <=> entries[i].due)
      BY <2>1 DEF Entries
    <3>2. entries' = [entries EXCEPT ![i] = e] /\ promised' = promised
      BY <2>2 DEF GoesLive, history
    <3> HIDE DEF e
    <3>3. /\ UNCHANGED <<program, file, doing, clients, known, changes, made, overlapped, dismissed>>
          /\ entries[i].origin = "pending"
      BY <2>2 DEF GoesLive, history, watch
    <3> QED
      BY <3>1, <3>2, <3>3
  <2>3. CASE TermEnds(i)
    <3> DEFINE e == [entries[i] EXCEPT !.due = TRUE]
    <3>1. e \in Entries /\ e.peer = entries[i].peer /\ e.number = entries[i].number
          /\ e.origin = entries[i].origin
      BY <2>1 DEF Entries
    <3>2. entries' = [entries EXCEPT ![i] = e] /\ promised' = promised \ {entries[i].peer}
      BY <2>3 DEF TermEnds
    <3> HIDE DEF e
    <3>3. /\ UNCHANGED <<program, file, doing, clients, known, changes, made, overlapped, dismissed>>
          /\ entries[i].origin = "pending"
      BY <2>3 DEF TermEnds, watch
    <3> QED
      BY <3>1, <3>2, <3>3
  <2> QED
    BY <2>2, <2>3
<1>2. PICK e \in Entries :
         /\ entries' = [entries EXCEPT ![i] = e]
         /\ e.peer = entries[i].peer /\ e.number = entries[i].number /\ e.origin = entries[i].origin
         /\ \/ (e.due <=> entries[i].due) /\ promised' = promised
            \/ promised' = promised \ {entries[i].peer}
  BY <1>1
<1>3. entries \in Seq(Entries)
  BY <1>0 DEF PairingTyped
<1>4. /\ DOMAIN entries' = DOMAIN entries /\ entries'[i] = e /\ entries' \in Seq(Entries)
      /\ \A j \in DOMAIN entries : j # i => entries'[j] = entries[j]
  <2>1. entries \in [1 .. Len(entries) -> Entries] /\ Len(entries) \in Nat
    BY <1>3
  <2>2. entries' \in [1 .. Len(entries) -> Entries]
    BY <1>2, <2>1
  <2> QED
    BY <1>2, <2>1, <2>2
<1>5. \A j \in DOMAIN entries :
         /\ entries'[j].peer = entries[j].peer /\ entries'[j].number = entries[j].number
         /\ entries'[j].origin = entries[j].origin
  BY <1>2, <1>4
<1>6. Comes(entries', [j \in DOMAIN entries |-> j]) /\ Peers(entries') = Peers(entries)
      /\ Lines(entries') = Lines(entries)
  BY <1>0, <1>4, <1>5, ItselfComes
<1>7. promised' \subseteq Peers(entries') /\ (~Pairs => promised' = {})
  BY <1>0, <1>2, <1>6 DEF PackagesAreServed, KindsFit
<1>8. ASSUME NEW j \in DOMAIN entries', entries'[j].origin = "pending", entries'[j].due
      PROVE  entries'[j].peer \notin promised'
  <2>1. entries[j].origin = "pending" /\ j \in DOMAIN entries
    BY <1>4, <1>5, <1>8
  <2>2. CASE j = i
    BY <1>0, <1>2, <1>4, <1>8, <2>1, <2>2 DEF PendingFit
  <2>3. CASE j # i
    <3>1. entries[j].due /\ entries[j].peer \notin promised
      BY <1>0, <1>4, <1>8, <2>1, <2>3 DEF PendingFit
    <3> QED
      BY <1>2, <1>5, <2>1, <3>1
  <2> QED
    BY <2>2, <2>3
<1>9. CallsGoOn /\ doing' \in [Caller -> Calls] /\ dismissed' \in BOOLEAN
  BY <1>0, <1>1 DEF CallsGoOn, PairingTyped
<1> QED
  BY <1>1, <1>4, <1>6, <1>7, <1>8, <1>9, PhonesStep

(* A step of a saver: the list stays.                                      *)
LEMMA SaverStep ==
    ASSUME PhonesIInv, NEW c \in Caller, NEW call \in Calls, doing' = [doing EXCEPT ![c] = call],
           doing[c].step \in {"saving", "writing"},
           call = NoCall \/ (call.step = "writing" /\ program = "hp-server" /\ call.text = Lines(entries)),
           file' = file \/ file' = Lines(entries) \/ (Writing(c) /\ file' = doing[c].text),
           ~Pairs => file' = {},
           overlapped' \in BOOLEAN,
           UNCHANGED <<program, entries, clients, known, changes, made, promised, dismissed>>
    PROVE  /\ PairingTyped' /\ KindsFit' /\ PendingFit' /\ NumbersFit' /\ PackagesAreServed'
           /\ IsFiniteSet(file') /\ \A d \in Caller : Writing(d)' => IsFiniteSet(doing'[d].text)
<1>0. PairingTyped /\ KindsFit /\ PendingFit /\ NumbersFit /\ FileFits /\ PackagesAreServed
  BY DEF PhonesIInv
<1>1. /\ doing' \in [Caller -> Calls] /\ doing'[c] = call
      /\ \A d \in Caller : d # c => doing'[d] = doing[d]
  BY <1>0 DEF PairingTyped
<1>2. call.step \in {"idle", "writing"} /\ (call.step = "writing" => call.text = Lines(entries) /\ program = "hp-server")
  BY DEF NoCall
<1>3. Lines(entries) \in SUBSET Texts /\ IsFiniteSet(Lines(entries))
  BY <1>0, LinesFit
<1>4. Writing(c) => doing[c].text \in SUBSET Texts
  BY <1>0, CallIs
<1>5. PairingTyped'
  BY <1>0, <1>1, <1>3, <1>4 DEF PairingTyped
<1>6. /\ \A d \in Caller : Creating(d)' => Creating(d) /\ doing'[d] = doing[d]
      /\ \A d \in Caller : Writing(d)' => (Writing(d) /\ doing'[d] = doing[d]) \/ doing'[d].text = Lines(entries)
      /\ \A d \in Caller : doing'[d].step = "adding" => doing[d].step = "adding"
  BY <1>1, <1>2 DEF Creating, Writing
<1>7. KindsFit'
  BY <1>0, <1>1, <1>2 DEF KindsFit, Pairs
<1>8. PendingFit'
  BY <1>0, <1>6 DEF PendingFit
<1>9. NumbersFit'
  <2>1. Taken' = Taken
    BY DEF Taken, FromSettings, Pairs
  <2>2. \A l \in Lines(entries) : l.number \notin Taken
    BY <1>0, LinesAreFree
  <2>3. \A l \in file' : l.number \notin Taken
    BY <1>0, <2>2 DEF NumbersFit, Writing
  <2>4. \A d \in Caller : Writing(d)' => \A l \in doing'[d].text : l.number \notin Taken
    BY <1>0, <1>6, <2>2 DEF NumbersFit, Writing
  <2>5. \A d \in Caller : Creating(d)' =>
          /\ d \in Tray /\ doing'[d].number \notin Taken
          /\ program = "hp-router" =>
                /\ \A i \in DOMAIN entries : entries[i].number # doing'[d].number
                /\ \A e \in Caller : Creating(e)' => d = e
    BY <1>0, <1>6 DEF NumbersFit
  <2> QED
    BY <1>0, <2>1, <2>3, <2>4, <2>5 DEF NumbersFit, Writing
<1>10. IsFiniteSet(file') /\ \A d \in Caller : Writing(d)' => IsFiniteSet(doing'[d].text)
  BY <1>0, <1>3, <1>6 DEF FileFits
<1>11. PackagesAreServed'
  BY <1>0 DEF PackagesAreServed, Peers
<1> QED
  BY <1>5, <1>7, <1>8, <1>9, <1>10, <1>11

LEMMA StepSaveLocked == ASSUME PhonesIInv, NEW c \in Caller, SaveLocked(c) PROVE PhonesIInv'
<1>0. PairingTyped /\ KindsFit /\ PendingFit /\ NumbersFit /\ FileFits /\ PackagesAreServed
  BY DEF PhonesIInv
<1>1. /\ doing' = [doing EXCEPT ![c] = NoCall] /\ doing[c].step = "saving"
      /\ program # "hp-server" /\ file' = Lines(entries)
      /\ UNCHANGED <<program, entries, clients, known, changes, made, promised, overlapped, dismissed>>
  BY DEF SaveLocked, Paused, watch, history
<1>2. NoCall \in Calls /\ NoCall.step = "idle"
  BY <1>0, CallIs
<1>3. ~Pairs => file' = {}
  BY <1>0, <1>1 DEF KindsFit, Lines, ToSet
<1>4. overlapped' \in BOOLEAN
  BY <1>0, <1>1 DEF PairingTyped
<1>5. /\ PairingTyped' /\ KindsFit' /\ PendingFit' /\ NumbersFit' /\ PackagesAreServed'
      /\ IsFiniteSet(file') /\ \A d \in Caller : Writing(d)' => IsFiniteSet(doing'[d].text)
  BY <1>1, <1>2, <1>3, <1>4, SaverStep
<1>6. \A d \in Caller : ~Writing(d)'
  BY <1>1, <1>5 DEF KindsFit, Writing
<1>7. Lines(entries)' = Lines(entries)
  BY <1>1 DEF Lines
<1>8. FileFits'
  BY <1>1, <1>5, <1>6, <1>7 DEF FileFits
<1> QED
  BY <1>5, <1>8 DEF PhonesIInv

LEMMA StepCopy == ASSUME PhonesIInv, NEW c \in Caller, Copy(c) PROVE PhonesIInv'
<1> DEFINE call == [step |-> "writing", text |-> Lines(entries)]
<1>0. PairingTyped /\ KindsFit /\ PendingFit /\ NumbersFit /\ FileFits /\ PackagesAreServed
  BY DEF PhonesIInv
<1>1. /\ doing' = [doing EXCEPT ![c] = call] /\ doing[c].step = "saving"
      /\ program = "hp-server" /\ file' = file
      /\ overlapped' = (overlapped \/ \E d \in Caller : Writing(d))
      /\ UNCHANGED <<program, entries, clients, known, changes, made, promised, dismissed>>
  BY DEF Copy, Paused, watch, Writing
<1>2. call \in Calls /\ call.step = "writing" /\ call.text = Lines(entries)
  BY <1>0, LinesFit DEF Calls
<1> HIDE DEF call
<1>3. overlapped' \in BOOLEAN /\ (~Pairs => file' = {})
  BY <1>0, <1>1 DEF PairingTyped, KindsFit
<1>5. /\ PairingTyped' /\ KindsFit' /\ PendingFit' /\ NumbersFit' /\ PackagesAreServed'
      /\ IsFiniteSet(file') /\ \A d \in Caller : Writing(d)' => IsFiniteSet(doing'[d].text)
  BY <1>1, <1>2, <1>3, SaverStep
<1>6. doing'[c] = call /\ \A d \in Caller : d # c => doing'[d] = doing[d]
  BY <1>0, <1>1 DEF PairingTyped
<1>7. Lines(entries)' = Lines(entries)
  BY <1>1 DEF Lines
<1>8. FileFits'
  <2> SUFFICES ASSUME ~overlapped'
               PROVE  /\ \A d, e \in Caller : Writing(d)' /\ Writing(e)' => d = e
                      /\ (\A d \in Caller : doing'[d].step # "saving") =>
                            /\ \A d \in Caller : Writing(d)' => doing'[d].text = Lines(entries)
                            /\ (\A d \in Caller : ~Writing(d)') => file' = Lines(entries)
    BY <1>5, <1>7 DEF FileFits
  <2>1. \A d \in Caller : ~Writing(d)
    BY <1>1
  <2>2. \A d \in Caller : Writing(d)' => d = c
    BY <1>6, <2>1 DEF Writing
  <2>3. Writing(c)' /\ doing'[c].text = Lines(entries)
    BY <1>2, <1>6 DEF Writing
  <2> QED
    BY <2>2, <2>3
<1> QED
  BY <1>5, <1>8 DEF PhonesIInv

LEMMA StepWrite == ASSUME PhonesIInv, NEW c \in Caller, Write(c) PROVE PhonesIInv'
<1>0. PairingTyped /\ KindsFit /\ PendingFit /\ NumbersFit /\ FileFits /\ PackagesAreServed
  BY DEF PhonesIInv
<1>1. /\ doing' = [doing EXCEPT ![c] = NoCall] /\ Writing(c) /\ file' = doing[c].text
      /\ UNCHANGED <<program, entries, clients, known, changes, made, promised, overlapped, dismissed>>
  BY DEF Write, Paused, watch, history, Writing
<1>2. NoCall \in Calls /\ NoCall.step = "idle"
  BY <1>0, CallIs
<1>3. Pairs /\ overlapped' \in BOOLEAN /\ doing[c].step = "writing"
  BY <1>0, <1>1 DEF PairingTyped, KindsFit, Writing, Pairs
<1>5. /\ PairingTyped' /\ KindsFit' /\ PendingFit' /\ NumbersFit' /\ PackagesAreServed'
      /\ IsFiniteSet(file') /\ \A d \in Caller : Writing(d)' => IsFiniteSet(doing'[d].text)
  BY <1>1, <1>2, <1>3, SaverStep
<1>6. doing'[c] = NoCall /\ \A d \in Caller : d # c => doing'[d] = doing[d]
  BY <1>0, <1>1 DEF PairingTyped
<1>7. Lines(entries)' = Lines(entries)
  BY <1>1 DEF Lines
<1>8. FileFits'
  <2> SUFFICES ASSUME ~overlapped
               PROVE  /\ \A d, e \in Caller : Writing(d)' /\ Writing(e)' => d = e
                      /\ (\A d \in Caller : doing'[d].step # "saving") =>
                            /\ \A d \in Caller : Writing(d)' => doing'[d].text = Lines(entries)
                            /\ (\A d \in Caller : ~Writing(d)') => file' = Lines(entries)
    BY <1>1, <1>5, <1>7 DEF FileFits
  <2>1. \A d \in Caller : Writing(d) => d = c
    BY <1>0, <1>1 DEF FileFits
  <2>2. \A d \in Caller : ~Writing(d)'
    BY <1>2, <1>6, <2>1 DEF Writing
  <2>3. ASSUME \A d \in Caller : doing'[d].step # "saving"
        PROVE  file' = Lines(entries)
    <3>1. \A d \in Caller : doing[d].step # "saving"
      BY <1>3, <1>6, <2>3
    <3> QED
      BY <1>0, <1>1, <3>1 DEF FileFits
  <2> QED
    BY <2>2, <2>3
<1> QED
  BY <1>5, <1>8 DEF PhonesIInv

(* A new token is none that is about.                                      *)
LEMMA FreshIs ==
    ASSUME PairingTyped, ListenerTyped
    PROVE  /\ FreshToken \in Nat /\ FreshToken \notin TokensInUse
           /\ \A i \in DOMAIN entries : entries[i].token # FreshToken
<1> DEFINE about == Entered \cup ToSet(commands) \cup guarded \cup leaving
           held == {entries[i].token : i \in DOMAIN entries}
           used == TokensInUse \cup held
           enter == [x \in DOMAIN listener |-> Registration(x, listener[x])]
           token == [r \in about |-> r.token]
           has == [i \in DOMAIN entries |-> entries[i].token]
<1>1. IsFiniteSet(Entered)
  <2>1. enter \in Surjection(DOMAIN listener, Entered)
    BY DEF Surjection, Entered
  <2>2. IsFiniteSet(DOMAIN listener)
    BY DEF ListenerTyped
  <2> QED
    BY <2>1, <2>2, FS_Surjection
<1>2. IsFiniteSet(ToSet(commands))
  <2>0. Len(commands) \in Nat /\ DOMAIN commands = 1 .. Len(commands)
    BY DEF ListenerTyped
  <2>1. [i \in DOMAIN commands |-> commands[i]] \in Surjection(DOMAIN commands, ToSet(commands))
    BY DEF Surjection, ToSet
  <2>2. IsFiniteSet(DOMAIN commands)
    BY <2>0, FS_Interval
  <2> QED
    BY <2>1, <2>2, FS_Surjection
<1>3. IsFiniteSet(about)
  <2>1. IsFiniteSet(guarded) /\ IsFiniteSet(leaving)
    BY DEF ListenerTyped
  <2> QED
    BY <1>1, <1>2, <2>1, FS_Union
<1>4. IsFiniteSet(TokensInUse)
  <2>1. token \in Surjection(about, TokensInUse)
    BY DEF Surjection, TokensInUse
  <2> HIDE DEF token, about
  <2> QED
    BY <1>3, <2>1, FS_Surjection
<1>5. IsFiniteSet(held)
  <2>0. Len(entries) \in Nat /\ DOMAIN entries = 1 .. Len(entries)
    BY DEF PairingTyped
  <2>1. has \in Surjection(DOMAIN entries, held)
    BY DEF Surjection
  <2>2. IsFiniteSet(DOMAIN entries)
    BY <2>0, FS_Interval
  <2> HIDE DEF has, held
  <2> QED
    BY <2>1, <2>2, FS_Surjection
<1> HIDE DEF held, about, token, has, enter
<1>6. IsFiniteSet(used)
  BY <1>4, <1>5, FS_Union
<1>7. PICK n : n \in Nat /\ n = Cardinality(used)
  BY <1>6, FS_CardinalityType
<1> HIDE DEF used
<1>8. \E t \in 1 .. n + 1 : t \notin used
  <2> SUFFICES ASSUME 1 .. n + 1 \subseteq used
               PROVE  FALSE
    OBVIOUS
  <2>1. Cardinality(1 .. n + 1) <= n
    BY <1>6, <1>7, FS_Subset
  <2>2. Cardinality(1 .. n + 1) = n + 1
    BY <1>7, FS_Interval
  <2> QED
    BY <1>7, <2>1, <2>2
<1>9. FreshToken = CHOOSE t \in 1 .. n + 1 : t \notin used
  BY <1>7 DEF FreshToken, used, held
<1>10. FreshToken \in 1 .. n + 1 /\ FreshToken \notin used
  BY <1>8, <1>9
<1> QED
  BY <1>7, <1>10 DEF used, held

(* A step of a VPS server.                                                 *)
LEMMA ClientsStep ==
    ASSUME PhonesIInv, ~Pairs, UNCHANGED <<program, file, promised>>, PairingTyped',
           \A i \in DOMAIN entries' : entries'[i].origin = "file" /\ entries'[i].peer \in Client,
           \A c \in Caller : \/ doing'[c] = doing[c] \/ doing'[c] \in {NoCall, [step |-> "saving"]}
                             \/ (c = "changes" /\ doing'[c].step = "adding")
    PROVE  PhonesIInv'
<1>0. KindsFit /\ PairingTyped
  BY DEF PhonesIInv
<1>1. ~Pairs' /\ program' = "vps-server"
  BY DEF Pairs
<1>2. KindsFit'
  BY <1>0, <1>1 DEF KindsFit, NoCall
<1> QED
  BY <1>1, <1>2, NoPhonesNext DEF PhonesIInv

LEMMA StepEdit == ASSUME PhonesIInv, NEW list \in SUBSET Client, Edit(list) PROVE PhonesIInv'
<1>0. PairingTyped /\ KindsFit
  BY DEF PhonesIInv
<1>1. ~Pairs /\ clients' = list
      /\ UNCHANGED <<program, entries, file, doing, known, changes, made, promised, overlapped, dismissed>>
  BY DEF Edit, Pairs, history
<1>2. PairingTyped'
  BY <1>0, <1>1 DEF PairingTyped
<1>3. \A i \in DOMAIN entries' : entries'[i].origin = "file" /\ entries'[i].peer \in Client
  BY <1>0, <1>1 DEF KindsFit
<1> QED
  BY <1>1, <1>2, <1>3, ClientsStep

(* A set put in order.                                                     *)
LEMMA SetToSeqIs ==
    ASSUME NEW S, IsFiniteSet(S)
    PROVE  /\ SetToSeq(S) \in Seq(S) /\ Len(SetToSeq(S)) = Cardinality(S)
           /\ \A i, j \in DOMAIN SetToSeq(S) : SetToSeq(S)[i] = SetToSeq(S)[j] => i = j
           /\ \A x \in S : \E i \in DOMAIN SetToSeq(S) : SetToSeq(S)[i] = x
<1> DEFINE n == Cardinality(S)
<1>1. n \in Nat /\ ExistsBijection(1 .. n, S)
  BY FS_CardinalityType
<1>2. PICK f : f \in Bijection(1 .. n, S)
  BY <1>1 DEF ExistsBijection
<1>3. f \in [1 .. n -> S] /\ IsInjective(f)
  BY <1>2 DEF Bijection, Injection, IsInjective
<1>4. PICK s : s = SetToSeq(S)
  OBVIOUS
<1>5. s \in [1 .. n -> S] /\ IsInjective(s)
  BY <1>3, <1>4, Zenon DEF SetToSeq
<1>6. s \in Injection(1 .. n, S)
  BY <1>5 DEF Injection
<1>7. IsFiniteSet(1 .. n) /\ Cardinality(1 .. n) = n
  BY <1>1, FS_Interval
<1>8. s \in Surjection(1 .. n, S)
  BY <1>6, <1>7, FS_Injection
<1>9. \A x \in S : \E i \in 1 .. n : s[i] = x
  BY <1>8 DEF Surjection
<1> HIDE DEF n
<1>10. s \in Seq(S) /\ Len(s) = n /\ DOMAIN s = 1 .. n
  BY <1>1, <1>5
<1> QED
  BY <1>4, <1>5, <1>9, <1>10 DEF IsInjective, n

(* What the watcher sends: every client once.                              *)
LEMMA ChangesOfAre ==
    ASSUME NEW op \in {"add", "remove"}, NEW peers \in SUBSET Client
    PROVE  /\ ChangesOf(op, peers) \in Seq([op : {"add", "remove"}, peer : Client])
           /\ \A i \in DOMAIN ChangesOf(op, peers) :
                 ChangesOf(op, peers)[i].op = op /\ ChangesOf(op, peers)[i].peer \in peers
           /\ \A i, j \in DOMAIN ChangesOf(op, peers) :
                 ChangesOf(op, peers)[i].peer = ChangesOf(op, peers)[j].peer => i = j
           /\ \A x \in peers : \E i \in DOMAIN ChangesOf(op, peers) : ChangesOf(op, peers)[i].peer = x
<1>1. IsFiniteSet(peers)
  BY PairingAssumption, FS_Subset
<1>2. PICK s, n : s = SetToSeq(peers) /\ n = Cardinality(peers)
  OBVIOUS
<1>3. /\ s \in Seq(peers) /\ Len(s) = n /\ n \in Nat /\ DOMAIN s = 1 .. n
      /\ \A i, j \in DOMAIN s : s[i] = s[j] => i = j
      /\ \A x \in peers : \E i \in DOMAIN s : s[i] = x
  BY <1>1, <1>2, SetToSeqIs, FS_CardinalityType
<1>4. ChangesOf(op, peers) = [i \in 1 .. n |-> [op |-> op, peer |-> s[i]]]
  BY <1>2 DEF ChangesOf
<1>5. \A i \in 1 .. n : s[i] \in peers
  BY <1>3
<1>6. ChangesOf(op, peers) \in [1 .. n -> [op : {"add", "remove"}, peer : Client]]
  BY <1>4, <1>5
<1>7. /\ DOMAIN ChangesOf(op, peers) = 1 .. n
      /\ \A i \in 1 .. n : ChangesOf(op, peers)[i].op = op /\ ChangesOf(op, peers)[i].peer = s[i]
  BY <1>4
<1>8. ChangesOf(op, peers) \in Seq([op : {"add", "remove"}, peer : Client])
  BY <1>3, <1>6, \A T : \A m \in Nat : \A w \in [1 .. m -> T] : w \in Seq(T)
<1> QED
  BY <1>3, <1>5, <1>7, <1>8

(* The phones of the settings.                                             *)
LEMMA FromSettingsIs ==
    /\ FromSettings \in Seq(Entries)
    /\ ~Pairs => FromSettings = <<>>
    /\ \A i \in DOMAIN FromSettings :
          FromSettings[i].origin = "settings" /\ FromSettings[i].peer \notin Client
    /\ \A n \in Taken : \E i \in DOMAIN FromSettings : FromSettings[i].number = n
<1> DEFINE n == IF Pairs THEN Configured ELSE 0
<1>1. n \in Nat /\ (~Pairs => n = 0)
  BY PairingAssumption
<1>2. FromSettings = [i \in 1 .. n |-> Entry(-i, IF program = "hp-router" THEN i ELSE 0, "settings")]
  BY DEF FromSettings
<1> HIDE DEF n
<1>3. \A i \in 1 .. n :
         /\ FromSettings[i] = Entry(-i, IF program = "hp-router" THEN i ELSE 0, "settings")
         /\ FromSettings[i] \in Entries /\ FromSettings[i].origin = "settings"
         /\ FromSettings[i].peer = -i
  BY <1>1, <1>2 DEF Entry, Entries
<1>4. \A i \in 1 .. n : -i \notin Client
  BY <1>1, PairingAssumption
<1>5. FromSettings \in [1 .. n -> Entries]
  BY <1>2, <1>3
<1>6. FromSettings \in Seq(Entries) /\ DOMAIN FromSettings = 1 .. n /\ Len(FromSettings) = n
  BY <1>1, <1>5
<1>7. \A m \in Taken : \E i \in DOMAIN FromSettings : FromSettings[i].number = m
  BY DEF Taken, ToSet
<1> QED
  BY <1>1, <1>3, <1>4, <1>6, <1>7

(* The phones of the file: none is skipped.                                *)
LEMMA FromFileIs ==
    ASSUME PairingTyped, NumbersFit, FileFits
    PROVE  /\ FromFile \in Seq(Entries)
           /\ \A i \in DOMAIN FromFile :
                 /\ FromFile[i].origin = "paired" /\ FromFile[i].peer \notin Client
                 /\ FromFile[i].number \notin Taken /\ Line(FromFile[i]) \in file
           /\ \A l \in file : \E i \in DOMAIN FromFile : Line(FromFile[i]) = l
<1>1. {l \in file : l.number \notin Taken} = file
  BY DEF NumbersFit
<1>2. PICK s, n : s = SetToSeq(file) /\ n = Cardinality(file)
  OBVIOUS
<1>3. /\ s \in Seq(file) /\ Len(s) = n /\ n \in Nat /\ DOMAIN s = 1 .. n
      /\ \A x \in file : \E i \in DOMAIN s : s[i] = x
  <2>1. IsFiniteSet(file)
    BY DEF FileFits
  <2> QED
    BY <1>2, <2>1, SetToSeqIs, FS_CardinalityType
<1>4. FromFile = [i \in 1 .. n |-> Entry(s[i].peer, s[i].number, "paired")]
  BY <1>1, <1>2, <1>3 DEF FromFile, Taken
<1>5. \A i \in 1 .. n : s[i] \in file /\ s[i] \in Texts /\ s[i].number \notin Taken
  <2>1. file \in SUBSET Texts
    BY DEF PairingTyped
  <2> QED
    BY <1>3, <2>1 DEF NumbersFit
<1>6. \A i \in 1 .. n :
         /\ FromFile[i] \in Entries /\ FromFile[i].origin = "paired"
         /\ FromFile[i].peer \notin Client /\ FromFile[i].number \notin Taken
         /\ Line(FromFile[i]) = s[i]
  <2> TAKE i \in 1 .. n
  <2>1. FromFile[i] = Entry(s[i].peer, s[i].number, "paired")
    BY <1>4
  <2>2. s[i].peer \in Int /\ s[i].number \in Nat /\ s[i] = [peer |-> s[i].peer, number |-> s[i].number]
    BY <1>5 DEF Texts
  <2>3. FromFile[i] \in Entries /\ FromFile[i].origin = "paired" /\ FromFile[i].peer = s[i].peer
        /\ FromFile[i].number = s[i].number
    BY <2>1, <2>2 DEF Entry, Entries
  <2> QED
    BY <1>5, <2>2, <2>3, PairingAssumption DEF Line
<1>7. FromFile \in [1 .. n -> Entries]
  BY <1>4, <1>6
<1>8. FromFile \in Seq(Entries) /\ DOMAIN FromFile = 1 .. n
  BY <1>3, <1>7, \A T : \A m \in Nat : \A w \in [1 .. m -> T] : w \in Seq(T)
<1> QED
  BY <1>3, <1>5, <1>6, <1>8

LEMMA StepRestart == ASSUME PhonesIInv, Restart PROVE PhonesIInv'
<1>0. PairingTyped /\ KindsFit /\ NumbersFit /\ FileFits
  BY DEF PhonesIInv
<1>1. /\ entries' = FromSettings \o (IF Pairs THEN FromFile ELSE <<>>)
      /\ doing' = [c \in Caller |-> NoCall] /\ known' = {} /\ changes' = <<>>
      /\ promised' = {} /\ overlapped' = FALSE /\ dismissed' = FALSE
      /\ UNCHANGED <<program, file, clients, made>>
  BY DEF Restart
<1> DEFINE a == FromSettings
           b == IF Pairs THEN FromFile ELSE <<>>
<1>2. a \in Seq(Entries) /\ b \in Seq(Entries)
  BY <1>0, FromSettingsIs, FromFileIs
<1>3. /\ \A i \in DOMAIN a : a[i].origin = "settings" /\ a[i].peer \notin Client
      /\ \A n \in Taken : \E i \in DOMAIN a : a[i].number = n
  BY <1>0, FromSettingsIs
<1>4. \A i \in DOMAIN b :
         /\ b[i].origin = "paired" /\ b[i].peer \notin Client
         /\ b[i].number \notin Taken /\ Line(b[i]) \in file
  BY <1>0, FromFileIs
<1>5. Pairs => \A l \in file : \E i \in DOMAIN b : Line(b[i]) = l
  BY <1>0, FromFileIs
<1>6. ~Pairs => a = <<>> /\ b = <<>>
  BY <1>0, FromSettingsIs
<1> HIDE DEF a, b
<1> DEFINE m == Len(a)
           n == Len(b)
<1>7. /\ m \in Nat /\ n \in Nat /\ DOMAIN a = 1 .. m /\ DOMAIN b = 1 .. n
      /\ entries' \in Seq(Entries) /\ DOMAIN entries' = 1 .. m + n
      /\ \A i \in 1 .. m : entries'[i] = a[i]
      /\ \A i \in 1 .. n : entries'[m + i] = b[i]
  <2>1. entries' = a \o b
    BY <1>1 DEF a, b
  <2>2. Len(entries') = m + n /\ entries' \in Seq(Entries)
    BY <1>2, <2>1, ConcatProperties
  <2>3. m \in Nat /\ n \in Nat /\ DOMAIN a = 1 .. m /\ DOMAIN b = 1 .. n
    BY <1>2
  <2>4. DOMAIN entries' = 1 .. m + n
    BY <2>2
  <2>5. \A i \in 1 .. m + n : entries'[i] = IF i <= m THEN a[i] ELSE b[i - m]
    BY <1>2, <2>1, <2>3, ConcatProperties
  <2>6. \A i \in 1 .. m : entries'[i] = a[i]
    BY <2>3, <2>5
  <2>7. \A i \in 1 .. n : entries'[m + i] = b[i]
    BY <2>3, <2>5
  <2> QED
    BY <2>2, <2>3, <2>4, <2>6, <2>7
<1> HIDE DEF m, n
<1>8. \A i \in DOMAIN entries' :
         \/ i \in DOMAIN a /\ entries'[i] = a[i]
         \/ \E j \in DOMAIN b : i = m + j /\ entries'[i] = b[j]
  <2> TAKE i \in DOMAIN entries'
  <2>1. i \in 1 .. m \/ (i - m \in 1 .. n /\ i = m + (i - m))
    BY <1>7
  <2> QED
    BY <1>7, <2>1
<1>9. \A c \in Caller : doing'[c] = NoCall /\ NoCall.step = "idle" /\ NoCall \in Calls
  BY <1>0, <1>1, CallIs
<1>10. \A c \in Caller : ~Creating(c)' /\ ~Writing(c)' /\ doing'[c].step = "idle"
  BY <1>9 DEF Creating, Writing
<1>11. PairingTyped'
  <2>1. doing' \in [Caller -> Calls]
    BY <1>1, <1>9
  <2>2. changes' \in Seq([op : {"add", "remove"}, peer : Client]) /\ known' \in SUBSET Client
    BY <1>1
  <2>3. overlapped' \in BOOLEAN /\ dismissed' \in BOOLEAN
    BY <1>1
  <2> QED
    BY <1>0, <1>1, <1>7, <2>1, <2>2, <2>3 DEF PairingTyped
<1>12. \A i \in DOMAIN entries' :
          entries'[i].origin \in {"settings", "paired"} /\ entries'[i].peer \notin Client
  BY <1>3, <1>4, <1>8
<1>13. ~Pairs => DOMAIN entries' = {}
  <2> HAVE ~Pairs
  <2>1. m = 0 /\ n = 0
    BY <1>6 DEF m, n
  <2> QED
    BY <1>7, <2>1
<1>14. Pairs' <=> Pairs
  BY <1>1 DEF Pairs
<1>15. KindsFit'
  BY <1>0, <1>1, <1>10, <1>12, <1>13, <1>14 DEF KindsFit
<1>16. PackagesAreServed' /\ PendingFit'
  BY <1>1, <1>10, <1>12 DEF PackagesAreServed, PendingFit
<1>17. NumbersFit'
  <2>1. Taken' = Taken
    BY <1>1 DEF Taken, FromSettings, Pairs
  <2>2. \A t \in Taken : \E i \in DOMAIN entries' :
            entries'[i].origin = "settings" /\ entries'[i].number = t
    <3> TAKE t \in Taken
    <3>1. PICK i \in DOMAIN a : a[i].number = t
      BY <1>3
    <3>2. i \in DOMAIN entries' /\ entries'[i] = a[i]
      BY <1>7
    <3> QED
      BY <1>3, <3>1, <3>2
  <2>3. \A i \in DOMAIN entries' : entries'[i].origin # "settings" => entries'[i].number \notin Taken
    BY <1>3, <1>4, <1>8
  <2> QED
    BY <1>0, <1>1, <1>10, <2>1, <2>2, <2>3 DEF NumbersFit, Writing
<1>18. FileFits'
  <2>1. Lines(entries') = file
    <3>1. \A l : l \in Lines(entries') <=>
              \E i \in DOMAIN entries' : entries'[i].origin = "paired" /\ l = Line(entries'[i])
      BY LinesAre
    <3>2. \A l \in Lines(entries') : l \in file
      BY <1>3, <1>4, <1>8, <3>1
    <3>3. ASSUME NEW l \in file
          PROVE  l \in Lines(entries')
      <4>1. Pairs
        BY <1>0, <3>3 DEF KindsFit
      <4>2. PICK j \in DOMAIN b : Line(b[j]) = l
        BY <1>5, <4>1
      <4>3. m + j \in DOMAIN entries' /\ entries'[m + j] = b[j]
        BY <1>7
      <4> QED
        BY <1>4, <3>1, <4>2, <4>3
    <3> QED
      BY <3>2, <3>3
  <2> QED
    BY <1>0, <1>1, <1>10, <2>1 DEF FileFits
<1> QED
  BY <1>11, <1>15, <1>16, <1>17, <1>18 DEF PhonesIInv

LEMMA ChangesHead ==
    ASSUME PairingTyped, changes # <<>>
    PROVE  /\ Head(changes) \in [op : {"add", "remove"}, peer : Client]
           /\ Tail(changes) \in Seq([op : {"add", "remove"}, peer : Client])
           /\ Len(changes) \in Nat \ {0} /\ Len(Tail(changes)) = Len(changes) - 1
           /\ Head(changes) = changes[1]
           /\ \A i \in 1 .. Len(changes) - 1 : Tail(changes)[i] = changes[i + 1]
<1> DEFINE C == [op : {"add", "remove"}, peer : Client]
<1>1. changes \in Seq(C)
  BY DEF PairingTyped
<1> HIDE DEF C
<1>2. Len(changes) \in Nat \ {0}
  BY <1>1
<1>3. Head(changes) = changes[1]
  BY <1>1
<1> QED
  BY <1>1, <1>2, <1>3, HeadTailProperties DEF C

LEMMA StepPoll == ASSUME PhonesIInv, Poll PROVE PhonesIInv'
<1>0. PairingTyped /\ KindsFit
  BY DEF PhonesIInv
<1> DEFINE a == ChangesOf("add", clients \ known)
           b == ChangesOf("remove", known \ clients)
           C == [op : {"add", "remove"}, peer : Client]
<1>1. ~Pairs /\ known' = clients /\ changes' = changes \o a \o b
      /\ UNCHANGED <<program, entries, file, doing, clients, made, promised, overlapped, dismissed>>
  BY DEF Poll, Pairs, history
<1>2. changes \in Seq(C) /\ clients \ known \in SUBSET Client /\ known \ clients \in SUBSET Client
  BY <1>0 DEF PairingTyped
<1>3. a \in Seq(C) /\ b \in Seq(C)
  BY <1>2, ChangesOfAre
<1> HIDE DEF a, b, C
<1>4. changes \o a \in Seq(C)
  BY <1>2, <1>3, ConcatProperties
<1>5. changes' \in Seq(C)
  BY <1>1, <1>3, <1>4, ConcatProperties
<1>6. PairingTyped'
  BY <1>0, <1>1, <1>5 DEF PairingTyped, C
<1>7. \A i \in DOMAIN entries' : entries'[i].origin = "file" /\ entries'[i].peer \in Client
  BY <1>0, <1>1 DEF KindsFit
<1> QED
  BY <1>1, <1>6, <1>7, ClientsStep

LEMMA StepApplyAdd == ASSUME PhonesIInv, ListenerTyped, ApplyAdd PROVE PhonesIInv'
<1> DEFINE call == [step |-> "adding", peer |-> Head(changes).peer, token |-> FreshToken]
<1>0. PairingTyped /\ KindsFit
  BY DEF PhonesIInv
<1>1. /\ changes # <<>> /\ changes' = Tail(changes)
      /\ doing' = [doing EXCEPT !["changes"] = call]
      /\ UNCHANGED <<program, entries, file, clients, known, made, promised, overlapped, dismissed>>
  BY DEF ApplyAdd, Paused, history
<1>2. ~Pairs
  BY <1>0, <1>1 DEF KindsFit
<1>3. call \in Calls /\ call.step = "adding"
  BY <1>0, <1>1, ChangesHead, FreshIs DEF Calls
<1> HIDE DEF call
<1>4. /\ doing' \in [Caller -> Calls] /\ doing'["changes"] = call
      /\ \A d \in Caller : d # "changes" => doing'[d] = doing[d]
  BY <1>0, <1>1, <1>3 DEF PairingTyped, Caller
<1>5. PairingTyped'
  BY <1>0, <1>1, <1>4, ChangesHead DEF PairingTyped
<1>6. \A i \in DOMAIN entries' : entries'[i].origin = "file" /\ entries'[i].peer \in Client
  BY <1>0, <1>1, <1>2 DEF KindsFit
<1> QED
  BY <1>1, <1>2, <1>3, <1>4, <1>5, <1>6, ClientsStep

(* The entry that is added goes to the end of the list.                    *)
LEMMA AddedIs ==
    ASSUME PairingTyped, KindsFit, Added
    PROVE  /\ ~Pairs /\ Adding /\ doing' = [doing EXCEPT !["changes"] = NoCall]
           /\ InWork \in Entries /\ InWork.peer = doing["changes"].peer /\ InWork.origin = "file"
           /\ InWork.token = doing["changes"].token /\ InWork.peer \in Client
           /\ entries' = Append(entries, InWork)
<1>1. Adding /\ "changes" \in Caller
  BY DEF Added, Adding, Caller
<1>2. doing["changes"].peer \in Client /\ doing["changes"].token \in Nat
  BY <1>1, CallIs DEF Adding
<1>3. ~Pairs
  BY <1>1 DEF KindsFit, Adding
<1>4. /\ InWork \in Entries /\ InWork.peer = doing["changes"].peer /\ InWork.origin = "file"
      /\ InWork.token = doing["changes"].token
  <2>1. \A p \in Client, t \in Nat :
          LET e == [Entry(p, 0, "file") EXCEPT !.token = t] IN
             e \in Entries /\ e.peer = p /\ e.origin = "file" /\ e.token = t
    BY DEF Entry, Entries
  <2> QED
    BY <1>2, <2>1 DEF InWork
<1>5. entries' = Inserted(entries, InWork)
  BY DEF Added, InWork
<1>6. program # "hp-router"
  BY <1>3 DEF Pairs
<1>7. entries' = Append(entries, InWork)
  BY <1>5, <1>6, InsertedIs
<1> QED
  BY <1>1, <1>2, <1>3, <1>4, <1>7 DEF Added, Paused

LEMMA StepAdded == ASSUME PhonesIInv, Added PROVE PhonesIInv'
<1>0. PairingTyped /\ KindsFit
  BY DEF PhonesIInv
<1>1. UNCHANGED <<program, file, clients, known, changes, made, promised, overlapped, dismissed>>
  BY DEF Added, watch, history
<1>2. /\ ~Pairs /\ Adding /\ doing' = [doing EXCEPT !["changes"] = NoCall]
      /\ InWork \in Entries /\ InWork.origin = "file" /\ InWork.peer \in Client
      /\ entries' = Append(entries, InWork)
  BY <1>0, AddedIs
<1> DEFINE n == Len(entries)
<1>3. entries \in Seq(Entries) /\ n \in Nat /\ DOMAIN entries = 1 .. n
  BY <1>0 DEF PairingTyped
<1>4. /\ entries' \in Seq(Entries) /\ DOMAIN entries' = 1 .. n + 1
      /\ entries'[n + 1] = InWork /\ \A i \in 1 .. n : entries'[i] = entries[i]
  BY <1>2, <1>3
<1> HIDE DEF n
<1>5. \A i \in DOMAIN entries' : entries'[i].origin = "file" /\ entries'[i].peer \in Client
  <2>1. \A i \in DOMAIN entries' : i = n + 1 \/ i \in DOMAIN entries
    BY <1>3, <1>4
  <2> QED
    BY <1>0, <1>2, <1>3, <1>4, <2>1 DEF KindsFit
<1>6. /\ doing' \in [Caller -> Calls]
      /\ \A d \in Caller : doing'[d] = doing[d] \/ doing'[d] = NoCall
  BY <1>0, <1>2, CallIs DEF PairingTyped
<1>7. PairingTyped'
  BY <1>0, <1>1, <1>4, <1>6 DEF PairingTyped
<1> QED
  BY <1>1, <1>2, <1>5, <1>6, <1>7, ClientsStep

LEMMA StepApplyRemove == ASSUME PhonesIInv, ApplyRemove PROVE PhonesIInv'
<1> DEFINE name == Name(Head(changes).peer)
           k == Named(name)
<1>0. PairingTyped /\ KindsFit /\ "changes" \in Caller
  BY DEF PhonesIInv, Caller
<1>1. /\ changes # <<>> /\ changes' = Tail(changes)
      /\ UNCHANGED <<program, file, clients, known, made, overlapped, dismissed>>
  BY DEF ApplyRemove
<1>2. ~Pairs
  BY <1>0, <1>1 DEF KindsFit
<1>3. \/ /\ k # 0 /\ entries[k].origin # "settings" /\ entries' = RemoveAt(entries, k)
         /\ promised' = promised \ {entries[k].peer}
         /\ doing' = [doing EXCEPT !["changes"] = [step |-> "saving"]]
      \/ UNCHANGED <<entries, promised, doing>>
  BY DEF ApplyRemove, TakeOut, Paused
<1> HIDE DEF k
<1>4. /\ entries' \in Seq(Entries)
      /\ \A i \in DOMAIN entries' : entries'[i].origin = "file" /\ entries'[i].peer \in Client
  <2>1. CASE UNCHANGED entries
    BY <1>0, <1>2, <2>1 DEF KindsFit, PairingTyped
  <2>2. CASE k # 0 /\ entries[k].origin # "settings" /\ entries' = RemoveAt(entries, k)
    <3>1. k \in DOMAIN entries
      BY <1>0, <2>2, NamedIs DEF k
    <3>2. PICK at : Comes(entries', at) /\ \A i \in DOMAIN entries' : entries'[i] = entries[at[i]]
      BY <1>0, <2>2, <3>1, TakenOutIs
    <3>3. \A i \in DOMAIN entries' : at[i] \in DOMAIN entries
      BY <3>2 DEF Comes
    <3>4. entries' \in Seq(Entries)
      BY <1>0, <2>2, <3>1, TakenOutIs
    <3> QED
      BY <1>0, <1>2, <3>2, <3>3, <3>4 DEF KindsFit
  <2> QED
    BY <1>3, <2>1, <2>2
<1>5. promised' = promised
  BY <1>0, <1>2, <1>3 DEF KindsFit
<1>6. /\ doing' \in [Caller -> Calls]
      /\ \A d \in Caller : doing'[d] = doing[d] \/ doing'[d] = [step |-> "saving"]
  BY <1>0, <1>3, CallIs DEF PairingTyped
<1>7. PairingTyped'
  BY <1>0, <1>1, <1>4, <1>6, ChangesHead DEF PairingTyped
<1> QED
  BY <1>1, <1>2, <1>4, <1>5, <1>6, <1>7, ClientsStep

(* What the invariant of the phones does not read.                         *)
LEMMA PhonesUntouched ==
    ASSUME PhonesIInv,
           UNCHANGED <<program, entries, file, doing, clients, known, changes, made, promised,
                       overlapped, dismissed>>
    PROVE  PhonesIInv'
<1>1. Taken' = Taken /\ Pairs' = Pairs /\ Lines(entries)' = Lines(entries)
  BY DEF Taken, FromSettings, Pairs, Lines
<1>2. PairingTyped' /\ KindsFit'
  BY <1>1 DEF PhonesIInv, PairingTyped, KindsFit
<1>3. PendingFit' /\ NumbersFit'
  BY <1>1 DEF PhonesIInv, PendingFit, NumbersFit, Creating
<1>4. FileFits' /\ PackagesAreServed'
  BY <1>1 DEF PhonesIInv, FileFits, PackagesAreServed, Writing, Peers
<1> QED
  BY <1>2, <1>3, <1>4 DEF PhonesIInv

LEMMA PhonesInit == ASSUME PairingInit PROVE PhonesIInv
<1>1. /\ entries = FromSettings /\ file = {} /\ doing = [c \in Caller |-> NoCall]
      /\ clients = {} /\ known = {} /\ changes = <<>> /\ made = 0 /\ promised = {}
      /\ overlapped = FALSE /\ dismissed = FALSE /\ program \in Programs
  BY DEF PairingInit
<1>2. NoCall \in Calls /\ NoCall.step = "idle"
  BY DEF NoCall, Calls
<1>3. \A c \in Caller : doing[c] = NoCall /\ doing[c].step = "idle" /\ ~Creating(c) /\ ~Writing(c)
  BY <1>1, <1>2 DEF Creating, Writing
<1>4. /\ entries \in Seq(Entries) /\ (~Pairs => DOMAIN entries = {})
      /\ \A i \in DOMAIN entries : entries[i].origin = "settings" /\ entries[i].peer \notin Client
      /\ \A n \in Taken : \E i \in DOMAIN entries : entries[i].number = n
  <2>1. /\ FromSettings \in Seq(Entries) /\ (~Pairs => FromSettings = <<>>)
        /\ \A i \in DOMAIN FromSettings :
              FromSettings[i].origin = "settings" /\ FromSettings[i].peer \notin Client
        /\ \A n \in Taken : \E i \in DOMAIN FromSettings : FromSettings[i].number = n
    BY FromSettingsIs
  <2> QED
    BY <1>1, <2>1
<1>5. PairingTyped
  <2>1. doing \in [Caller -> Calls]
    BY <1>1, <1>2
  <2>2. made \in 0 .. MaxPhones
    BY <1>1, PairingAssumption
  <2>3. changes \in Seq([op : {"add", "remove"}, peer : Client])
    BY <1>1
  <2> QED
    BY <1>1, <1>4, <2>1, <2>2, <2>3 DEF PairingTyped
<1>6. KindsFit
  BY <1>1, <1>3, <1>4 DEF KindsFit
<1>7. PendingFit /\ PackagesAreServed
  BY <1>1, <1>3, <1>4 DEF PendingFit, PackagesAreServed
<1>8. NumbersFit
  BY <1>1, <1>3, <1>4 DEF NumbersFit
<1>9. Lines(entries) = {}
  <2>1. \A l : l \notin Lines(entries)
    BY <1>4, LinesAre
  <2> QED
    BY <2>1
<1>10. FileFits
  BY <1>1, <1>3, <1>9, FS_EmptySet DEF FileFits
<1> QED
  BY <1>5, <1>6, <1>7, <1>8, <1>10 DEF PhonesIInv

-----------------------------------------------------------------------------
(* The port of the server.                                                 *)

LEMMA SentFits ==
    ASSUME ListenerTyped, NEW op \in {"register", "unregister", "inject"}, NEW r \in Regs, Sent(op, r)
    PROVE  /\ commands' \in Seq(Commands) /\ Len(commands') <= COMMAND_QUEUE
           /\ commands' = Append(commands, Command(op, r)) /\ Command(op, r) \in Commands
<1>1. commands \in Seq(Commands) /\ Len(commands) \in Nat /\ Len(commands) < COMMAND_QUEUE
  BY DEF ListenerTyped, Sent, Room
<1>2. Command(op, r) \in Commands
  BY DEF Command, Commands, Regs
<1>3. commands' = Append(commands, Command(op, r))
  BY DEF Sent
<1> QED
  BY <1>1, <1>2, <1>3, ListenerAssumption

LEMMA TaskEndsFits ==
    ASSUME ListenerTyped, NEW rs, TaskEnds(rs)
    PROVE  /\ guarded' \in SUBSET Regs /\ leaving' \in SUBSET Regs
           /\ IsFiniteSet(guarded') /\ IsFiniteSet(leaving')
<1>1. /\ guarded \in SUBSET Regs /\ leaving \in SUBSET Regs
      /\ IsFiniteSet(guarded) /\ IsFiniteSet(leaving)
      /\ guarded' = guarded \ rs /\ leaving' = leaving \cup (guarded \cap rs)
  BY DEF ListenerTyped, TaskEnds
<1>2. IsFiniteSet(guarded')
  <2>1. guarded' \in SUBSET guarded
    BY <1>1
  <2> QED
    BY <1>1, <2>1, FS_Subset
<1>3. IsFiniteSet(leaving')
  <2>1. guarded \cap rs \in SUBSET guarded
    OBVIOUS
  <2>2. IsFiniteSet(guarded \cap rs)
    BY <1>1, <2>1, FS_Subset
  <2> QED
    BY <1>1, <2>2, FS_Union
<1> QED
  BY <1>1, <1>2, <1>3

LEMMA CommandsHead ==
    ASSUME ListenerTyped, commands # <<>>
    PROVE  /\ Head(commands) \in Commands /\ Tail(commands) \in Seq(Commands)
           /\ Len(commands) \in Nat \ {0} /\ Len(Tail(commands)) = Len(commands) - 1
           /\ Head(commands) = commands[1]
           /\ \A i \in 1 .. Len(commands) - 1 : Tail(commands)[i] = commands[i + 1]
<1>1. commands \in Seq(Commands)
  BY DEF ListenerTyped
<1>2. Len(commands) \in Nat \ {0}
  BY <1>1
<1>3. Head(commands) = commands[1]
  BY <1>1
<1> QED
  BY <1>1, <1>2, <1>3, HeadTailProperties

LEMMA ListenerEmpty ==
    ASSUME listener = <<>>, commands = <<>>, guarded = {}, leaving = {}
    PROVE  ListenerTyped
<1>1. listener \in [{} -> Nat]
  OBVIOUS
<1>2. commands \in Seq(Commands) /\ Len(commands) = 0
  OBVIOUS
<1>3. {} \in SUBSET Names /\ IsFiniteSet({})
  BY FS_EmptySet
<1> QED
  BY <1>1, <1>2, <1>3, ListenerAssumption DEF ListenerTyped

LEMMA ListenerEmptyNext ==
    (listener = <<>> /\ commands = <<>> /\ guarded = {} /\ leaving = {} => ListenerTyped)'
BY ListenerEmpty, PTL

LEMMA HandleCommandTyped == ASSUME ListenerTyped, HandleCommand PROVE ListenerTyped'
<1> DEFINE c == Head(commands)
<1>1. c \in Commands /\ Tail(commands) \in Seq(Commands) /\ Len(Tail(commands)) <= COMMAND_QUEUE
      /\ commands' = Tail(commands)
  <2>1. commands # <<>> /\ commands' = Tail(commands)
    BY DEF HandleCommand
  <2>2. Len(commands) \in Nat /\ Len(commands) <= COMMAND_QUEUE
    BY DEF ListenerTyped
  <2>3. c \in Commands /\ Tail(commands) \in Seq(Commands) /\ Len(Tail(commands)) = Len(commands) - 1
    BY <2>1, CommandsHead
  <2> QED
    BY <2>1, <2>2, <2>3, ListenerAssumption
<1>2. PICK D \in SUBSET Names : IsFiniteSet(D) /\ listener \in [D -> Nat]
  BY DEF ListenerTyped
<1>3. DOMAIN listener = D /\ c.name \in Names /\ c.token \in Nat
  BY <1>1, <1>2 DEF Commands
<1>4. \/ /\ listener' = [name \in DOMAIN listener \cup {c.name} |->
                            IF name = c.name THEN c.token ELSE listener[name]]
         /\ TaskEnds({r \in Entered : r.name = c.name})
      \/ /\ listener' = [name \in DOMAIN listener \ {c.name} |-> listener[name]]
         /\ TaskEnds({r \in Entered : r.name = c.name})
      \/ UNCHANGED <<listener, guarded, leaving>>
  BY DEF HandleCommand
<1> HIDE DEF c
<1>5. \E E \in SUBSET Names : IsFiniteSet(E) /\ listener' \in [E -> Nat]
  <2>1. CASE listener' = [name \in DOMAIN listener \cup {c.name} |->
                            IF name = c.name THEN c.token ELSE listener[name]]
    <3>1. D \cup {c.name} \in SUBSET Names /\ listener' \in [D \cup {c.name} -> Nat]
      BY <1>2, <1>3, <2>1
    <3>2. IsFiniteSet(D \cup {c.name})
      BY <1>2, FS_AddElement
    <3> QED
      BY <3>1, <3>2
  <2>2. CASE listener' = [name \in DOMAIN listener \ {c.name} |-> listener[name]]
    <3>1. D \ {c.name} \in SUBSET Names /\ listener' \in [D \ {c.name} -> Nat]
      BY <1>2, <1>3, <2>2
    <3>2. IsFiniteSet(D \ {c.name})
      BY <1>2, FS_RemoveElement
    <3> QED
      BY <3>1, <3>2
  <2>3. CASE UNCHANGED listener
    BY <1>2, <2>3
  <2> QED
    BY <1>4, <2>1, <2>2, <2>3
<1>6. /\ guarded' \in SUBSET Regs /\ leaving' \in SUBSET Regs
      /\ IsFiniteSet(guarded') /\ IsFiniteSet(leaving')
  <2>1. CASE TaskEnds({r \in Entered : r.name = c.name})
    BY <2>1, TaskEndsFits
  <2>2. CASE UNCHANGED <<guarded, leaving>>
    BY <2>2 DEF ListenerTyped
  <2> QED
    BY <1>4, <2>1, <2>2
<1> QED
  BY <1>1, <1>5, <1>6 DEF ListenerTyped

LEMMA GuardDropsTyped ==
    ASSUME ListenerTyped, NEW r \in leaving, GuardDrops(r) PROVE ListenerTyped'
<1>1. r \in Regs /\ leaving' = leaving \ {r} /\ UNCHANGED <<listener, guarded>>
  BY DEF GuardDrops, ListenerTyped
<1>2. commands' \in Seq(Commands) /\ Len(commands') <= COMMAND_QUEUE
  <2>1. CASE Sent("unregister", r)
    BY <1>1, <2>1, SentFits
  <2>2. CASE UNCHANGED commands
    BY <2>2 DEF ListenerTyped
  <2> QED
    BY <2>1, <2>2 DEF GuardDrops
<1>3. leaving' \in SUBSET Regs /\ IsFiniteSet(leaving')
  <2>1. leaving' \in SUBSET leaving /\ IsFiniteSet(leaving) /\ leaving \in SUBSET Regs
    BY <1>1 DEF ListenerTyped
  <2> QED
    BY <2>1, FS_Subset
<1> QED
  BY <1>1, <1>2, <1>3 DEF ListenerTyped

LEMMA InjectTyped == ASSUME ListenerTyped, Inject PROVE ListenerTyped'
<1>1. Registration("any", 0) \in Regs
  BY DEF Registration, Regs, Names
<1>2. commands' \in Seq(Commands) /\ Len(commands') <= COMMAND_QUEUE
  BY <1>1, SentFits DEF Inject
<1> QED
  BY <1>2 DEF ListenerTyped, Inject

LEMMA RegisterTyped ==
    ASSUME ListenerTyped, NEW r \in Regs, Register(r) PROVE ListenerTyped'
<1>1. commands' \in Seq(Commands) /\ Len(commands') <= COMMAND_QUEUE
  BY SentFits DEF Register
<1>2. guarded' = guarded \cup {r} /\ UNCHANGED <<listener, leaving>>
  BY DEF Register
<1>3. guarded' \in SUBSET Regs /\ IsFiniteSet(guarded')
  BY <1>2, FS_AddElement DEF ListenerTyped
<1> QED
  BY <1>1, <1>2, <1>3 DEF ListenerTyped

LEMMA LeaveTyped == ASSUME ListenerTyped, NEW r, Leave(r) PROVE ListenerTyped'
<1>1. TaskEnds({r}) /\ UNCHANGED <<listener, commands>>
  BY DEF Leave
<1> QED
  BY <1>1, TaskEndsFits DEF ListenerTyped

LEMMA ListenerUntouched == ASSUME ListenerTyped, UNCHANGED listening PROVE ListenerTyped'
BY DEF ListenerTyped, listening

(* The registration a client is added with.                                *)
LEMMA NewRegistration ==
    ASSUME PairingTyped, ListenerTyped, changes # <<>>
    PROVE  Registration(Name(Head(changes).peer), FreshToken) \in Regs
BY ChangesHead, FreshIs DEF Registration, Regs, Names, Name

-----------------------------------------------------------------------------
(* With the types of the port, from which a new token is fresh.            *)
PeersIInv == PhonesIInv /\ ListenerTyped

LEMMA PeersInit == PairingInit => PeersIInv
<1> SUFFICES ASSUME PairingInit PROVE PeersIInv
  OBVIOUS
<1>1. ListenerTyped
  BY ListenerEmpty DEF PairingInit, ListenerInit
<1> QED
  BY <1>1, PhonesInit DEF PeersIInv

LEMMA PeersNext == PeersIInv /\ [PairingNext]_pairingVars => PeersIInv'
<1> SUFFICES ASSUME PhonesIInv, ListenerTyped, [PairingNext]_pairingVars
             PROVE  PhonesIInv' /\ ListenerTyped'
  BY DEF PeersIInv
<1>0. PairingTyped
  BY DEF PhonesIInv
<1>1. ASSUME NEW c \in Tray, PairAgain(c) PROVE PhonesIInv' /\ ListenerTyped'
  BY <1>1, StepPairAgain, ListenerUntouched DEF PairAgain
<1>2. ASSUME NEW c \in Tray, Pair(c) PROVE PhonesIInv' /\ ListenerTyped'
  BY <1>2, StepPair, ListenerUntouched DEF Pair
<1>3. ASSUME NEW c \in Tray, Paired(c) PROVE PhonesIInv' /\ ListenerTyped'
  BY <1>3, StepPaired, ListenerUntouched DEF Paired
<1>4. ASSUME NEW c \in Tray, RemovePeer(c) PROVE PhonesIInv' /\ ListenerTyped'
  <2>1. UNCHANGED listening \/ \E r : Leave(r)
    BY <1>4 DEF RemovePeer, TakeOut
  <2> QED
    BY <1>4, <2>1, StepRemovePeer, ListenerUntouched, LeaveTyped
<1>5. ASSUME NEW c \in Caller, Saves(c) PROVE PhonesIInv' /\ ListenerTyped'
  <2>1. UNCHANGED listening
    BY <1>5 DEF Saves, SaveLocked, Copy, Write
  <2> QED
    BY <1>5, <2>1, StepSaveLocked, StepCopy, StepWrite, ListenerUntouched DEF Saves
<1>6. ASSUME Housekeeping PROVE PhonesIInv' /\ ListenerTyped'
  BY <1>6, StepHousekeeping, ListenerUntouched DEF Housekeeping
<1>7. ASSUME NEW i \in DOMAIN entries, GoesLive(i) \/ TermEnds(i) PROVE PhonesIInv' /\ ListenerTyped'
  <2>1. UNCHANGED listening
    BY <1>7 DEF GoesLive, TermEnds
  <2> QED
    BY <1>7, <2>1, StepPhone, ListenerUntouched
<1>8. ASSUME NEW list \in SUBSET Client, Edit(list) PROVE PhonesIInv' /\ ListenerTyped'
  BY <1>8, StepEdit, ListenerUntouched DEF Edit
<1>9. ASSUME Poll PROVE PhonesIInv' /\ ListenerTyped'
  BY <1>9, StepPoll, ListenerUntouched DEF Poll
<1>10. ASSUME ApplyAdd PROVE PhonesIInv' /\ ListenerTyped'
  <2>1. changes # <<>> /\ Register(Registration(Name(Head(changes).peer), FreshToken))
    BY <1>10 DEF ApplyAdd
  <2> QED
    BY <1>0, <1>10, <2>1, StepApplyAdd, NewRegistration, RegisterTyped
<1>11. ASSUME Added PROVE PhonesIInv' /\ ListenerTyped'
  BY <1>11, StepAdded, ListenerUntouched DEF Added
<1>12. ASSUME ApplyRemove PROVE PhonesIInv' /\ ListenerTyped'
  <2>1. UNCHANGED listening \/ \E r : Leave(r)
    BY <1>12 DEF ApplyRemove, TakeOut, listening
  <2> QED
    BY <1>12, <2>1, StepApplyRemove, ListenerUntouched, LeaveTyped
<1>13. ASSUME AtTheListener PROVE PhonesIInv' /\ ListenerTyped'
  <2>1. PhonesIInv'
    BY <1>13, PhonesUntouched DEF AtTheListener, watch, history
  <2>2. ListenerTyped'
    BY <1>13, HandleCommandTyped, InjectTyped, GuardDropsTyped DEF AtTheListener
  <2> QED
    BY <2>1, <2>2
<1>14. ASSUME Restart PROVE PhonesIInv' /\ ListenerTyped'
  <2>1. ListenerTyped'
    BY <1>14, ListenerEmptyNext DEF Restart
  <2> QED
    BY <1>14, <2>1, StepRestart
<1>15. ASSUME UNCHANGED pairingVars PROVE PhonesIInv' /\ ListenerTyped'
  BY <1>15, PhonesUntouched, ListenerUntouched DEF pairingVars, watch, history
<1> QED
  BY <1>1, <1>2, <1>3, <1>4, <1>5, <1>6, <1>7, <1>8, <1>9, <1>10, <1>11, <1>12, <1>13, <1>14, <1>15
  DEF PairingNext

LEMMA PeersIInvHolds == PairingSpec => []PeersIInv
BY PeersInit, PeersNext, PTL DEF PairingSpec

(* The package handed out leads to an entry of the list until its term ends *)
(* or it is removed: no pairing replaces it, no older term takes it out      *)
(* (service.rs:174-175, hp-router/main.rs, create_pairing).                  *)
THEOREM PackagesAreServedHolds == PairingSpec => []PackagesAreServed
<1>1. PeersIInv => PackagesAreServed
  BY DEF PeersIInv, PhonesIInv
<1> QED
  BY <1>1, PeersIInvHolds, PTL

(* Between saves the file lists the paired phones and no others, unless two  *)
(* savers held copies at once (service.rs, save_paired).                     *)
THEOREM FileFollowsListHolds == PairingSpec => []FileFollowsList
<1>1. PeersIInv => FileFollowsList
  <2> SUFFICES ASSUME FileFits, ~Saving, ~overlapped
               PROVE  file = Lines(entries)
    BY DEF PeersIInv, PhonesIInv, FileFollowsList
  <2>1. \A c \in Caller : doing[c].step # "saving" /\ ~Writing(c)
    BY DEF Saving, Writing
  <2> QED
    BY <2>1 DEF FileFits
<1> QED
  BY <1>1, PeersIInvHolds, PTL

(* Only entries of clients.txt carry a GUID of a client, calls stay in their *)
(* steps, and the channel to the port never exceeds its capacity.            *)
THEOREM PairingTypeCorrect == PairingSpec => []PairingTypeOK
<1>1. PeersIInv => PairingTypeOK
  <2> SUFFICES ASSUME PairingTyped, KindsFit, ListenerTyped
               PROVE  PairingTypeOK
    BY DEF PeersIInv, PhonesIInv
  <2>1. \A i \in DOMAIN entries : entries[i].origin \in {"settings", "paired", "pending", "file"}
    <3>1. \A i \in DOMAIN entries : entries[i] \in Entries
      BY DEF PairingTyped
    <3> QED
      BY <3>1 DEF Entries
  <2>2. \A c \in Caller : doing[c].step \in {"idle", "creating", "adding", "saving", "writing"}
    <3> TAKE c \in Caller
    <3>1. doing[c] \in Calls
      BY DEF PairingTyped
    <3> QED
      BY <3>1 DEF Calls, NoCall
  <2> QED
    BY <2>1, <2>2 DEF PairingTyped, KindsFit, ListenerTyped, PairingTypeOK
<1> QED
  BY <1>1, PeersIInvHolds, PTL

-----------------------------------------------------------------------------
(* The clients of a VPS server.                                            *)

LEMMA ServedIs ==
    ASSUME PairingTyped, KindsFit, ~Pairs
    PROVE  /\ Served \in Seq(Entries)
           /\ \A i \in DOMAIN Served :
                 Served[i].peer \in Client /\ Served[i].token \in Nat /\ Served[i].origin = "file"
           /\ Adding => /\ Served = Append(entries, InWork) /\ InWork \in Entries
                        /\ InWork.peer = doing["changes"].peer /\ InWork.token = doing["changes"].token
           /\ ~Adding => Served = entries
           /\ DOMAIN entries \subseteq DOMAIN Served
           /\ \A i \in DOMAIN entries : Served[i] = entries[i]
<1>1. /\ entries \in Seq(Entries)
      /\ \A i \in DOMAIN entries :
            entries[i] \in Entries /\ entries[i].peer \in Client /\ entries[i].origin = "file"
  BY DEF PairingTyped, KindsFit
<1>2. CASE ~Adding
  <2>1. Served = entries
    BY <1>2 DEF Served
  <2>2. \A i \in DOMAIN entries : entries[i].token \in Nat
    BY <1>1 DEF Entries
  <2> QED
    BY <1>1, <1>2, <2>1, <2>2
<1>3. CASE Adding
  <2>0. "changes" \in Caller
    BY DEF Caller
  <2>1. doing["changes"].peer \in Client /\ doing["changes"].token \in Nat
    BY <1>3, <2>0, CallIs DEF Adding
  <2>2. /\ InWork \in Entries /\ InWork.peer = doing["changes"].peer /\ InWork.origin = "file"
        /\ InWork.token = doing["changes"].token
    <3>1. \A p \in Client, t \in Nat :
            LET e == [Entry(p, 0, "file") EXCEPT !.token = t] IN
               e \in Entries /\ e.peer = p /\ e.origin = "file" /\ e.token = t
      BY DEF Entry, Entries
    <3> QED
      BY <2>1, <3>1 DEF InWork
  <2>3. Served = Append(entries, InWork)
    BY <1>3 DEF Served
  <2> DEFINE n == Len(entries)
  <2>4. n \in Nat /\ DOMAIN entries = 1 .. n
    BY <1>1
  <2>5. /\ Served \in Seq(Entries) /\ DOMAIN Served = 1 .. n + 1 /\ Served[n + 1] = InWork
        /\ \A i \in 1 .. n : Served[i] = entries[i]
    BY <1>1, <2>2, <2>3
  <2> HIDE DEF n
  <2>6. \A i \in DOMAIN Served : i = n + 1 \/ i \in DOMAIN entries
    BY <2>4, <2>5
  <2>7. \A i \in DOMAIN entries : entries[i].token \in Nat
    BY <1>1 DEF Entries
  <2> QED
    BY <1>1, <1>3, <2>1, <2>2, <2>3, <2>4, <2>5, <2>6, <2>7
<1> QED
  BY <1>2, <1>3

LEMMA ServedIsNext ==
    (PairingTyped /\ KindsFit /\ ~Pairs =>
        /\ Served \in Seq(Entries)
        /\ \A i \in DOMAIN Served :
              Served[i].peer \in Client /\ Served[i].token \in Nat /\ Served[i].origin = "file")'
<1>1. PairingTyped /\ KindsFit /\ ~Pairs =>
        /\ Served \in Seq(Entries)
        /\ \A i \in DOMAIN Served :
              Served[i].peer \in Client /\ Served[i].token \in Nat /\ Served[i].origin = "file"
  BY ServedIs
<1> QED
  BY <1>1, PTL

(* A step the clients have no part in.                                     *)
LEMMA ChangesUntouched ==
    ASSUME ChangesFit, UNCHANGED <<program, Served, known, changes, dismissed>>,
           ~Pairs => \A a, b \in clients' : NameOf[a] = NameOf[b] => a = b
    PROVE  ChangesFit'
<1>1. Pairs' = Pairs
  BY DEF Pairs
<1>2. ASSUME NEW V, LeadsToKnown(Served, V) PROVE LeadsToKnown(Served, V)'
  <2>1. Served' = Served /\ known' = known /\ changes' = changes
    OBVIOUS
  <2>2. ASSUME NEW x, NEW y, NEW i, Elder(Served, V, x, y, i)
        PROVE  Elder(Served, V, x, y, i)'
    BY <2>1, <2>2 DEF Elder
  <2>3. ASSUME NEW i, StepOf(Served, V, i)
        PROVE  StepOf(Served, V, i)'
    BY <2>1, <2>2, <2>3 DEF StepOf
  <2> QED
    BY <1>2, <2>1, <2>3 DEF LeadsToKnown
<1> QED
  BY <1>1, <1>2 DEF ChangesFit

LEMMA TokensUntouched ==
    ASSUME TokensFit, UNCHANGED <<program, Served, listening>>
    PROVE  TokensFit'
<1>1. Pairs' = Pairs /\ Entered' = Entered
  BY DEF Pairs, Entered, listening
<1>2. ASSUME NEW r, LatestFits(r) PROVE LatestFits(r)'
  BY <1>1, <1>2 DEF LatestFits, Asks, Rival, listening
<1>3. \A i \in DOMAIN Served : NewestOf(Served, i)' => NewestOf(Served, i)
  BY DEF NewestOf
<1> QED
  BY <1>1, <1>2, <1>3 DEF TokensFit, RegOf

LEMMA ChangesEmpty ==
    ASSUME DOMAIN entries = {}, changes = <<>>, known = {}, ~Adding,
           \A a, b \in clients : NameOf[a] = NameOf[b] => a = b
    PROVE  ChangesFit /\ TokensFit
<1>1. Served = entries
  BY DEF Served
<1>2. TokensFit
  BY <1>1 DEF TokensFit
<1>3. LeadsToKnown(Served, [k \in 0 .. 0 |-> {}]) /\ Len(changes) = 0
  BY <1>1 DEF LeadsToKnown, Peers
<1>4. [k \in 0 .. 0 |-> {}] \in [0 .. Len(changes) -> SUBSET Client]
  BY <1>3
<1>5. ChangesFit
  BY <1>1, <1>3, <1>4 DEF ChangesFit
<1> QED
  BY <1>2, <1>5

LEMMA ChangesEmptyNext ==
    (/\ DOMAIN entries = {} /\ changes = <<>> /\ known = {} /\ ~Adding
     /\ (\A a, b \in clients : NameOf[a] = NameOf[b] => a = b)
     => ChangesFit /\ TokensFit)'
BY ChangesEmpty, PTL

(* The head of the changes is applied: what is left leads on from there.   *)
Applies(list, V, new, W) ==
    /\ new = Served' /\ changes # <<>> /\ changes' = Tail(changes) /\ known' = known
    /\ V \in [0 .. Len(changes) -> SUBSET Client] /\ LeadsToKnown(list, V)
    /\ W = [k \in 0 .. Len(changes) - 1 |-> V[k + 1]]

LEMMA ChangesApplied ==
    ASSUME PairingTyped, NEW list, NEW V, NEW new, NEW W, Applies(list, V, new, W),
           Peers(new) = V[1],
           \A x, y \in V[1] : Goes(list, x, y) => Goes(new, x, y),
           Head(changes).op = "add" =>
               \A x \in V[0] : x # Head(changes).peer => Goes(new, x, Head(changes).peer)
    PROVE  W \in [0 .. Len(changes') -> SUBSET Client] /\ LeadsToKnown(new, W)'
<1> DEFINE n == Len(changes) - 1
<1>1. /\ n \in Nat /\ Len(changes) = n + 1 /\ Len(changes') = n
      /\ Head(changes) = changes[1] /\ \A i \in 1 .. n : changes'[i] = changes[i + 1]
  BY ChangesHead DEF Applies
<1> HIDE DEF n
<1>2. /\ V \in [0 .. n + 1 -> SUBSET Client] /\ W = [k \in 0 .. n |-> V[k + 1]]
      /\ V[0] = Peers(list) /\ V[n + 1] = known /\ \A i \in 1 .. n + 1 : StepOf(list, V, i)
  BY <1>1 DEF Applies, LeadsToKnown
<1>3. \A k \in 0 .. n : W[k] = V[k + 1] /\ k + 1 \in 0 .. n + 1
  BY <1>1, <1>2
<1>4. W \in [0 .. n -> SUBSET Client]
  BY <1>1, <1>2, <1>3
<1>5. W[0] = Peers(new) /\ W[n] = known
  BY <1>1, <1>2, <1>3
<1>6. ASSUME NEW i \in 1 .. n, NEW x, NEW y, x # y, Elder(list, V, x, y, i + 1)
      PROVE  Elder(new, W, x, y, i)'
  <2>0. i \in Nat /\ i >= 1
    BY <1>1
  <2>1. PICK j \in 0 .. i :
          /\ \A k \in j .. i : x \in V[k] /\ y \in V[k]
          /\ j = 0 => Goes(list, x, y)
          /\ j > 0 => changes[j].op = "add" /\ changes[j].peer = y /\ x \in V[j - 1]
    <3>1. i + 1 - 1 = i
      BY <2>0
    <3> QED
      BY <1>6, <3>1 DEF Elder
  <2>2. \A k \in 0 .. i - 1 : k + 1 >= j => x \in W[k] /\ y \in W[k]
    <3> TAKE k \in 0 .. i - 1
    <3> HAVE k + 1 >= j
    <3>1. k + 1 \in j .. i /\ k \in 0 .. n
      BY <1>1, <2>0
    <3> QED
      BY <1>3, <2>1, <3>1
  <2>3. CASE j > 1
    <3>1. /\ j - 1 \in 0 .. i - 1 /\ j - 1 > 0 /\ j - 1 \in 1 .. n /\ j - 1 + 1 = j
          /\ j - 2 \in 0 .. n /\ j - 2 + 1 = j - 1 /\ j - 1 - 1 = j - 2
      BY <1>1, <2>0, <2>3
    <3>2. changes'[j - 1] = changes[j] /\ W[j - 1 - 1] = V[j - 1]
      BY <1>1, <1>3, <3>1
    <3>3. \A k \in j - 1 .. i - 1 : x \in W[k] /\ y \in W[k]
      BY <2>0, <2>2, <3>1
    <3> QED
      BY <2>1, <2>3, <3>1, <3>2, <3>3 DEF Elder
  <2>4. CASE j <= 1
    <3>1. \A k \in 0 .. i - 1 : x \in W[k] /\ y \in W[k]
      BY <2>0, <2>2, <2>4
    <3>2. x \in V[1] /\ y \in V[1]
      <4>1. 0 \in 0 .. i - 1 /\ 0 \in 0 .. n /\ 0 + 1 = 1
        BY <1>1, <2>0
      <4> QED
        BY <1>3, <3>1, <4>1
    <3>3. Goes(new, x, y)
      <4>1. CASE j = 0
        BY <2>1, <3>2, <4>1
      <4>2. CASE j = 1
        <5>1. changes[1].op = "add" /\ changes[1].peer = y /\ x \in V[0]
          BY <2>1, <4>2
        <5> QED
          BY <1>1, <1>6, <5>1
      <4> QED
        BY <2>4, <4>1, <4>2
    <3>4. 0 \in 0 .. i - 1
      BY <2>0
    <3> QED
      BY <3>1, <3>3, <3>4 DEF Elder
  <2> QED
    BY <2>0, <2>3, <2>4
<1>7. ASSUME NEW i \in 1 .. n PROVE StepOf(new, W, i)'
  <2>0. PICK x : x = changes[i + 1].peer
    OBVIOUS
  <2>1. /\ i + 1 \in 1 .. n + 1 /\ i + 1 - 1 = i /\ i - 1 \in 0 .. n /\ i - 1 + 1 = i
        /\ changes'[i] = changes[i + 1] /\ W[i] = V[i + 1] /\ W[i - 1] = V[i]
    BY <1>1, <1>3
  <2>2. StepOf(list, V, i + 1)
    BY <1>2, <2>1
  <2>5. changes'[i].peer = x
    BY <2>0, <2>1
  <2>3. CASE changes[i + 1].op = "add" /\ x \notin V[i] /\ V[i + 1] = V[i] \cup {x}
    BY <2>1, <2>3, <2>5 DEF StepOf
  <2>4. CASE /\ changes[i + 1].op = "remove" /\ x \in V[i] /\ V[i + 1] = V[i] \ {x}
             /\ \A y \in V[i] : y # x /\ NameOf[y] = NameOf[x] => Elder(list, V, x, y, i + 1)
    <3>1. \A y \in V[i] : y # x /\ NameOf[y] = NameOf[x] => Elder(new, W, x, y, i)'
      BY <1>6, <2>4
    <3> QED
      BY <2>1, <2>4, <2>5, <3>1 DEF StepOf
  <2> QED
    BY <2>0, <2>1, <2>2, <2>3, <2>4 DEF StepOf
<1> QED
  BY <1>1, <1>4, <1>5, <1>7 DEF LeadsToKnown, Applies

(* The client that is added is served after all others.                    *)
LEMMA ChangesApplyAdd ==
    ASSUME PhonesIInv, ListenerTyped, ChangesFit, ApplyAdd
    PROVE  ChangesFit'
<1>0. PairingTyped /\ KindsFit /\ PairingTyped' /\ KindsFit'
  BY StepApplyAdd DEF PhonesIInv
<1>1. /\ changes # <<>> /\ changes' = Tail(changes) /\ ~Adding /\ Head(changes).op = "add"
      /\ doing' = [doing EXCEPT !["changes"] =
                      [step |-> "adding", peer |-> Head(changes).peer, token |-> FreshToken]]
      /\ UNCHANGED <<program, entries, clients, known, dismissed>>
  BY DEF ApplyAdd, AtRest, Adding, NoCall, Paused, history
<1>2. ~Pairs
  BY <1>0, <1>1 DEF KindsFit
<1>3. Served = entries
  BY <1>1 DEF Served
<1> DEFINE x == Head(changes).peer
<1>4. Adding' /\ doing'["changes"].peer = x
  BY <1>0, <1>1 DEF Adding, PairingTyped, Caller
<1>5. PICK new : new = Served'
  OBVIOUS
<1> DEFINE n == Len(entries)
<1>6. n \in Nat /\ DOMAIN entries = 1 .. n /\ entries \in Seq(Entries)
  BY <1>0 DEF PairingTyped
<1>7. /\ DOMAIN new = 1 .. n + 1 /\ new[n + 1].peer = x
      /\ \A i \in 1 .. n : new[i] = entries[i]
  <2>1. new = Append(entries, InWork')
    BY <1>1, <1>4, <1>5 DEF Served
  <2>2. InWork'.peer = x
    <3>1. \A p, t : [Entry(p, 0, "file") EXCEPT !.token = t].peer = p
      BY DEF Entry
    <3> QED
      BY <1>4, <3>1 DEF InWork
  <2> QED
    BY <1>6, <2>1, <2>2
<1> HIDE DEF n
<1>8. SUFFICES ASSUME ~dismissed
               PROVE  /\ \A i, j \in DOMAIN new : new[i].peer = new[j].peer => i = j
                      /\ \E V \in [0 .. Len(changes') -> SUBSET Client] : LeadsToKnown(new, V)'
  BY <1>1, <1>2, <1>5 DEF ChangesFit, Pairs
<1>9. PICK V \in [0 .. Len(changes) -> SUBSET Client] : LeadsToKnown(entries, V)
  BY <1>2, <1>3, <1>8 DEF ChangesFit
<1>10. \A i, j \in DOMAIN entries : entries[i].peer = entries[j].peer => i = j
  BY <1>2, <1>3, <1>8 DEF ChangesFit
<1>11. V[0] = Peers(entries) /\ x \notin V[0] /\ V[1] = V[0] \cup {x}
  <2>1. 1 \in 1 .. Len(changes) /\ changes[1] = Head(changes) /\ 1 - 1 = 0
    BY <1>0, <1>1, ChangesHead
  <2>2. StepOf(entries, V, 1) /\ V[0] = Peers(entries)
    BY <1>9, <2>1 DEF LeadsToKnown
  <2> QED
    BY <1>1, <2>1, <2>2 DEF StepOf
<1>12. \A i \in DOMAIN entries : entries[i].peer # x
  BY <1>11 DEF Peers
<1>13. \A i \in DOMAIN new : i = n + 1 \/ (i \in DOMAIN entries /\ new[i] = entries[i])
  BY <1>6, <1>7
<1>14. \A i, j \in DOMAIN new : new[i].peer = new[j].peer => i = j
  BY <1>7, <1>10, <1>12, <1>13
<1>15. n + 1 \in DOMAIN new /\ \A i \in DOMAIN entries : i \in DOMAIN new /\ new[i] = entries[i] /\ i < n + 1
  BY <1>6, <1>7
<1>16. Peers(new) = V[1]
  BY <1>7, <1>11, <1>13, <1>15 DEF Peers
<1>17. \A u, v \in V[1] : Goes(entries, u, v) => Goes(new, u, v)
  BY <1>15 DEF Goes
<1>18. \A u \in V[0] : u # x => Goes(new, u, x)
  <2> TAKE u \in V[0]
  <2>1. PICK i \in DOMAIN entries : entries[i].peer = u
    BY <1>11 DEF Peers
  <2>2. i \in DOMAIN new /\ new[i].peer = u /\ i < n + 1
    BY <1>15, <2>1
  <2> QED
    BY <1>7, <1>15, <2>2 DEF Goes
<1>19. PICK W : W = [k \in 0 .. Len(changes) - 1 |-> V[k + 1]]
  OBVIOUS
<1>20. Applies(entries, V, new, W)
  BY <1>1, <1>5, <1>9, <1>19 DEF Applies
<1>21. W \in [0 .. Len(changes') -> SUBSET Client] /\ LeadsToKnown(new, W)'
  BY <1>0, <1>16, <1>17, <1>18, <1>20, ChangesApplied
<1> QED
  BY <1>14, <1>21

LEMMA ChangesAdded == ASSUME PhonesIInv, Added PROVE Served' = Served
<1>0. PairingTyped /\ KindsFit
  BY DEF PhonesIInv
<1>1. /\ Adding /\ doing' = [doing EXCEPT !["changes"] = NoCall]
      /\ entries' = Append(entries, InWork)
  BY <1>0, AddedIs
<1>2. ~Adding'
  BY <1>0, <1>1 DEF Adding, NoCall, PairingTyped, Caller
<1> QED
  BY <1>1, <1>2 DEF Served

(* The removed one is the client of the change, also when another has the   *)
(* same name.                                                              *)
LEMMA ChangesApplyRemove ==
    ASSUME PhonesIInv, ChangesFit, ApplyRemove
    PROVE  ChangesFit'
<1>0. PairingTyped /\ KindsFit /\ PairingTyped' /\ KindsFit'
  BY StepApplyRemove DEF PhonesIInv
<1> DEFINE x == Head(changes).peer
           k == Named(Name(x))
<1>1. /\ changes # <<>> /\ changes' = Tail(changes) /\ ~Adding /\ Head(changes).op = "remove"
      /\ UNCHANGED <<program, clients, known, dismissed>>
  BY DEF ApplyRemove, AtRest, Adding, NoCall
<1>2. \/ /\ k # 0 /\ entries' = RemoveAt(entries, k)
         /\ doing' = [doing EXCEPT !["changes"] = [step |-> "saving"]]
      \/ k = 0 /\ UNCHANGED <<entries, doing>>
  BY DEF ApplyRemove, TakeOut, Paused
<1>3. ~Pairs
  BY <1>0, <1>1 DEF KindsFit
<1>4. ~Adding' /\ Served = entries /\ Served' = entries'
  <2>1. ~Adding'
    BY <1>0, <1>1, <1>2 DEF Adding, PairingTyped, Caller
  <2> QED
    BY <1>1, <2>1 DEF Served
<1>5. SUFFICES ASSUME ~dismissed
               PROVE  /\ \A i, j \in DOMAIN entries' : entries'[i].peer = entries'[j].peer => i = j
                      /\ \E V \in [0 .. Len(changes') -> SUBSET Client] : LeadsToKnown(entries, V)'
  BY <1>1, <1>3, <1>4 DEF ChangesFit, Pairs
<1>6. PICK V \in [0 .. Len(changes) -> SUBSET Client] : LeadsToKnown(entries, V)
  BY <1>3, <1>4, <1>5 DEF ChangesFit
<1>7. \A i, j \in DOMAIN entries : entries[i].peer = entries[j].peer => i = j
  BY <1>3, <1>4, <1>5 DEF ChangesFit
<1>8. /\ V[0] = Peers(entries) /\ x \in V[0] /\ V[1] = V[0] \ {x} /\ x \in Client
      /\ \A y \in V[0] : y # x /\ NameOf[y] = NameOf[x] => Goes(entries, x, y)
  <2>1. 1 \in 1 .. Len(changes) /\ changes[1] = Head(changes) /\ 1 - 1 = 0 /\ x \in Client
    BY <1>0, <1>1, ChangesHead
  <2>2. StepOf(entries, V, 1) /\ V[0] = Peers(entries)
    BY <1>6, <2>1 DEF LeadsToKnown
  <2>3. /\ x \in V[0] /\ V[1] = V[0] \ {x}
        /\ \A y \in V[0] : y # x /\ NameOf[y] = NameOf[x] => Elder(entries, V, x, y, 1)
    BY <1>1, <2>1, <2>2 DEF StepOf
  <2>4. \A y : Elder(entries, V, x, y, 1) => Goes(entries, x, y)
    <3> DEFINE z == x
    <3> SUFFICES ASSUME NEW y, NEW w, Elder(entries, V, w, y, 1)
                 PROVE  Goes(entries, w, y)
      OBVIOUS
    <3>1. PICK j \in 0 .. 1 - 1 : j = 0 => Goes(entries, w, y)
      BY DEF Elder
    <3> QED
      BY <3>1
  <2> QED
    BY <2>1, <2>2, <2>3, <2>4
<1>9. \A i \in DOMAIN entries : entries[i].peer \in Client /\ Name(entries[i].peer) = NameOf[entries[i].peer]
  BY <1>0, <1>3 DEF KindsFit, Name
<1>10. PICK a \in DOMAIN entries : entries[a].peer = x
  BY <1>8 DEF Peers
<1>11. k = a
  <2>1. Name(x) = NameOf[x] /\ Name(entries[a].peer) = Name(x)
    BY <1>8, <1>10 DEF Name
  <2>2. /\ k \in DOMAIN entries /\ Name(entries[k].peer) = Name(x) /\ k <= a
    BY <1>0, <1>10, <2>1, NamedIs
  <2> HIDE DEF k
  <2>3. entries[k].peer = x
    <3> SUFFICES ASSUME entries[k].peer # x PROVE FALSE
      OBVIOUS
    <3>1. entries[k].peer \in V[0] /\ NameOf[entries[k].peer] = NameOf[x]
      BY <1>8, <1>9, <2>1, <2>2 DEF Peers
    <3>2. Goes(entries, x, entries[k].peer)
      BY <1>8, <3>1
    <3>3. PICK b \in DOMAIN entries : \E c \in DOMAIN entries :
              b < c /\ entries[b].peer = x /\ entries[c].peer = entries[k].peer
      BY <3>2 DEF Goes
    <3>4. b = a /\ b < k
      BY <1>7, <1>10, <2>2, <3>3
    <3>5. a \in Int /\ k \in Int
      BY <1>0, <2>2 DEF PairingTyped
    <3> QED
      BY <2>2, <3>4, <3>5
  <2> QED
    BY <1>7, <1>10, <2>2, <2>3
<1> HIDE DEF k
<1> DEFINE n == Len(entries)
<1>12. n \in Nat /\ DOMAIN entries = 1 .. n /\ entries \in Seq(Entries) /\ a \in 1 .. n
  BY <1>0, <1>10 DEF PairingTyped
<1>13. entries' = RemoveAt(entries, a)
  BY <1>2, <1>11, <1>12
<1>14. PICK at :
          /\ at \in [DOMAIN entries' -> DOMAIN entries]
          /\ \A i, j \in DOMAIN entries' : i < j => at[i] < at[j]
          /\ \A i, j \in DOMAIN entries' : at[i] < at[j] => i < j
          /\ \A i \in DOMAIN entries' : entries'[i] = entries[at[i]] /\ at[i] # a
          /\ \A i \in DOMAIN entries : i # a => \E j \in DOMAIN entries' : at[j] = i
  <2>1. PICK at : Embeds(entries', entries, DOMAIN entries \ {a}, at)
    BY <1>12, <1>13, RemovedIs
  <2>2. /\ at \in [DOMAIN entries' -> DOMAIN entries]
        /\ \A i, j \in DOMAIN entries' : i < j => at[i] < at[j]
        /\ \A i \in DOMAIN entries' : entries'[i] = entries[at[i]] /\ at[i] # a
        /\ \A i \in DOMAIN entries : i # a => \E j \in DOMAIN entries' : at[j] = i
    BY <2>1 DEF Embeds
  <2>3. ASSUME NEW i \in DOMAIN entries', NEW j \in DOMAIN entries', at[i] < at[j] PROVE i < j
    <3>1. i \in Int /\ j \in Int /\ at[i] \in Int /\ at[j] \in Int
      BY <1>0, <1>12, <2>2 DEF PairingTyped
    <3>2. j < i => at[j] < at[i]
      BY <2>2
    <3> QED
      BY <2>3, <3>1, <3>2
  <2> QED
    BY <2>2, <2>3
<1> HIDE DEF n
<1>15. \A i, j \in DOMAIN entries' : entries'[i].peer = entries'[j].peer => i = j
  <2> SUFFICES ASSUME NEW i \in DOMAIN entries', NEW j \in DOMAIN entries',
                      entries'[i].peer = entries'[j].peer
               PROVE  i = j
    OBVIOUS
  <2>1. at[i] = at[j]
    BY <1>7, <1>14
  <2>2. i \in Int /\ j \in Int /\ at[i] \in Int
    BY <1>0, <1>12, <1>14 DEF PairingTyped
  <2>3. ~(i < j) /\ ~(j < i)
    BY <1>14, <2>1, <2>2
  <2> QED
    BY <2>2, <2>3
<1>16. Peers(entries') = V[1]
  <2>1. \A p \in Peers(entries') : p \in Peers(entries) /\ p # x
    <3> SUFFICES ASSUME NEW i \in DOMAIN entries'
                 PROVE  entries'[i].peer \in Peers(entries) /\ entries'[i].peer # x
      BY DEF Peers
    <3>1. at[i] \in DOMAIN entries /\ entries'[i] = entries[at[i]] /\ at[i] # a
      BY <1>14
    <3> QED
      BY <1>7, <1>10, <3>1 DEF Peers
  <2>2. \A p \in Peers(entries) : p # x => p \in Peers(entries')
    <3> SUFFICES ASSUME NEW i \in DOMAIN entries, entries[i].peer # x
                 PROVE  entries[i].peer \in Peers(entries')
      BY DEF Peers
    <3>1. PICK j \in DOMAIN entries' : at[j] = i
      BY <1>10, <1>14
    <3> QED
      BY <1>14, <3>1 DEF Peers
  <2> QED
    BY <1>8, <2>1, <2>2
<1>17. \A u, v \in V[1] : Goes(entries, u, v) => Goes(entries', u, v)
  <2> TAKE u, v \in V[1]
  <2> HAVE Goes(entries, u, v)
  <2>1. u # x /\ v # x
    BY <1>8
  <2>2. PICK b, c \in DOMAIN entries : b < c /\ entries[b].peer = u /\ entries[c].peer = v
    BY DEF Goes
  <2>3. PICK i, j \in DOMAIN entries' : at[i] = b /\ at[j] = c
    BY <1>10, <1>14, <2>1, <2>2
  <2>4. i < j /\ entries'[i].peer = u /\ entries'[j].peer = v
    BY <1>14, <2>2, <2>3
  <2> QED
    BY <2>4 DEF Goes
<1>18. PICK W, new : W = [m \in 0 .. Len(changes) - 1 |-> V[m + 1]] /\ new = entries'
  OBVIOUS
<1>19. Applies(entries, V, new, W)
  BY <1>1, <1>4, <1>6, <1>18 DEF Applies
<1>20. W \in [0 .. Len(changes') -> SUBSET Client] /\ LeadsToKnown(new, W)'
  BY <1>0, <1>1, <1>16, <1>17, <1>18, <1>19, ChangesApplied
<1>21. LeadsToKnown(entries, W)'
  BY <1>18, <1>20
<1> QED
  BY <1>15, <1>20, <1>21

(* What the watcher sends leads from what it knew to the file.             *)
LEMMA ChangesPoll == ASSUME PhonesIInv, ChangesFit, Poll PROVE ChangesFit'
<1> DEFINE C == [op : {"add", "remove"}, peer : Client]
<1>0. PairingTyped
  BY DEF PhonesIInv
<1>a. PICK A, R : A = ChangesOf("add", clients \ known) /\ R = ChangesOf("remove", known \ clients)
  OBVIOUS
<1>b. PICK n, p, q : n = Len(changes) /\ p = Len(A) /\ q = Len(R)
  OBVIOUS
<1>1. /\ ~Pairs /\ changes' = changes \o A \o R /\ known' = clients
      /\ UNCHANGED <<program, entries, doing, clients, dismissed>>
  BY <1>a DEF Poll, Pairs, history
<1>2. Served' = Served
  BY <1>1 DEF Served, Adding, InWork
<1>3. /\ changes \in Seq(C) /\ clients \ known \in SUBSET Client /\ known \ clients \in SUBSET Client
      /\ clients \in SUBSET Client /\ known \in SUBSET Client
  BY <1>0 DEF PairingTyped
<1>4. /\ A \in Seq(C) /\ \A i \in DOMAIN A : A[i].op = "add" /\ A[i].peer \in clients \ known
      /\ \A i, j \in DOMAIN A : A[i].peer = A[j].peer => i = j
      /\ \A x \in clients \ known : \E i \in DOMAIN A : A[i].peer = x
  <2> DEFINE s == ChangesOf("add", clients \ known)
  <2>1. /\ s \in Seq(C) /\ \A i \in DOMAIN s : s[i].op = "add" /\ s[i].peer \in clients \ known
        /\ \A i, j \in DOMAIN s : s[i].peer = s[j].peer => i = j
        /\ \A x \in clients \ known : \E i \in DOMAIN s : s[i].peer = x
    BY <1>3, ChangesOfAre
  <2> QED
    BY <1>a, <2>1
<1>5. /\ R \in Seq(C) /\ \A i \in DOMAIN R : R[i].op = "remove" /\ R[i].peer \in known \ clients
      /\ \A i, j \in DOMAIN R : R[i].peer = R[j].peer => i = j
      /\ \A x \in known \ clients : \E i \in DOMAIN R : R[i].peer = x
  <2> DEFINE s == ChangesOf("remove", known \ clients)
  <2>1. /\ s \in Seq(C) /\ \A i \in DOMAIN s : s[i].op = "remove" /\ s[i].peer \in known \ clients
        /\ \A i, j \in DOMAIN s : s[i].peer = s[j].peer => i = j
        /\ \A x \in known \ clients : \E i \in DOMAIN s : s[i].peer = x
    BY <1>3, ChangesOfAre
  <2> QED
    BY <1>a, <2>1
<1> HIDE DEF C
<1>6. /\ n \in Nat /\ p \in Nat /\ q \in Nat
      /\ DOMAIN A = 1 .. p /\ DOMAIN R = 1 .. q
  BY <1>3, <1>4, <1>5, <1>b
<1>7. /\ Len(changes') = n + p + q
      /\ \A i \in 1 .. n : changes'[i] = changes[i]
      /\ \A i \in 1 .. p : changes'[n + i] = A[i]
      /\ \A i \in 1 .. q : changes'[n + p + i] = R[i]
  <2> DEFINE a == changes \o A
  <2>1. a \in Seq(C) /\ Len(a) = n + p
        /\ \A i \in 1 .. n + p : a[i] = IF i <= n THEN changes[i] ELSE A[i - n]
    <3>1. changes \in Seq(C) /\ A \in Seq(C)
      BY <1>3, <1>4
    <3>2. a \in Seq(C) /\ Len(a) = Len(changes) + Len(A)
          /\ \A i \in 1 .. Len(changes) + Len(A) :
                a[i] = IF i <= Len(changes) THEN changes[i] ELSE A[i - Len(changes)]
      <4> HIDE DEF a
      <4>1. a = changes \o A
        BY DEF a
      <4> QED
        BY <3>1, <4>1, ConcatProperties
    <3> QED
      BY <1>b, <3>2
  <2> HIDE DEF a
  <2>2. Len(a \o R) = n + p + q
        /\ \A i \in 1 .. n + p + q : (a \o R)[i] = IF i <= n + p THEN a[i] ELSE R[i - (n + p)]
    <3>0. a \in Seq(C) /\ R \in Seq(C)
      BY <1>5, <2>1
    <3>1. Len(a \o R) = Len(a) + Len(R)
          /\ \A i \in 1 .. Len(a) + Len(R) : (a \o R)[i] = IF i <= Len(a) THEN a[i] ELSE R[i - Len(a)]
      BY <3>0, ConcatProperties
    <3>2. Len(a) + Len(R) = n + p + q /\ Len(a) = n + p
      BY <1>b, <2>1
    <3> QED
      BY <3>1, <3>2
  <2>3. changes' = a \o R
    BY <1>1 DEF a
  <2>4. \A i \in 1 .. n : changes'[i] = changes[i]
    BY <1>6, <2>1, <2>2, <2>3
  <2>5. \A i \in 1 .. p : changes'[n + i] = A[i]
    BY <1>6, <2>1, <2>2, <2>3
  <2>6. ASSUME NEW i \in 1 .. q
        PROVE  changes'[n + p + i] = R[i]
    <3>1. /\ n + p + i \in 1 .. n + p + q /\ ~(n + p + i <= n + p)
          /\ (n + p + i) - (n + p) = i
      BY <1>6
    <3> QED
      BY <2>2, <2>3, <3>1
  <2> QED
    BY <2>2, <2>3, <2>4, <2>5, <2>6
<1>8. SUFFICES ASSUME ~dismissed
               PROVE  \E V \in [0 .. Len(changes') -> SUBSET Client] : LeadsToKnown(Served, V)'
  BY <1>1, <1>2 DEF ChangesFit, Pairs
<1>9. PICK V \in [0 .. n -> SUBSET Client] : LeadsToKnown(Served, V)
  BY <1>1, <1>8, <1>b DEF ChangesFit
<1>10. /\ V[0] = Peers(Served) /\ V[n] = known
       /\ \A i \in 1 .. n : StepOf(Served, V, i)
  BY <1>9, <1>b DEF LeadsToKnown
<1>c. PICK W : W = [k \in 0 .. n + p + q |->
                    IF k <= n THEN V[k]
                    ELSE IF k <= n + p THEN known \cup {A[j].peer : j \in 1 .. k - n}
                    ELSE (known \cup clients) \ {R[j].peer : j \in 1 .. k - n - p}]
  OBVIOUS
<1>d. \A k \in 0 .. n + p + q :
         /\ k <= n => W[k] = V[k]
         /\ k > n /\ k <= n + p => W[k] = known \cup {A[j].peer : j \in 1 .. k - n}
         /\ k > n + p => W[k] = (known \cup clients) \ {R[j].peer : j \in 1 .. k - n - p}
  BY <1>6, <1>c
<1>11. W \in [0 .. n + p + q -> SUBSET Client]
  <2>1. ASSUME NEW k \in 0 .. n + p + q PROVE W[k] \in SUBSET Client
    <3>1. CASE k <= n
      <4>1. k \in 0 .. n /\ W[k] = V[k]
        BY <1>6, <1>d, <3>1
      <4> QED
        BY <4>1
    <3>2. CASE k > n /\ k <= n + p
      <4>1. \A j \in 1 .. k - n : A[j].peer \in Client
        BY <1>3, <1>4, <1>6, <3>2
      <4>2. W[k] = known \cup {A[j].peer : j \in 1 .. k - n}
        BY <1>d, <3>2
      <4> QED
        BY <1>3, <4>1, <4>2
    <3>3. CASE k > n + p
      <4>1. W[k] = (known \cup clients) \ {R[j].peer : j \in 1 .. k - n - p}
        BY <1>d, <3>3
      <4> QED
        BY <1>3, <4>1
    <3> QED
      BY <1>6, <3>1, <3>2, <3>3
  <2>2. DOMAIN W = 0 .. n + p + q /\ W = [k \in DOMAIN W |-> W[k]]
    BY <1>c
  <2> QED
    BY <2>1, <2>2
<1>12. \A k \in 0 .. n : W[k] = V[k]
  BY <1>6, <1>d
<1>13. \A k \in 0 .. p : W[n + k] = known \cup {A[j].peer : j \in 1 .. k}
  <2> TAKE k \in 0 .. p
  <2>1. CASE k = 0
    <3>1. n + k = n /\ n \in 0 .. n /\ 1 .. k = {}
      BY <1>6, <2>1
    <3> QED
      BY <1>10, <1>12, <3>1
  <2>2. CASE k > 0
    <3>1. PICK h : h = n + k
      OBVIOUS
    <3>2. h \in 0 .. n + p + q /\ h > n /\ h <= n + p /\ h - n = k
      BY <1>6, <2>2, <3>1
    <3>3. W[h] = known \cup {A[j].peer : j \in 1 .. h - n}
      BY <1>d, <3>2
    <3> QED
      BY <3>1, <3>2, <3>3
  <2> QED
    BY <2>1, <2>2
<1>14. known \cup {A[j].peer : j \in 1 .. p} = known \cup clients
  BY <1>4, <1>6
<1>15. \A k \in 0 .. q : W[n + p + k] = (known \cup clients) \ {R[j].peer : j \in 1 .. k}
  <2> TAKE k \in 0 .. q
  <2>1. CASE k = 0
    <3>1. p \in 0 .. p /\ n + p + k = n + p /\ 1 .. k = {}
      BY <1>6, <2>1
    <3>2. W[n + p] = known \cup clients
      BY <1>13, <1>14, <3>1
    <3> QED
      BY <3>1, <3>2
  <2>2. CASE k > 0
    <3>1. PICK h : h = n + p + k
      OBVIOUS
    <3>2. h \in 0 .. n + p + q /\ h > n + p /\ h - n - p = k
      BY <1>6, <2>2, <3>1
    <3>3. W[h] = (known \cup clients) \ {R[j].peer : j \in 1 .. h - n - p}
      BY <1>d, <3>2
    <3> QED
      BY <3>1, <3>2, <3>3
  <2> QED
    <3>1. k = 0 \/ k > 0
      BY <1>6
    <3> QED
      BY <2>1, <2>2, <3>1
<1>16. W[0] = Peers(Served) /\ W[n + p + q] = clients
  <2>1. W[0] = V[0]
    BY <1>6, <1>12
  <2>2. W[n + p + q] = (known \cup clients) \ {R[j].peer : j \in 1 .. q}
    <3>1. q \in 0 .. q
      BY <1>6
    <3> QED
      BY <1>15, <3>1
  <2>3. {R[j].peer : j \in 1 .. q} = known \ clients
    BY <1>5, <1>6
  <2> QED
    BY <1>10, <2>1, <2>2, <2>3
<1>17. ASSUME NEW i \in 1 .. n PROVE StepOf(Served, W, i)'
  <2>0. PICK x : x = changes[i].peer
    OBVIOUS
  <2>1. /\ i \in Nat /\ i - 1 \in 0 .. n /\ i \in 0 .. n
        /\ changes'[i] = changes[i] /\ W[i] = V[i] /\ W[i - 1] = V[i - 1]
    BY <1>6, <1>7, <1>12
  <2>2. StepOf(Served, V, i)
    BY <1>10
  <2>3. ASSUME NEW y, Elder(Served, V, x, y, i) PROVE Elder(Served, W, x, y, i)'
    <3>1. PICK j \in 0 .. i - 1 :
            /\ \A k \in j .. i - 1 : x \in V[k] /\ y \in V[k]
            /\ j = 0 => Goes(Served, x, y)
            /\ j > 0 => changes[j].op = "add" /\ changes[j].peer = y /\ x \in V[j - 1]
      BY <2>3 DEF Elder
    <3>2. \A k \in j .. i - 1 : x \in W[k] /\ y \in W[k]
      BY <1>6, <1>12, <2>1, <3>1
    <3>3. j > 0 => changes'[j].op = "add" /\ changes'[j].peer = y /\ x \in W[j - 1]
      BY <1>6, <1>7, <1>12, <2>1, <3>1
    <3>4. j = 0 => Goes(Served, x, y)'
      BY <1>2, <3>1 DEF Goes
    <3> QED
      BY <3>2, <3>3, <3>4 DEF Elder
  <2>4. CASE changes[i].op = "add" /\ x \notin V[i - 1] /\ V[i] = V[i - 1] \cup {x}
    BY <2>0, <2>1, <2>4 DEF StepOf
  <2>5. CASE /\ changes[i].op = "remove" /\ x \in V[i - 1] /\ V[i] = V[i - 1] \ {x}
             /\ \A y \in V[i - 1] : y # x /\ NameOf[y] = NameOf[x] => Elder(Served, V, x, y, i)
    <3>1. \A y \in V[i - 1] : y # x /\ NameOf[y] = NameOf[x] => Elder(Served, W, x, y, i)'
      BY <2>3, <2>5
    <3> QED
      BY <2>0, <2>1, <2>5, <3>1 DEF StepOf
  <2> QED
    BY <2>0, <2>2, <2>4, <2>5 DEF StepOf
<1>18. ASSUME NEW k \in 1 .. p PROVE StepOf(Served, W, n + k)'
  <2>0. PICK x, i : x = A[k].peer /\ i = n + k
    OBVIOUS
  <2>1. /\ k \in 0 .. p /\ k - 1 \in 0 .. p /\ i - 1 = n + (k - 1)
        /\ changes'[i] = A[k] /\ k \in DOMAIN A
    BY <1>6, <1>7, <2>0
  <2>2. W[i] = known \cup {A[j].peer : j \in 1 .. k} /\ W[i - 1] = known \cup {A[j].peer : j \in 1 .. k - 1}
    BY <1>13, <2>0, <2>1
  <2>3. 1 .. k = 1 .. k - 1 \cup {k} /\ k \notin 1 .. k - 1 /\ \A j \in 1 .. k - 1 : j \in DOMAIN A
    BY <1>6
  <2>4. x \notin W[i - 1]
    BY <1>4, <2>0, <2>1, <2>2, <2>3
  <2>5. W[i] = W[i - 1] \cup {x}
    BY <2>0, <2>2, <2>3
  <2>6. changes'[i].op = "add" /\ changes'[i].peer = x
    BY <1>4, <2>0, <2>1
  <2>7. StepOf(Served, W, i)'
    BY <2>4, <2>5, <2>6 DEF StepOf
  <2> QED
    BY <2>0, <2>7
<1>19. ASSUME NEW k \in 1 .. q PROVE StepOf(Served, W, n + p + k)'
  <2>0. PICK x, i : x = R[k].peer /\ i = n + p + k
    OBVIOUS
  <2>1. /\ k \in 0 .. q /\ k - 1 \in 0 .. q /\ i - 1 = n + p + (k - 1)
        /\ changes'[i] = R[k] /\ k \in DOMAIN R /\ i \in Nat
    <3>1. changes'[i] = R[k]
      BY <1>7, <2>0
    <3>2. /\ k \in 0 .. q /\ k - 1 \in 0 .. q /\ i - 1 = n + p + (k - 1)
          /\ k \in DOMAIN R /\ i \in Nat
      BY <1>6, <2>0
    <3> QED
      BY <3>1, <3>2
  <2>2. /\ W[i] = (known \cup clients) \ {R[j].peer : j \in 1 .. k}
        /\ W[i - 1] = (known \cup clients) \ {R[j].peer : j \in 1 .. k - 1}
    BY <1>15, <2>0, <2>1
  <2>3. 1 .. k = 1 .. k - 1 \cup {k} /\ k \notin 1 .. k - 1 /\ \A j \in 1 .. k - 1 : j \in DOMAIN R
    BY <1>6
  <2>4. x \in known /\ x \notin clients
    BY <1>5, <2>0, <2>1
  <2>5. x \in W[i - 1]
    BY <1>5, <2>0, <2>1, <2>2, <2>3, <2>4
  <2>6. W[i] = W[i - 1] \ {x}
    BY <2>0, <2>2, <2>3
  <2>7. changes'[i].op = "remove" /\ changes'[i].peer = x
    BY <1>5, <2>0, <2>1
  <2>8. ASSUME NEW y \in W[i - 1], y # x, NameOf[y] = NameOf[x]
        PROVE  Elder(Served, W, x, y, i)'
    <3>1. y \in clients \ known
      <4>1. y \in known \cup clients
        BY <2>2
      <4>2. y \notin known
        BY <1>1, <2>4, <2>8 DEF ChangesFit
      <4> QED
        BY <4>1, <4>2
    <3>2. PICK m \in 1 .. p : A[m].peer = y
      BY <1>4, <1>6, <3>1
    <3>3. PICK j : j = n + m
      OBVIOUS
    <3>4. /\ j \in 0 .. i - 1 /\ j > 0 /\ j - 1 = n + (m - 1) /\ m - 1 \in 0 .. p /\ m \in DOMAIN A
          /\ changes'[j] = A[m]
      BY <1>6, <1>7, <2>0, <3>3
    <3>5. changes'[j].op = "add" /\ changes'[j].peer = y
      BY <1>4, <3>2, <3>4
    <3>6. x \in W[j - 1]
      BY <1>13, <2>4, <3>4
    <3>7. ASSUME NEW h \in j .. i - 1 PROVE x \in W[h] /\ y \in W[h]
      <4>0. h \in Int /\ j \in Int /\ m \in 1 .. p
        BY <1>6, <3>3
      <4>1. CASE h <= n + p
        <5>1. h - n \in 0 .. p /\ n + (h - n) = h /\ m \in 1 .. h - n
          BY <1>6, <3>3, <4>0, <4>1
        <5>2. W[h] = known \cup {A[b].peer : b \in 1 .. h - n}
          BY <1>13, <5>1
        <5> QED
          BY <2>4, <3>2, <5>1, <5>2
      <4>2. CASE h > n + p
        <5>1. h - n - p \in 0 .. q /\ n + p + (h - n - p) = h /\ \A b \in 1 .. h - n - p : b \in 1 .. k - 1
          BY <1>6, <2>0, <4>0, <4>2
        <5>2. W[h] = (known \cup clients) \ {R[b].peer : b \in 1 .. h - n - p}
          BY <1>15, <5>1
        <5>3. \A b \in 1 .. h - n - p : R[b].peer # x /\ R[b].peer # y
          BY <1>5, <2>0, <2>1, <2>3, <3>1, <5>1
        <5> QED
          BY <2>4, <3>1, <5>2, <5>3
      <4> QED
        BY <1>6, <4>0, <4>1, <4>2
    <3> QED
      BY <3>4, <3>5, <3>6, <3>7 DEF Elder
  <2>9. StepOf(Served, W, i)'
    BY <2>5, <2>6, <2>7, <2>8 DEF StepOf
  <2> QED
    BY <2>0, <2>9
<1>20. \A i \in 1 .. n + p + q : StepOf(Served, W, i)'
  <2> TAKE i \in 1 .. n + p + q
  <2>1. CASE i <= n
    <3>1. i \in 1 .. n
      BY <1>6, <2>1
    <3> QED
      BY <1>17, <3>1
  <2>2. CASE i > n /\ i <= n + p
    <3>1. i - n \in 1 .. p /\ n + (i - n) = i
      BY <1>6, <2>2
    <3>2. PICK k \in 1 .. p : n + k = i
      BY <3>1
    <3>3. StepOf(Served, W, n + k)'
      BY <1>18
    <3> QED
      BY <3>2, <3>3
  <2>3. CASE i > n + p
    <3>1. i - n - p \in 1 .. q /\ n + p + (i - n - p) = i
      BY <1>6, <2>3
    <3>2. PICK k \in 1 .. q : n + p + k = i
      BY <3>1
    <3>3. StepOf(Served, W, n + p + k)'
      BY <1>19
    <3> QED
      BY <3>2, <3>3
  <2> QED
    BY <1>6, <2>1, <2>2, <2>3
<1>21. W[0] = Peers(Served') /\ Len(changes') = n + p + q /\ W[n + p + q] = known'
  BY <1>1, <1>2, <1>7, <1>16
<1>22. LeadsToKnown(Served, W)'
  BY <1>20, <1>21 DEF LeadsToKnown
<1> QED
  BY <1>11, <1>21, <1>22

-----------------------------------------------------------------------------
(* Whom the port knows.                                                    *)

(* The service registers under the first group of the GUID.                *)
LEMMA RegsAre ==
    ASSUME PairingTyped, KindsFit, ~Pairs, NEW i \in DOMAIN Served
    PROVE  RegOf(Served[i]) \in Regs /\ Name(Served[i].peer) = NameOf[Served[i].peer]
<1>1. Served[i].peer \in Client /\ Served[i].token \in Nat
  BY ServedIs
<1> QED
  BY <1>1 DEF RegOf, Registration, Regs, Names, Name

LEMMA EnteredAre ==
    ASSUME NEW r \in Regs
    PROVE  r \in Entered <=> r.name \in DOMAIN listener /\ listener[r.name] = r.token
<1>1. r = Registration(r.name, r.token)
  BY DEF Registration, Regs
<1>2. \A x, y, t, u : Registration(x, t) = Registration(y, u) => x = y /\ t = u
  BY DEF Registration
<1> QED
  BY <1>1, <1>2 DEF Entered

LEMMA EnteredAreNext ==
    (\A r \in Regs : r \in Entered <=> r.name \in DOMAIN listener /\ listener[r.name] = r.token)'
<1>1. \A r \in Regs : r \in Entered <=> r.name \in DOMAIN listener /\ listener[r.name] = r.token
  BY EnteredAre
<1> QED
  BY <1>1, PTL

LEMMA CommandsAre ==
    ASSUME NEW op, NEW r \in Regs, NEW s \in Regs
    PROVE  /\ Command(op, r).op = op /\ Command(op, r).name = r.name /\ Command(op, r).token = r.token
           /\ \A o : Command(op, r) = Command(o, s) => o = op /\ r = s
<1>1. r = [name |-> r.name, token |-> r.token] /\ s = [name |-> s.name, token |-> s.token]
  BY DEF Regs
<1>2. \A o, a, b, c, d, e :
         [op |-> o, name |-> a, token |-> b] = [op |-> c, name |-> d, token |-> e]
            => o = c /\ a = d /\ b = e
  OBVIOUS
<1>3. \A o : Command(op, r) = Command(o, s) => o = op /\ r.name = s.name /\ r.token = s.token
  BY <1>2 DEF Command
<1> QED
  BY <1>1, <1>3 DEF Command

LEMMA TokensAre ==
    ASSUME NEW r, r.token \notin TokensInUse
    PROVE  r \notin Entered /\ r \notin guarded /\ r \notin leaving
           /\ \A k \in DOMAIN commands : commands[k].token # r.token
BY DEF TokensInUse, ToSet

(* A command that is none of the registration's own, and registers nobody   *)
(* else under the name, changes nothing for it.                            *)
LEMMA SentPast ==
    ASSUME ListenerTyped, NEW op \in {"register", "unregister", "inject"}, NEW r \in Regs,
           NEW s \in Regs, Sent(op, s), LatestFits(r), UNCHANGED listener,
           op = "register" => s.name # r.name, op = "unregister" => s # r,
           r \in guarded', r \notin leaving'
    PROVE  LatestFits(r)'
<1> DEFINE n == Len(commands)
           new == Command(op, s)
<1>1. n \in Nat /\ DOMAIN commands = 1 .. n
  BY DEF ListenerTyped
<1>2. /\ DOMAIN commands' = 1 .. n + 1 /\ commands'[n + 1] = new
      /\ \A k \in 1 .. n : commands'[k] = commands[k]
  <2>1. commands' = Append(commands, new) /\ commands \in Seq(Commands)
    BY SentFits DEF ListenerTyped
  <2> QED
    BY <1>1, <2>1
<1>3. /\ new # Command("unregister", r) /\ new # Command("register", r)
      /\ ~(new.op = "register" /\ new.name = r.name)
  BY CommandsAre
<1> HIDE DEF n, new
<1>4. \A k \in DOMAIN commands' : k = n + 1 \/ (k \in DOMAIN commands /\ commands'[k] = commands[k])
  BY <1>1, <1>2
<1>5. \A k \in DOMAIN commands : k \in DOMAIN commands' /\ commands'[k] = commands[k]
  BY <1>1, <1>2
<1>6. Entered' = Entered
  BY DEF Entered
<1>7. \A k \in DOMAIN commands' : Rival(k, r)' => k \in DOMAIN commands /\ Rival(k, r)
  BY <1>2, <1>3, <1>4 DEF Rival
<1>8. \A k \in DOMAIN commands : (Asks(k, r)' <=> Asks(k, r)) /\ (Rival(k, r)' <=> Rival(k, r))
  BY <1>5 DEF Asks, Rival
<1>9. \A k \in DOMAIN commands' : commands'[k] # Command("unregister", r)
  BY <1>2, <1>3, <1>4 DEF LatestFits
<1>10. CASE r \in Entered
  BY <1>6, <1>7, <1>9, <1>10 DEF LatestFits, Command
<1>11. CASE r \notin Entered
  <2>1. PICK k \in DOMAIN commands :
          Asks(k, r) /\ \A m \in DOMAIN commands : Rival(m, r) => m = k \/ (m < k /\ ~Asks(m, r))
    BY <1>11 DEF LatestFits
  <2>2. k \in DOMAIN commands' /\ Asks(k, r)'
    BY <1>5, <1>8, <2>1
  <2>3. \A m \in DOMAIN commands' : Rival(m, r)' => m = k \/ (m < k /\ ~Asks(m, r)')
    BY <1>7, <1>8, <2>1
  <2> QED
    BY <1>6, <1>9, <1>11, <2>2, <2>3 DEF LatestFits, Command
<1> QED
  BY <1>10, <1>11

(* The new one is the only one that asks for its name.                     *)
LEMMA SentFirst ==
    ASSUME ListenerTyped, NEW r \in Regs, r.token \notin TokensInUse, Register(r)
    PROVE  LatestFits(r)'
<1>0. PICK n, new : n = Len(commands) /\ new = Command("register", r)
  OBVIOUS
<1>1. n \in Nat /\ DOMAIN commands = 1 .. n
  BY <1>0 DEF ListenerTyped
<1>2. /\ DOMAIN commands' = 1 .. n + 1 /\ commands'[n + 1] = new
      /\ \A k \in 1 .. n : commands'[k] = commands[k]
      /\ guarded' = guarded \cup {r} /\ UNCHANGED <<listener, leaving>>
  <2>1. commands' = Append(commands, new) /\ commands \in Seq(Commands)
    BY <1>0, SentFits DEF ListenerTyped, Register
  <2> QED
    BY <1>0, <1>1, <2>1 DEF Register
<1>3. /\ new # Command("unregister", r) /\ \A op : Command(op, r).token = r.token
  BY <1>0, CommandsAre
<1>4. /\ r \notin Entered /\ r \notin leaving
      /\ \A k \in DOMAIN commands : commands[k].token # r.token
  BY TokensAre
<1>5. \A k \in DOMAIN commands' :
         k = n + 1 \/ (k \in DOMAIN commands /\ k < n + 1 /\ commands'[k] = commands[k])
  BY <1>1, <1>2
<1>6. n + 1 \in DOMAIN commands' /\ Asks(n + 1, r)'
  BY <1>0, <1>1, <1>2 DEF Asks, Command
<1>7. \A k \in DOMAIN commands' : commands'[k] # Command("unregister", r)
  BY <1>2, <1>3, <1>4, <1>5
<1>8. \A k \in DOMAIN commands' : k = n + 1 \/ (k < n + 1 /\ ~Asks(k, r)')
  BY <1>3, <1>4, <1>5 DEF Asks
<1>9. Entered' = Entered
  BY <1>2 DEF Entered
<1>10. r \in guarded' /\ r \notin leaving'
  BY <1>2, <1>4
<1> QED
  BY <1>4, <1>6, <1>7, <1>8, <1>9, <1>10 DEF LatestFits, Command

(* The head of the channel is taken.                                       *)
LEMMA TakenPast ==
    ASSUME ListenerTyped, commands # <<>>, commands' = Tail(commands), NEW r \in Regs, LatestFits(r),
           r \in guarded', r \notin leaving',
           \/ r \in Entered /\ r \in Entered'
           \/ ~Asks(1, r) /\ r \notin Entered /\ r \notin Entered'
           \/ Asks(1, r) /\ r \notin Entered /\ r \in Entered'
    PROVE  LatestFits(r)'
<1> DEFINE n == Len(commands)
<1>1. /\ n \in Nat /\ n >= 1 /\ DOMAIN commands = 1 .. n /\ DOMAIN commands' = 1 .. n - 1
      /\ \A k \in 1 .. n - 1 : commands'[k] = commands[k + 1]
  <2>1. commands \in Seq(Commands)
    BY DEF ListenerTyped
  <2>2. n \in Nat \ {0} /\ Len(commands') = n - 1 /\ commands' \in Seq(Commands)
        /\ \A k \in 1 .. n - 1 : commands'[k] = commands[k + 1]
    BY CommandsHead
  <2> QED
    BY <2>1, <2>2
<1> HIDE DEF n
<1>2. \A k \in DOMAIN commands' :
         /\ k + 1 \in DOMAIN commands /\ commands'[k] = commands[k + 1]
         /\ Asks(k, r)' <=> Asks(k + 1, r)
         /\ Rival(k, r)' <=> Rival(k + 1, r)
  <2> TAKE k \in DOMAIN commands'
  <2>1. k + 1 \in DOMAIN commands /\ commands'[k] = commands[k + 1]
    BY <1>1
  <2> QED
    BY <2>1 DEF Asks, Rival
<1>3. \A k \in DOMAIN commands' : commands'[k] # Command("unregister", r)
  BY <1>2 DEF LatestFits
<1>4. ASSUME r \in Entered, r \in Entered' PROVE LatestFits(r)'
  <2>1. \A k \in DOMAIN commands' : ~Rival(k, r)'
    BY <1>2, <1>4 DEF LatestFits
  <2> QED
    BY <1>3, <1>4, <2>1 DEF LatestFits, Command
<1>5. ASSUME r \notin Entered PROVE LatestFits(r)'
  <2>1. PICK k \in DOMAIN commands :
          Asks(k, r) /\ \A m \in DOMAIN commands : Rival(m, r) => m = k \/ (m < k /\ ~Asks(m, r))
    BY <1>5 DEF LatestFits
  <2>2. k \in 1 .. n /\ (Asks(1, r) => k = 1)
    <3>1. 1 \in DOMAIN commands
      BY <1>1
    <3>2. Asks(1, r) => Rival(1, r)
      BY CommandsAre DEF Asks, Rival
    <3> QED
      BY <1>1, <2>1, <3>1, <3>2
  <2>3. CASE Asks(1, r) /\ r \in Entered'
    <3>1. \A m \in DOMAIN commands' : ~Rival(m, r)'
      <4> TAKE m \in DOMAIN commands'
      <4>1. m \in Int /\ m >= 1
        BY <1>1
      <4>2. Rival(m + 1, r) => m + 1 = 1 \/ m + 1 < 1
        BY <1>2, <2>1, <2>2, <2>3
      <4> QED
        BY <1>2, <4>1, <4>2
    <3> QED
      BY <1>3, <2>3, <3>1 DEF LatestFits, Command
  <2>4. CASE ~Asks(1, r) /\ r \notin Entered'
    <3>1. k # 1
      BY <2>1, <2>4
    <3>2. PICK h : h = k - 1
      OBVIOUS
    <3>3. h \in DOMAIN commands' /\ h + 1 = k
      BY <1>1, <2>2, <3>1, <3>2
    <3>4. Asks(h, r)'
      BY <1>2, <2>1, <3>3
    <3>5. \A m \in DOMAIN commands' : Rival(m, r)' => m = h \/ (m < h /\ ~Asks(m, r)')
      <4> TAKE m \in DOMAIN commands'
      <4> HAVE Rival(m, r)'
      <4>1. m + 1 = k \/ (m + 1 < k /\ ~Asks(m + 1, r))
        BY <1>2, <2>1
      <4>2. m \in Int /\ h \in Int
        BY <1>1, <3>3
      <4> QED
        BY <1>2, <3>3, <4>1, <4>2
    <3> QED
      BY <1>3, <2>4, <3>3, <3>4, <3>5 DEF LatestFits, Command
  <2> QED
    BY <1>5, <2>3, <2>4
<1> QED
  BY <1>4, <1>5

LEMMA HandlePast ==
    ASSUME ListenerTyped, NEW r \in Regs, LatestFits(r), HandleCommand
    PROVE  LatestFits(r)'
<1>0. commands # <<>> /\ commands' = Tail(commands)
  BY DEF HandleCommand
<1>1. PICK c : c = Head(commands)
  OBVIOUS
<1>2. c \in Commands /\ c = commands[1] /\ 1 \in DOMAIN commands
  <2>1. Len(commands) \in Nat \ {0} /\ commands \in Seq(Commands)
    BY <1>0, CommandsHead DEF ListenerTyped
  <2> QED
    BY <1>0, <1>1, <2>1, CommandsHead
<1>3. c.name \in Names /\ c.token \in Nat /\ r.name \in Names /\ r.token \in Nat
      /\ r = [name |-> r.name, token |-> r.token]
  BY <1>2 DEF Commands, Regs
<1>4. PICK s : s = Registration(c.name, c.token)
  OBVIOUS
<1>5. s \in Regs /\ s.name = c.name /\ s.token = c.token
  BY <1>3, <1>4 DEF Registration, Regs
<1>6. c = Command(c.op, s)
  BY <1>2, <1>5 DEF Command, Commands
<1>7. /\ Asks(1, r) <=> c.op = "register" /\ s = r
      /\ Rival(1, r) <=> c.op = "register" /\ s.name = r.name
      /\ ~(c.op = "unregister" /\ s = r)
  <2>1. Asks(1, r) <=> c.op = "register" /\ s = r
    BY <1>2, <1>5, <1>6, CommandsAre DEF Asks
  <2>2. ~(c.op = "unregister" /\ s = r)
    BY <1>2, <1>6 DEF LatestFits
  <2> QED
    BY <1>2, <1>5, <2>1, <2>2 DEF Rival
<1>8. r \in guarded /\ r \notin leaving
  BY DEF LatestFits
<1>9. r \in Entered => ~Rival(1, r)
  BY <1>2 DEF LatestFits
<1>10. /\ r \in Entered <=> r.name \in DOMAIN listener /\ listener[r.name] = r.token
       /\ r \in Entered' <=> r.name \in DOMAIN listener' /\ listener'[r.name] = r.token
  BY EnteredAre, EnteredAreNext
<1>11. CASE c.op = "register"
  <2>1. /\ listener' = [name \in DOMAIN listener \cup {c.name} |->
                            IF name = c.name THEN c.token ELSE listener[name]]
        /\ TaskEnds({q \in Entered : q.name = c.name})
    BY <1>1, <1>11 DEF HandleCommand
  <2>2. \A name \in DOMAIN listener' : listener'[name] = IF name = c.name THEN c.token ELSE listener[name]
    BY <2>1
  <2>3. DOMAIN listener' = DOMAIN listener \cup {c.name}
    BY <2>1
  <2>4. ~(r \in Entered /\ r.name = c.name)
    BY <1>5, <1>7, <1>9, <1>11
  <2>5. r \in guarded' /\ r \notin leaving'
    BY <1>8, <2>1, <2>4 DEF TaskEnds
  <2>6. CASE r.name = c.name
    <3>1. r \in Entered' <=> r.token = c.token
      BY <1>10, <2>2, <2>3, <2>6
    <3>2. r.token = c.token <=> s = r
      BY <1>3, <1>4, <2>6 DEF Registration
    <3> QED
      BY <1>0, <1>7, <1>11, <2>4, <2>5, <2>6, <3>1, <3>2, TakenPast
  <2>7. CASE r.name # c.name
    <3>1. r \in Entered' <=> r \in Entered
      BY <1>10, <2>2, <2>3, <2>7
    <3>2. ~Asks(1, r)
      BY <1>5, <1>7, <2>7
    <3> QED
      BY <1>0, <2>5, <3>1, <3>2, TakenPast
  <2> QED
    BY <2>6, <2>7
<1>12. CASE c.op = "unregister" /\ HoldsName(c)
  <2>1. /\ listener' = [name \in DOMAIN listener \ {c.name} |-> listener[name]]
        /\ TaskEnds({q \in Entered : q.name = c.name})
    BY <1>1, <1>12 DEF HandleCommand
  <2>2. s \in Entered
    BY <1>4, <1>12 DEF HoldsName
  <2>3. s.name \in DOMAIN listener /\ listener[s.name] = s.token
    BY <1>5, <2>2, EnteredAre
  <2>4. ~(r \in Entered /\ r.name = c.name)
    <3> SUFFICES ASSUME r \in Entered, r.name = c.name PROVE FALSE
      OBVIOUS
    <3>1. r.token = c.token
      BY <1>5, <1>10, <2>3
    <3>2. s = r
      BY <1>3, <1>4, <3>1 DEF Registration
    <3> QED
      BY <1>7, <1>12, <3>2
  <2>5. r \in guarded' /\ r \notin leaving'
    BY <1>8, <2>1, <2>4 DEF TaskEnds
  <2>6. r \in Entered' <=> r \in Entered
    <3>1. DOMAIN listener' = DOMAIN listener \ {c.name} /\ \A x \in DOMAIN listener' : listener'[x] = listener[x]
      BY <2>1
    <3> QED
      BY <1>10, <2>4, <3>1
  <2>7. ~Asks(1, r)
    BY <1>7, <1>12
  <2> QED
    BY <1>0, <2>5, <2>6, <2>7, TakenPast
<1>13. CASE c.op # "register" /\ ~(c.op = "unregister" /\ HoldsName(c))
  <2>1. UNCHANGED <<listener, guarded, leaving>>
    BY <1>1, <1>13 DEF HandleCommand
  <2>2. Entered' = Entered
    BY <2>1 DEF Entered
  <2>3. ~Asks(1, r)
    BY <1>7, <1>13
  <2> QED
    BY <1>0, <1>8, <2>1, <2>2, <2>3, TakenPast
<1> QED
  BY <1>11, <1>12, <1>13

(* One entry is taken out of those served, the first with its name, and its *)
(* task ends.                                                              *)
LEMMA TokensTakenOut ==
    ASSUME PhonesIInv, PairingTyped', KindsFit', ListenerTyped, TokensFit, ~Pairs, UNCHANGED program,
           NEW c \in Caller, NEW name, TakeOut(c, name),
           Adding => UNCHANGED doing["changes"], ~Adding => ~Adding'
    PROVE  TokensFit'
<1> DEFINE k == Named(name)
<1>0. PairingTyped /\ KindsFit
  BY DEF PhonesIInv
<1>1. /\ k \in DOMAIN entries /\ Name(entries[k].peer) = name
      /\ \A j \in DOMAIN entries : Name(entries[j].peer) = name => k <= j
      /\ entries' = RemoveAt(entries, k)
  BY <1>0, NamedIs DEF TakeOut
<1>2. Leave(Registration(name, entries[k].token))
  BY <1>0, <1>1 DEF TakeOut, KindsFit
<1> HIDE DEF k
<1>3. PICK gone : gone = RegOf(entries[k])
  OBVIOUS
<1>4. /\ guarded' = guarded \ {gone} /\ leaving' = leaving \cup (guarded \cap {gone})
      /\ UNCHANGED <<listener, commands>>
  BY <1>1, <1>2, <1>3 DEF Leave, TaskEnds, RegOf
<1>5. /\ Served \in Seq(Entries) /\ DOMAIN entries \subseteq DOMAIN Served
      /\ \A i \in DOMAIN entries : Served[i] = entries[i]
      /\ Adding => Served = Append(entries, InWork) /\ InWork \in Entries
      /\ ~Adding => Served = entries
  BY <1>0, ServedIs
<1> DEFINE n == Len(entries)
<1>6. n \in Nat /\ DOMAIN entries = 1 .. n /\ entries \in Seq(Entries) /\ k \in 1 .. n /\ k \in DOMAIN Served
  BY <1>0, <1>1, <1>5 DEF PairingTyped
<1>7. PICK at :
        /\ at \in [DOMAIN Served' -> DOMAIN Served]
        /\ \A i, j \in DOMAIN Served' : i < j => at[i] < at[j]
        /\ \A i \in DOMAIN Served' : Served'[i] = Served[at[i]] /\ at[i] # k
        /\ \A i \in DOMAIN Served : i # k => \E j \in DOMAIN Served' : at[j] = i
  <2>1. PICK b : Embeds(entries', entries, DOMAIN entries \ {k}, b) /\ Len(entries') = n - 1
                 /\ entries' \in Seq(Entries)
    BY <1>1, <1>6, RemovedIs
  <2>2. /\ b \in [DOMAIN entries' -> DOMAIN entries]
        /\ \A i, j \in DOMAIN entries' : i < j => b[i] < b[j]
        /\ \A i \in DOMAIN entries' : entries'[i] = entries[b[i]] /\ b[i] # k
        /\ \A i \in DOMAIN entries : i # k => \E j \in DOMAIN entries' : b[j] = i
    BY <2>1 DEF Embeds
  <2>3. CASE ~Adding
    <3>1. Served' = entries' /\ Served = entries
      BY <1>5, <2>3 DEF Served
    <3> QED
      BY <2>2, <3>1
  <2>4. CASE Adding
    <3>1. Served = Append(entries, InWork) /\ Served' = Append(entries', InWork)
      BY <1>5, <2>4 DEF Served, Adding, InWork
    <3>2. PICK w \in Entries : w = InWork
      BY <1>5, <2>4
    <3>3. /\ DOMAIN entries' = 1 .. n - 1 /\ DOMAIN Served' = 1 .. n /\ DOMAIN Served = 1 .. n + 1
          /\ Served'[n] = w /\ Served[n + 1] = w
          /\ \A i \in 1 .. n - 1 : Served'[i] = entries'[i]
          /\ \A i \in 1 .. n : Served[i] = entries[i]
      <4>1. /\ DOMAIN Served = 1 .. n + 1 /\ Served[n + 1] = w
            /\ \A i \in 1 .. n : Served[i] = entries[i]
        BY <1>6, <3>1, <3>2
      <4>2. /\ Served' = Append(entries', w) /\ entries' \in Seq(Entries) /\ Len(entries') = n - 1
            /\ n - 1 \in Nat
        BY <1>6, <2>1, <3>1, <3>2
      <4>3. /\ Len(Served') = Len(entries') + 1 /\ Served' \in Seq(Entries)
            /\ Served'[Len(entries') + 1] = w
            /\ \A i \in 1 .. Len(entries') : Served'[i] = entries'[i]
        BY <4>2, AppendProperties
      <4>4. DOMAIN entries' = 1 .. Len(entries') /\ DOMAIN Served' = 1 .. Len(Served')
        BY <4>2, <4>3
      <4>5. Len(Served') = n /\ Len(entries') + 1 = n
        BY <1>6, <4>2, <4>3
      <4> HIDE DEF n
      <4> QED
        BY <4>1, <4>2, <4>3, <4>4, <4>5
    <3> HIDE DEF n
    <3> DEFINE at == [i \in 1 .. n |-> IF i = n THEN n + 1 ELSE b[i]]
    <3>4. \A i \in 1 .. n : i = n \/ (i \in 1 .. n - 1 /\ b[i] \in 1 .. n)
      BY <1>6, <2>2, <3>3
    <3>5. at \in [DOMAIN Served' -> DOMAIN Served]
      BY <1>6, <3>3, <3>4
    <3>6. ASSUME NEW i \in DOMAIN Served', NEW j \in DOMAIN Served', i < j PROVE at[i] < at[j]
      <4>1. i \in 1 .. n - 1 /\ b[i] \in 1 .. n /\ i # n
        BY <1>6, <3>3, <3>4, <3>6
      <4>2. j = n \/ (j \in 1 .. n - 1 /\ j # n /\ b[i] < b[j])
        BY <1>6, <2>2, <3>3, <3>4, <3>6, <4>1
      <4> QED
        BY <1>6, <3>3, <4>1, <4>2
    <3>7. ASSUME NEW i \in DOMAIN Served' PROVE Served'[i] = Served[at[i]] /\ at[i] # k
      <4>1. CASE i = n
        BY <1>6, <3>3, <4>1
      <4>2. CASE i # n
        BY <1>6, <2>2, <3>3, <3>4, <4>2
      <4> QED
        BY <4>1, <4>2
    <3>8. ASSUME NEW i \in DOMAIN Served, i # k PROVE \E j \in DOMAIN Served' : at[j] = i
      <4>1. CASE i = n + 1
        <5>1. n \in DOMAIN Served' /\ at[n] = i
          BY <1>6, <3>3, <4>1
        <5> QED
          BY <5>1
      <4>2. CASE i # n + 1
        <5>1. i \in DOMAIN entries
          BY <1>6, <3>3, <4>2
        <5>2. PICK j \in DOMAIN entries' : b[j] = i
          BY <2>2, <3>8, <5>1
        <5>3. j \in DOMAIN Served' /\ at[j] = i
          BY <1>6, <3>3, <5>2
        <5> QED
          BY <5>3
      <4> QED
        BY <4>1, <4>2
    <3> HIDE DEF at
    <3> QED
      BY <3>5, <3>6, <3>7, <3>8
  <2> QED
    BY <2>3, <2>4
<1> HIDE DEF n
<1>8. \A i, j \in DOMAIN Served : Served[i].token = Served[j].token => i = j
  BY DEF TokensFit
<1>9. \A i, j \in DOMAIN Served' : Served'[i].token = Served'[j].token => i = j
  <2> SUFFICES ASSUME NEW i \in DOMAIN Served', NEW j \in DOMAIN Served',
                      Served'[i].token = Served'[j].token
               PROVE  i = j
    OBVIOUS
  <2>1. at[i] = at[j]
    BY <1>7, <1>8
  <2>2. i \in Int /\ j \in Int /\ at[i] \in Int
    <3>1. Served' \in Seq(Entries)
      BY <1>0, ServedIsNext DEF Pairs
    <3> QED
      BY <1>5, <1>7, <3>1
  <2> QED
    BY <1>7, <2>1, <2>2
<1>10. ASSUME NEW i \in DOMAIN Served', NewestOf(Served, i)'
       PROVE  LatestFits(RegOf(Served[i]))'
  <2>1. at[i] \in DOMAIN Served /\ at[i] # k /\ Served'[i] = Served[at[i]]
    BY <1>7
  <2>2. NewestOf(Served, at[i])
    <3> SUFFICES ASSUME NEW j \in DOMAIN Served, at[i] < j, Name(Served[j].peer) = Name(Served[at[i]].peer)
                 PROVE  FALSE
      BY DEF NewestOf
    <3>1. CASE j = k
      <4>0. at[i] \in Int /\ k \in Int /\ at[i] >= 1
        BY <1>5, <1>6, <2>1
      <4>1. at[i] \in DOMAIN entries
        BY <1>6, <2>1, <3>1, <4>0
      <4>2. Name(entries[at[i]].peer) = name
        BY <1>1, <1>5, <3>1, <4>1
      <4> QED
        BY <1>1, <3>1, <4>0, <4>1, <4>2
    <3>2. CASE j # k
      <4>1. PICK m \in DOMAIN Served' : at[m] = j
        BY <1>7, <3>2
      <4>2. i \in Int /\ m \in Int /\ at[i] \in Int /\ at[m] \in Int
        <5>1. Served' \in Seq(Entries)
          BY <1>0, ServedIsNext DEF Pairs
        <5> QED
          BY <1>5, <1>7, <5>1
      <4>3. i < m
        BY <1>7, <4>1, <4>2
      <4>4. Name(Served'[m].peer) = Name(Served'[i].peer)
        BY <1>7, <2>1, <4>1
      <4> QED
        BY <1>10, <4>3, <4>4 DEF NewestOf, Name
    <3> QED
      BY <3>1, <3>2
  <2>3. LatestFits(RegOf(Served[at[i]]))
    BY <2>1, <2>2 DEF TokensFit
  <2>4. PICK r : r = RegOf(Served[at[i]])
    OBVIOUS
  <2>5. r # gone
    <3>1. Served[at[i]].token # Served[k].token
      BY <1>6, <1>8, <2>1
    <3>2. \A x, y, t, u : Registration(x, t) = Registration(y, u) => t = u
      BY DEF Registration
    <3> QED
      BY <1>3, <1>5, <1>6, <2>4, <3>1, <3>2 DEF RegOf
  <2>6. Entered' = Entered
    BY <1>4 DEF Entered
  <2>7. LatestFits(r)'
    BY <1>4, <2>3, <2>4, <2>5, <2>6 DEF LatestFits, Asks, Rival
  <2>8. r = RegOf(Served[i])'
    BY <2>1, <2>4 DEF RegOf, Name
  <2> QED
    BY <2>7, <2>8
<1> QED
  BY <1>9, <1>10 DEF TokensFit

LEMMA TokensApplyAdd ==
    ASSUME PhonesIInv, ListenerTyped, TokensFit, ApplyAdd
    PROVE  TokensFit'
<1>0. PairingTyped /\ KindsFit /\ PairingTyped' /\ KindsFit'
  BY StepApplyAdd DEF PhonesIInv
<1>a. PICK x, t : x = Head(changes).peer /\ t = FreshToken
  OBVIOUS
<1>1. /\ changes # <<>> /\ changes' = Tail(changes) /\ ~Adding
      /\ doing' = [doing EXCEPT !["changes"] = [step |-> "adding", peer |-> x, token |-> t]]
      /\ Register(Registration(Name(x), t))
      /\ UNCHANGED <<program, entries>>
  BY <1>a DEF ApplyAdd, AtRest, Adding, NoCall, Paused
<1>2. ~Pairs
  BY <1>0, <1>1 DEF KindsFit
<1>3. Served = entries
  BY <1>1 DEF Served
<1>4. Adding' /\ doing'["changes"].peer = x /\ doing'["changes"].token = t
  BY <1>0, <1>1 DEF Adding, PairingTyped, Caller
<1>5. PICK n : n = Len(entries)
  OBVIOUS
<1>6. n \in Nat /\ DOMAIN entries = 1 .. n /\ entries \in Seq(Entries)
  BY <1>0, <1>5 DEF PairingTyped
<1>7. /\ DOMAIN Served' = 1 .. n + 1 /\ Served'[n + 1].peer = x /\ Served'[n + 1].token = t
      /\ \A i \in 1 .. n : Served'[i] = entries[i]
  <2>1. Served' = Append(entries, InWork')
    BY <1>1, <1>4 DEF Served
  <2>2. InWork'.peer = x /\ InWork'.token = t
    <3>1. \A p, u : LET e == [Entry(p, 0, "file") EXCEPT !.token = u] IN e.peer = p /\ e.token = u
      BY DEF Entry
    <3> QED
      BY <1>4, <3>1 DEF InWork
  <2> QED
    BY <1>5, <1>6, <2>1, <2>2
<1>8. \A i \in DOMAIN Served' : i = n + 1 \/ (i \in DOMAIN entries /\ i < n + 1 /\ Served'[i] = entries[i])
  BY <1>6, <1>7
<1>9. /\ t \in Nat /\ t \notin TokensInUse /\ \A i \in DOMAIN entries : entries[i].token # t
      /\ Registration(Name(x), t) \in Regs
  BY <1>0, <1>1, <1>a, FreshIs, NewRegistration
<1>10. PICK s : s = Registration(Name(x), t)
  OBVIOUS
<1>11. s \in Regs /\ s.name = Name(x) /\ s.token = t /\ Register(s)
  BY <1>1, <1>9, <1>10 DEF Registration
<1>12. \A i, j \in DOMAIN Served' : Served'[i].token = Served'[j].token => i = j
  <2>1. \A i, j \in DOMAIN entries : entries[i].token = entries[j].token => i = j
    BY <1>2, <1>3 DEF TokensFit
  <2> QED
    BY <1>7, <1>8, <1>9, <2>1
<1>13. ASSUME NEW i \in DOMAIN Served', NewestOf(Served, i)'
       PROVE  LatestFits(RegOf(Served[i]))'
  <2>1. CASE i = n + 1
    <3>1. LatestFits(s)'
      BY <1>9, <1>11, SentFirst
    <3>2. s = RegOf(Served[i])'
      BY <1>7, <1>10, <2>1 DEF RegOf, Name
    <3> QED
      BY <3>1, <3>2
  <2>2. CASE i # n + 1
    <3>1. i \in DOMAIN entries /\ i < n + 1 /\ Served'[i] = entries[i]
      BY <1>8, <2>2
    <3>2. \A j \in DOMAIN Served' : i < j => Name(Served'[j].peer) # Name(entries[i].peer)
      BY <1>13, <3>1 DEF NewestOf, Name
    <3>3. NewestOf(Served, i)
      <4> SUFFICES ASSUME NEW j \in DOMAIN entries, i < j
                   PROVE  Name(entries[j].peer) # Name(entries[i].peer)
        BY <1>3 DEF NewestOf
      <4>1. j \in DOMAIN Served' /\ Served'[j] = entries[j]
        BY <1>6, <1>7
      <4> QED
        BY <3>2, <4>1
    <3>4. Name(entries[i].peer) # Name(x)
      <4>1. n + 1 \in DOMAIN Served'
        BY <1>6, <1>7
      <4> QED
        BY <1>7, <3>1, <3>2, <4>1
    <3>5. PICK r : r = RegOf(entries[i])
      OBVIOUS
    <3>6. LatestFits(r) /\ r \in Regs
      BY <1>0, <1>2, <1>3, <3>1, <3>3, <3>5, RegsAre DEF TokensFit
    <3>7. r.name # s.name
      BY <1>11, <3>4, <3>5 DEF RegOf, Registration
    <3>8. Sent("register", s) /\ guarded' = guarded \cup {s} /\ UNCHANGED <<listener, leaving>>
      BY <1>11 DEF Register
    <3>9. r \in guarded' /\ r \notin leaving'
      BY <3>6, <3>8 DEF LatestFits
    <3>10. LatestFits(r)'
      BY <1>11, <3>6, <3>7, <3>8, <3>9, SentPast
    <3>11. r = RegOf(Served[i])'
      BY <3>1, <3>5 DEF RegOf, Name
    <3> QED
      BY <3>10, <3>11
  <2> QED
    BY <2>1, <2>2
<1> QED
  BY <1>12, <1>13 DEF TokensFit

LEMMA TokensListener ==
    ASSUME PhonesIInv, ListenerTyped, TokensFit, AtTheListener
    PROVE  TokensFit'
<1>0. PairingTyped /\ KindsFit
  BY DEF PhonesIInv
<1>1. UNCHANGED <<program, entries, doing>>
  BY DEF AtTheListener
<1>2. Served' = Served /\ Pairs' = Pairs
  BY <1>1 DEF Served, Adding, InWork, Pairs
<1>3. ASSUME NEW r \in Regs, LatestFits(r) PROVE LatestFits(r)'
  <2>1. CASE HandleCommand
    BY <1>3, <2>1, HandlePast
  <2>2. CASE Inject
    <3>1. Registration("any", 0) \in Regs
      BY DEF Registration, Regs, Names
    <3>2. r \in guarded' /\ r \notin leaving'
      BY <1>3, <2>2 DEF LatestFits, Inject
    <3> QED
      BY <1>3, <2>2, <3>1, <3>2, SentPast DEF Inject
  <2>3. ASSUME NEW s \in leaving, GuardDrops(s) PROVE LatestFits(r)'
    <3>1. s \in Regs /\ s # r
      BY <1>3 DEF ListenerTyped, LatestFits
    <3>2. r \in guarded' /\ r \notin leaving' /\ UNCHANGED listener
      BY <1>3, <2>3 DEF LatestFits, GuardDrops
    <3>3. CASE Sent("unregister", s)
      BY <1>3, <3>1, <3>2, <3>3, SentPast
    <3>4. CASE UNCHANGED commands
      <4>1. Entered' = Entered
        BY <3>2 DEF Entered
      <4> QED
        BY <1>3, <3>2, <3>4, <4>1 DEF LatestFits, Asks, Rival, Command
    <3> QED
      BY <2>3, <3>3, <3>4 DEF GuardDrops
  <2> QED
    BY <2>1, <2>2, <2>3 DEF AtTheListener
<1>4. SUFFICES ASSUME ~Pairs, NEW i \in DOMAIN Served, NewestOf(Served, i)'
               PROVE  LatestFits(RegOf(Served[i]))'
  BY <1>2 DEF TokensFit
<1>5. NewestOf(Served, i)
  BY <1>2, <1>4 DEF NewestOf, Name
<1>6. PICK r : r = RegOf(Served[i])
  OBVIOUS
<1>7. r \in Regs /\ LatestFits(r)
  BY <1>0, <1>4, <1>5, <1>6, RegsAre DEF TokensFit
<1>8. LatestFits(r)'
  BY <1>3, <1>7
<1>9. r = RegOf(Served[i])'
  BY <1>2, <1>6 DEF RegOf, Name
<1> QED
  BY <1>8, <1>9

-----------------------------------------------------------------------------
(* All that is needed of the clients of a VPS server.                      *)
ClientsFit == ChangesFit /\ TokensFit
PairingIInv == PeersIInv /\ ClientsFit

(* What the programs that pair have nothing to do with.                    *)
LEMMA NoClients == Pairs => ClientsFit
BY DEF ClientsFit, ChangesFit, TokensFit

LEMMA NoClientsNext == (Pairs => ClientsFit)'
BY NoClients, PTL

LEMMA ClientsUntouched ==
    ASSUME ClientsFit, UNCHANGED <<program, entries, doing["changes"], clients, known, changes,
                                   dismissed, listening>>
    PROVE  ClientsFit'
<1>1. Served' = Served
  BY DEF Served, Adding, InWork
<1>2. ~Pairs => \A a, b \in clients : NameOf[a] = NameOf[b] => a = b
  BY DEF ClientsFit, ChangesFit
<1> QED
  BY <1>1, <1>2, ChangesUntouched, TokensUntouched DEF ClientsFit

LEMMA ClientsRemoved == ASSUME PeersIInv, ClientsFit, NEW c \in Tray, RemovePeer(c), ~Pairs PROVE ClientsFit'
<1>0. /\ PairingTyped /\ KindsFit /\ PhonesIInv /\ ListenerTyped /\ PairingTyped' /\ KindsFit'
      /\ c \in Caller /\ TokensFit /\ ChangesFit
  BY StepRemovePeer DEF PeersIInv, PhonesIInv, Caller, ClientsFit
<1>1. /\ AtRest(c) /\ dismissed' = TRUE /\ UNCHANGED <<program, clients, known>>
  BY DEF RemovePeer, watch, Pairs
<1>2. PICK name : TakeOut(c, name)
  BY DEF RemovePeer
<1>3. ChangesFit'
  BY <1>0, <1>1 DEF ChangesFit, Pairs
<1>4. /\ Adding => UNCHANGED doing["changes"]
      /\ ~Adding => ~Adding'
  <2>1. doing' = [doing EXCEPT ![c] = [step |-> "saving"]] /\ "changes" \in Caller
    BY <1>2 DEF TakeOut, Paused, Caller
  <2>2. Adding => c # "changes"
    BY <1>1 DEF Adding, AtRest, NoCall
  <2> QED
    BY <1>0, <2>1, <2>2 DEF Adding, PairingTyped
<1>5. TokensFit'
  BY <1>0, <1>1, <1>2, <1>4, TokensTakenOut
<1> QED
  BY <1>3, <1>5 DEF ClientsFit

LEMMA ClientsApplyRemove == ASSUME PeersIInv, ClientsFit, ApplyRemove, ~Pairs PROVE ClientsFit'
<1>0. /\ PairingTyped /\ KindsFit /\ PhonesIInv /\ ListenerTyped /\ PairingTyped' /\ KindsFit'
      /\ TokensFit /\ ChangesFit
  BY StepApplyRemove DEF PeersIInv, PhonesIInv, ClientsFit
<1>1. ChangesFit'
  BY <1>0, ChangesApplyRemove
<1>2. ~Adding /\ UNCHANGED program /\ "changes" \in Caller
  BY DEF ApplyRemove, AtRest, Adding, NoCall, Caller
<1>3. PICK name : TakeOut("changes", name) \/ UNCHANGED <<entries, doing, listening>>
  BY DEF ApplyRemove
<1>4. CASE TakeOut("changes", name)
  <2>1. doing' = [doing EXCEPT !["changes"] = [step |-> "saving"]]
    BY <1>4 DEF TakeOut, Paused
  <2>2. ~Adding'
    BY <1>0, <1>2, <2>1 DEF Adding, PairingTyped
  <2>3. TokensFit'
    BY <1>0, <1>2, <1>4, <2>2, TokensTakenOut
  <2> QED
    BY <1>1, <2>3 DEF ClientsFit
<1>5. CASE UNCHANGED <<entries, doing, listening>>
  <2>1. Served' = Served
    BY <1>5 DEF Served, Adding, InWork
  <2> QED
    BY <1>0, <1>1, <1>2, <1>5, <2>1, TokensUntouched DEF ClientsFit
<1> QED
  BY <1>3, <1>4, <1>5

(* No entry of a VPS server waits.                                         *)
LEMMA NobodyWaits ==
    ASSUME PairingTyped, KindsFit, ~Pairs
    PROVE  Kept = entries /\ \A i \in DOMAIN entries : entries[i].origin # "pending"
<1>1. \A i \in DOMAIN entries : entries[i].origin # "pending"
  BY DEF KindsFit
<1> QED
  BY <1>1, KeptIs

LEMMA ClientsSaved == ASSUME PeersIInv, ClientsFit, NEW c \in Caller, Saves(c), ~Pairs PROVE ClientsFit'
<1>0. PairingTyped /\ KindsFit /\ TokensFit /\ ChangesFit
  BY DEF PeersIInv, PhonesIInv, ClientsFit
<1>1. /\ doing[c].step = "saving" /\ doing' = [doing EXCEPT ![c] = NoCall]
      /\ UNCHANGED <<program, entries, clients, known, changes, dismissed, listening>>
  BY <1>0 DEF Saves, SaveLocked, Copy, Write, Pairs, KindsFit, Paused, watch, history
<1>2. Served' = Served
  <2>1. Adding => c # "changes"
    BY <1>1 DEF Adding
  <2>2. (c = "changes" => ~Adding') /\ (c # "changes" => UNCHANGED doing["changes"])
    BY <1>0, <1>1 DEF Adding, PairingTyped, NoCall
  <2>3. c = "changes" => ~Adding
    BY <2>1
  <2> QED
    BY <1>1, <2>2, <2>3 DEF Served, Adding, InWork
<1>3. \A a, b \in clients : NameOf[a] = NameOf[b] => a = b
  BY <1>0 DEF ChangesFit
<1> QED
  BY <1>0, <1>1, <1>2, <1>3, ChangesUntouched, TokensUntouched DEF ClientsFit

LEMMA ClientsNext == PeersIInv /\ ClientsFit /\ [PairingNext]_pairingVars => ClientsFit'
<1> SUFFICES ASSUME PeersIInv, ClientsFit, [PairingNext]_pairingVars, ~Pairs
             PROVE  ClientsFit'
  <2>1. ASSUME PeersIInv, ClientsFit, [PairingNext]_pairingVars, Pairs PROVE ClientsFit'
    <3>1. UNCHANGED program
      BY <2>1 DEF PairingNext, pairingVars, PairAgain, Pair, Paired, RemovePeer, Saves, SaveLocked, Copy,
             Write, Housekeeping, GoesLive, TermEnds, Edit, Poll, ApplyAdd, Added, ApplyRemove,
             AtTheListener, Restart
    <3>2. Pairs'
      BY <2>1, <3>1 DEF Pairs
    <3> QED
      BY <3>2, NoClientsNext
  <2> QED
    BY <2>1
<1>0. /\ PhonesIInv /\ PairingTyped /\ KindsFit /\ ListenerTyped /\ ChangesFit /\ TokensFit
      /\ \A a, b \in clients : NameOf[a] = NameOf[b] => a = b
  BY DEF PeersIInv, PhonesIInv, ClientsFit, ChangesFit
<1>1. ASSUME NEW c \in Tray, PairAgain(c) \/ Pair(c) \/ Paired(c) PROVE ClientsFit'
  <2>1. Pairs \/ doing[c].step = "creating"
    BY <1>1 DEF PairAgain, Pair, Paired, MayPair
  <2> QED
    BY <1>0, <2>1 DEF KindsFit, Caller
<1>2. ASSUME NEW c \in Tray, RemovePeer(c) PROVE ClientsFit'
  BY <1>2, ClientsRemoved
<1>3. ASSUME NEW c \in Caller, Saves(c) PROVE ClientsFit'
  BY <1>3, ClientsSaved
<1>4. ASSUME Housekeeping PROVE ClientsFit'
  BY <1>0, <1>4, NobodyWaits DEF Housekeeping
<1>5. ASSUME NEW i \in DOMAIN entries, GoesLive(i) \/ TermEnds(i) PROVE ClientsFit'
  BY <1>0, <1>5, NobodyWaits DEF GoesLive, TermEnds
<1>6. ASSUME NEW list \in SUBSET Client, Edit(list) PROVE ClientsFit'
  <2>1. /\ \A a, b \in clients' : NameOf[a] = NameOf[b] => a = b
        /\ UNCHANGED <<program, entries, doing, known, changes, dismissed, listening>>
    BY <1>6 DEF Edit, history
  <2>2. Served' = Served
    BY <2>1 DEF Served, Adding, InWork
  <2> QED
    BY <1>0, <2>1, <2>2, ChangesUntouched, TokensUntouched DEF ClientsFit
<1>7. ASSUME Poll PROVE ClientsFit'
  <2>1. ChangesFit'
    BY <1>0, <1>7, ChangesPoll
  <2>2. UNCHANGED <<program, entries, doing, listening>>
    BY <1>7 DEF Poll
  <2>3. Served' = Served
    BY <2>2 DEF Served, Adding, InWork
  <2> QED
    BY <1>0, <2>1, <2>2, <2>3, TokensUntouched DEF ClientsFit
<1>8. ASSUME ApplyAdd PROVE ClientsFit'
  BY <1>0, <1>8, ChangesApplyAdd, TokensApplyAdd DEF ClientsFit
<1>9. ASSUME Added PROVE ClientsFit'
  <2>1. Served' = Served
    BY <1>0, <1>9, ChangesAdded
  <2>2. UNCHANGED <<program, clients, known, changes, dismissed, listening>>
    BY <1>9 DEF Added, watch, history
  <2> QED
    BY <1>0, <2>1, <2>2, ChangesUntouched, TokensUntouched DEF ClientsFit
<1>10. ASSUME ApplyRemove PROVE ClientsFit'
  BY <1>10, ClientsApplyRemove
<1>11. ASSUME AtTheListener PROVE ClientsFit'
  <2>1. TokensFit'
    BY <1>0, <1>11, TokensListener
  <2>2. UNCHANGED <<program, entries, doing, clients, known, changes, dismissed>>
    BY <1>11 DEF AtTheListener, watch, history
  <2>3. Served' = Served
    BY <2>2 DEF Served, Adding, InWork
  <2> QED
    BY <1>0, <2>1, <2>2, <2>3, ChangesUntouched DEF ClientsFit
<1>12. ASSUME Restart PROVE ClientsFit'
  <2>1. /\ entries' = FromSettings \o <<>> /\ changes' = <<>> /\ known' = {}
        /\ doing' = [c \in Caller |-> NoCall] /\ UNCHANGED clients
    BY <1>12 DEF Restart
  <2>2. DOMAIN entries' = {}
    <3>1. FromSettings = <<>>
      BY FromSettingsIs
    <3> QED
      BY <2>1, <3>1
  <2>3. ~Adding'
    BY <2>1 DEF Adding, NoCall, Caller
  <2> QED
    BY <1>0, <2>1, <2>2, <2>3, ChangesEmptyNext DEF ClientsFit
<1>13. ASSUME UNCHANGED pairingVars PROVE ClientsFit'
  BY <1>13, ClientsUntouched DEF pairingVars, watch, history
<1> QED
  BY <1>1, <1>2, <1>3, <1>4, <1>5, <1>6, <1>7, <1>8, <1>9, <1>10, <1>11, <1>12, <1>13 DEF PairingNext

LEMMA ClientsInit == PairingInit => ClientsFit
<1> SUFFICES ASSUME PairingInit, ~Pairs PROVE ClientsFit
  BY NoClients
<1>1. /\ entries = FromSettings /\ changes = <<>> /\ known = {} /\ clients = {}
      /\ doing = [c \in Caller |-> NoCall]
  BY DEF PairingInit
<1>2. DOMAIN entries = {}
  <2>1. FromSettings = <<>>
    BY FromSettingsIs
  <2> QED
    BY <1>1, <2>1
<1>3. ~Adding
  BY <1>1 DEF Adding, NoCall, Caller
<1> QED
  BY <1>1, <1>2, <1>3, ChangesEmpty DEF ClientsFit

LEMMA PairingIInvHolds == PairingSpec => []PairingIInv
<1>1. PairingInit => PairingIInv
  BY PeersInit, ClientsInit DEF PairingIInv
<1>2. PairingIInv /\ [PairingNext]_pairingVars => PairingIInv'
  BY PeersNext, ClientsNext DEF PairingIInv
<1> QED
  BY <1>1, <1>2, PTL DEF PairingSpec

(* When its changes are applied a VPS server serves the clients of the file, *)
(* each once and reachable through the port, whatever the order of added and *)
(* removed clients that share a short name and of the drops of old tasks     *)
(* (vps-server/main.rs:6-8).                                                 *)
THEOREM ServiceFollowsClientsHolds == PairingSpec => []ServiceFollowsClients
<1>1. PairingIInv => ServiceFollowsClients
  <2> SUFFICES ASSUME PairingIInv, program = "vps-server", Applied, ~dismissed
               PROVE  /\ Peers(entries) = clients /\ Len(entries) = Cardinality(clients)
                      /\ commands = <<>> => \A e \in ToSet(entries) : Reached(e)
    BY DEF ServiceFollowsClients
  <2>1. PairingTyped /\ KindsFit /\ ChangesFit /\ TokensFit /\ ~Pairs
    BY DEF PairingIInv, PeersIInv, PhonesIInv, ClientsFit, Pairs
  <2>2. Served = entries /\ Len(changes) = 0 /\ clients = known
    BY DEF Applied, AtRest, Served, Adding, NoCall
  <2>3. PICK V : LeadsToKnown(entries, V)
    BY <2>1, <2>2 DEF ChangesFit
  <2>4. Peers(entries) = clients
    BY <2>2, <2>3 DEF LeadsToKnown
  <2>5. \A i, j \in DOMAIN entries : entries[i].peer = entries[j].peer => i = j
    BY <2>1, <2>2 DEF ChangesFit
  <2>6. Len(entries) \in Nat /\ DOMAIN entries = 1 .. Len(entries)
    BY <2>1 DEF PairingTyped
  <2>7. Len(entries) = Cardinality(clients)
    <3>0. PICK n \in Nat : n = Len(entries)
      BY <2>6
    <3> DEFINE f == [i \in 1 .. n |-> entries[i].peer]
    <3>1. f \in Surjection(1 .. n, clients)
      BY <2>4, <2>6, <3>0 DEF Surjection, Peers
    <3>2. f \in Injection(1 .. n, clients)
      BY <2>4, <2>5, <2>6, <3>0 DEF Injection, IsInjective, Peers
    <3>3. IsFiniteSet(1 .. n) /\ Cardinality(1 .. n) = n
      BY FS_Interval
    <3> HIDE DEF f
    <3> QED
      BY <3>0, <3>1, <3>2, <3>3, FS_Surjection
  <2>8. ASSUME commands = <<>>, NEW i \in DOMAIN entries PROVE Reached(entries[i])
    <3>1. \A j \in DOMAIN entries : entries[j].peer \in known /\ Name(entries[j].peer) = NameOf[entries[j].peer]
      <4>1. \A j \in DOMAIN entries : entries[j].peer \in clients /\ entries[j].peer \in Client
        BY <2>1, <2>4 DEF Peers, KindsFit
      <4> QED
        BY <2>2, <4>1 DEF Name
    <3>2. NewestOf(entries, i)
      <4> SUFFICES ASSUME NEW j \in DOMAIN entries, i < j, Name(entries[j].peer) = Name(entries[i].peer)
                   PROVE  FALSE
        BY DEF NewestOf
      <4>1. entries[j].peer = entries[i].peer
        BY <2>1, <3>1 DEF ChangesFit
      <4> QED
        BY <2>5, <2>6, <4>1
    <3>3. LatestFits(RegOf(entries[i]))
      BY <2>1, <2>2, <3>2 DEF TokensFit
    <3>4. RegOf(entries[i]) \in guarded /\ RegOf(entries[i]) \in Entered
      BY <2>8, <3>3 DEF LatestFits
    <3> QED
      BY <3>4 DEF Reached, RegOf
  <2>9. commands = <<>> => \A e \in ToSet(entries) : Reached(e)
    BY <2>8 DEF ToSet
  <2> QED
    BY <2>4, <2>7, <2>9
<1> QED
  BY <1>1, PairingIInvHolds, PTL
=============================================================================
