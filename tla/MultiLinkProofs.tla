-------------------------- MODULE MultiLinkProofs --------------------------
(***************************************************************************)
(* Proofs about the set of holes to one peer, for any numbers, sizes of    *)
(* channels and numbers of holes in use.  Traced says of every hole what    *)
(* its task has left in the shared tables; Shared says how far a hole is   *)
(* from its turn in the cycle of the picker.                               *)
(***************************************************************************)
EXTENDS MultiLink, FiniteSetTheorems, SequenceTheorems, TLAPS

Stage == Alive \cup Ended \cup {"none"}
Counts == [peer : Nat, got : Nat]

(* The types of the tasks, channels, journals and counters.                *)
Typed ==
    /\ stage \in [Slot -> Stage]
    /\ confirmed \in [Slot -> BOOLEAN]
    /\ \A s \in DOMAIN ctl : ctl[s] \in Seq(Command) /\ Len(ctl[s]) <= COMMANDS
    /\ log \in [Slot -> Seq(Kind)]
    /\ traffic \in [Slot -> Counts] /\ \A s \in Slot : traffic[s].got <= traffic[s].peer
    /\ orders \in Nat

(* The state of the registry that goes with a stage of the task.           *)
StateFits(state, where) ==
    /\ state \in {"Warming", "Active", "Draining"}
    /\ state = "Draining" <=> where = "draining"
    /\ state = "Warming" => where \in {"warming", "asking"}

(* The phase of the status that goes with it.                              *)
PhaseFits(phase, where) ==
    /\ where \in Early => phase \in Early
    /\ where \in Held \cup {"asking"} => phase = "connected"
    /\ where = "draining" => phase = "draining"
    /\ where = "leaving" => phase \in {"connected", "draining"}

(* What the task of the hole s has in the shared tables.                   *)
Traced(s) ==
    /\ s \in DOMAIN ctl <=> stage[s] \in Alive
    /\ s \in DOMAIN phases <=> stage[s] \in Alive
    /\ s \in DOMAIN by_slot <=> stage[s] \in Held \cup Draining
    /\ s \in index <=> s \in DOMAIN by_slot
    /\ s \in reports => s \in index
    /\ s \in DOMAIN by_slot => StateFits(by_slot[s], stage[s])
    /\ s \in DOMAIN phases => PhaseFits(phases[s], stage[s])

AllTraced ==
    /\ DOMAIN ctl \subseteq Slot /\ DOMAIN phases \subseteq Slot /\ DOMAIN by_slot \subseteq Slot
    /\ index \subseteq Slot /\ reports \subseteq Slot
    /\ shown[2] = Aggregate(phases)[2]
    /\ \A s \in Slot : Traced(s)

(* A hole outside the rest of the cycle is passed while the rest shrinks, one *)
(* inside it while the others of it are used up.                           *)
Shared ==
    /\ remaining \subseteq Slot /\ Cardinality(remaining) < TARGET_LINKS
    /\ passed \in [Slot -> Nat]
    /\ \A s \in Slot :
          passed[s] <= (IF s \in remaining THEN 2 ELSE 1) * Cardinality(Slot)
                       - 1 - Cardinality(remaining)

IInv == Typed /\ AllTraced

-----------------------------------------------------------------------------
(* The traces.                                                             *)

(* A step at the hole s leaves the traces of the others.                   *)
OthersKeep(s) ==
    /\ \A t \in Slot \ {s} :
          /\ stage'[t] = stage[t]
          /\ t \in DOMAIN ctl' <=> t \in DOMAIN ctl
          /\ t \in DOMAIN phases' <=> t \in DOMAIN phases
          /\ t \in DOMAIN phases => phases'[t] = phases[t]
          /\ t \in DOMAIN by_slot' <=> t \in DOMAIN by_slot
          /\ t \in DOMAIN by_slot => by_slot'[t] = by_slot[t]
          /\ t \in index' <=> t \in index
          /\ t \in reports' <=> t \in reports
    /\ DOMAIN ctl' \subseteq Slot /\ DOMAIN phases' \subseteq Slot /\ DOMAIN by_slot' \subseteq Slot
    /\ index' \subseteq Slot /\ reports' \subseteq Slot

(* The status is told anew with every change of a phase.                   *)
Told == UNCHANGED tracker \/ shown' = Aggregate(phases')

LEMMA TracesAreKept ==
    ASSUME AllTraced, NEW s \in Slot, OthersKeep(s), (Traced(s))', Told
    PROVE  AllTraced'
<1>1. shown'[2] = (Aggregate(phases)[2])'
  BY DEF Told, tracker, AllTraced, Aggregate
<1>2. \A t \in Slot : (Traced(t))'
  BY DEF OthersKeep, AllTraced, Traced
<1> QED
  BY <1>1, <1>2 DEF AllTraced, OthersKeep

LEMMA MakeTraces ==
    ASSUME IInv, NEW s \in Slot, Make(s)
    PROVE  AllTraced'
<1>1. PICK first \in {"starting", "punching"} : Move(s, first) /\ Phase(s, first)
  BY DEF Make
<1>2. /\ stage' = [stage EXCEPT ![s] = first] /\ phases' = With(phases, s, first)
      /\ shown' = Aggregate(phases')
      /\ ctl' = With(ctl, s, <<>>) /\ UNCHANGED registry /\ stage[s] = "none"
  BY <1>1 DEF Make, Move, Phase, Tracked
<1>3. OthersKeep(s)
  BY <1>2 DEF OthersKeep, With, registry, IInv, AllTraced
<1>4. (Traced(s))'
  BY <1>2 DEF Traced, With, registry, IInv, AllTraced, Typed, PhaseFits, StateFits, Early,
     Held, Draining, Alive
<1> QED
  BY <1>2, <1>3, <1>4, TracesAreKept DEF IInv, Told

LEMMA NextPhaseTraces ==
    ASSUME IInv, NEW s \in Slot, NextPhase(s)
    PROVE  AllTraced'
<1>1. PICK to \in {"rendezvous", "punching"} :
         /\ stage[s] \in Early /\ Move(s, to) /\ Phase(s, to)
  BY DEF NextPhase, Early
<1>2. /\ stage' = [stage EXCEPT ![s] = to] /\ phases' = With(phases, s, to)
      /\ shown' = Aggregate(phases') /\ ctl' = ctl /\ UNCHANGED registry
  BY <1>1 DEF NextPhase, Move, Phase, Tracked
<1>3. OthersKeep(s)
  BY <1>2 DEF OthersKeep, With, registry, IInv, AllTraced
<1>4. (Traced(s))'
  BY <1>1, <1>2 DEF Traced, With, registry, IInv, AllTraced, Typed, PhaseFits, StateFits, Early,
     Held, Draining, Alive
<1> QED
  BY <1>2, <1>3, <1>4, TracesAreKept DEF IInv, Told

LEMMA HoldTraces ==
    ASSUME IInv, NEW s \in Slot, Hold(s)
    PROVE  AllTraced'
<1>1. PICK state, to :
         /\ \/ state = "Warming" /\ to = "warming"
            \/ state = "Active" /\ to = "holding"
         /\ Inserted(s, state) /\ Move(s, to)
  BY DEF Hold
<1>2. /\ stage' = [stage EXCEPT ![s] = to] /\ phases' = With(phases, s, "connected")
      /\ shown' = Aggregate(phases')
      /\ ctl' = [ctl EXCEPT ![s] = <<>>] /\ stage[s] = "punching"
      /\ by_slot' = With(by_slot, s, state) /\ index' = index \cup {s} /\ reports' = reports \ {s}
  BY <1>1 DEF Hold, Move, Phase, Tracked, Inserted
<1>3. OthersKeep(s)
  BY <1>2 DEF OthersKeep, With, IInv, AllTraced
<1>4. (Traced(s))'
  BY <1>1, <1>2 DEF Traced, With, IInv, AllTraced, Typed, PhaseFits, StateFits, Early,
     Held, Draining, Alive
<1> QED
  BY <1>2, <1>3, <1>4, TracesAreKept DEF IInv, Told

LEMMA WarmTraces ==
    ASSUME IInv, NEW s \in Slot, Warm(s)
    PROVE  AllTraced'
<1>1. /\ stage' = [stage EXCEPT ![s] = "holding"] /\ stage[s] = "warming"
      /\ UNCHANGED <<ctl, index, reports, tracker>>
      /\ by_slot' = IF s \in DOMAIN by_slot /\ by_slot[s] \in {"Warming"}
                    THEN [by_slot EXCEPT ![s] = "Active"] ELSE by_slot
  BY DEF Warm, Move, Marked
<1>2. OthersKeep(s)
  BY <1>1 DEF OthersKeep, tracker, IInv, AllTraced
<1>3. (Traced(s))'
  BY <1>1 DEF Traced, tracker, IInv, AllTraced, Typed, PhaseFits, StateFits, Early,
     Held, Draining, Alive
<1> QED
  BY <1>1, <1>2, <1>3, TracesAreKept DEF IInv, Told

LEMMA LeaveTraces ==
    ASSUME IInv, NEW s \in Slot, stage[s] \in Held \cup {"draining"},
           Removed(s), Move(s, "leaving"), UNCHANGED <<ctl, tracker>>
    PROVE  AllTraced'
<1>1. /\ stage' = [stage EXCEPT ![s] = "leaving"]
      /\ by_slot' = Without(by_slot, s) /\ index' = index \ {s} /\ reports' = reports \ {s}
  BY DEF Move, Removed
<1>2. OthersKeep(s)
  BY <1>1 DEF OthersKeep, Without, tracker, IInv, AllTraced
<1>3. (Traced(s))'
  BY <1>1 DEF Traced, Without, tracker, IInv, AllTraced, Typed, PhaseFits, StateFits, Early,
     Held, Draining, Alive
<1> QED
  BY <1>1, <1>2, <1>3, TracesAreKept DEF IInv, Told

(* The drain begins to end: the mark, the phase and the stage go together. *)
LEMMA DrainTraces ==
    ASSUME IInv, NEW s \in Slot, stage[s] \in Held \cup {"asking"},
           Move(s, "draining"), Phase(s, "draining"),
           Marked(s, {"Warming", "Active"}, "Draining"),
           DOMAIN ctl' = DOMAIN ctl, UNCHANGED <<index, reports>>
    PROVE  AllTraced'
<1>1. /\ stage' = [stage EXCEPT ![s] = "draining"] /\ phases' = With(phases, s, "draining")
      /\ shown' = Aggregate(phases')
      /\ by_slot' = IF s \in DOMAIN by_slot /\ by_slot[s] \in {"Warming", "Active"}
                    THEN [by_slot EXCEPT ![s] = "Draining"] ELSE by_slot
  BY DEF Move, Phase, Tracked, Marked
<1>2. OthersKeep(s)
  BY <1>1 DEF OthersKeep, With, IInv, AllTraced
<1>3. (Traced(s))'
  BY <1>1 DEF Traced, With, IInv, AllTraced, Typed, PhaseFits, StateFits, Early,
     Held, Draining, Alive
<1> QED
  BY <1>1, <1>2, <1>3, TracesAreKept DEF IInv, Told

LEMMA TakeTraces ==
    ASSUME IInv, NEW s \in Slot, Take(s)
    PROVE  AllTraced'
<1>1. /\ ctl' = [ctl EXCEPT ![s] = Tail(@)] /\ UNCHANGED <<index, reports>>
      /\ stage[s] \in Held \cup Draining
  BY DEF Take
<1>2. CASE Head(ctl[s]) = "PeerDrain" /\ stage[s] # "draining"
  <2>1. /\ Move(s, "draining") /\ Phase(s, "draining")
        /\ Marked(s, {"Warming", "Active"}, "Draining")
    BY <1>2 DEF Take
  <2>2. stage[s] \in Held \cup {"asking"} /\ DOMAIN ctl' = DOMAIN ctl
    BY <1>1, <1>2 DEF Held, Draining
  <2> QED
    BY <1>1, <2>1, <2>2, DrainTraces
<1>3. CASE ~(Head(ctl[s]) = "PeerDrain" /\ stage[s] # "draining")
  <2>1. /\ Move(s, IF stage[s] \in Held THEN "asking" ELSE stage[s])
        /\ UNCHANGED <<by_slot, tracker>>
    BY <1>3 DEF Take
  <2>2. OthersKeep(s)
    BY <1>1, <2>1 DEF OthersKeep, Move, tracker, IInv, AllTraced
  <2>3. (Traced(s))'
    BY <1>1, <2>1 DEF Traced, Move, tracker, IInv, AllTraced, Typed, PhaseFits, StateFits, Early,
       Held, Draining, Alive
  <2> QED
    BY <2>1, <2>2, <2>3, TracesAreKept DEF IInv, Told
<1> QED
  BY <1>2, <1>3

LEMMA DropTraces ==
    ASSUME IInv, NEW s \in Slot, NEW to \in Ended, Drop(s, to)
    PROVE  AllTraced'
<1>1. /\ stage' = [stage EXCEPT ![s] = to] /\ phases' = Without(phases, s)
      /\ shown' = Aggregate(phases') /\ ctl' = Without(ctl, s)
      /\ by_slot' = Without(by_slot, s) /\ index' = index \ {s} /\ reports' = reports \ {s}
  BY DEF Drop, Move, Tracked, Removed
<1>2. OthersKeep(s)
  BY <1>1 DEF OthersKeep, Without, IInv, AllTraced
<1>3. (Traced(s))'
  BY <1>1 DEF Traced, Without, IInv, AllTraced, Typed, PhaseFits, StateFits, Early,
     Held, Draining, Alive, Ended
<1> QED
  BY <1>1, <1>2, <1>3, TracesAreKept DEF IInv, Told

(* A command only lengthens a queue that is there.                         *)
LEMMA CommandedIs ==
    ASSUME NEW s \in Slot, NEW cmd, ctl' = Commanded(s, cmd)
    PROVE  DOMAIN ctl' = DOMAIN ctl
BY DEF Commanded

LEMMA PeerStatsTraces ==
    ASSUME IInv, NEW s \in Slot, PeerStats(s)
    PROVE  AllTraced'
<1>1. /\ UNCHANGED <<stage, by_slot, index, tracker>>
      /\ reports' = IF s \in DOMAIN by_slot THEN reports \cup {s} ELSE reports
      /\ ctl' = ctl \/ ctl' = Commanded(s, "Retire")
  BY DEF PeerStats
<1>2. DOMAIN ctl' = DOMAIN ctl
  BY <1>1, CommandedIs
<1>3. OthersKeep(s)
  BY <1>1, <1>2 DEF OthersKeep, tracker, IInv, AllTraced
<1>4. (Traced(s))'
  BY <1>1, <1>2 DEF Traced, tracker, IInv, AllTraced
<1> QED
  BY <1>1, <1>3, <1>4, TracesAreKept DEF IInv, Told

LEMMA StepTraces == IInv /\ [Next]_vars => AllTraced'
<1> SUFFICES ASSUME IInv, [Next]_vars
             PROVE  AllTraced'
  OBVIOUS
<1>1. ASSUME DOMAIN ctl' = DOMAIN ctl, UNCHANGED <<stage, registry, tracker>>
      PROVE  AllTraced'
  BY <1>1 DEF IInv, AllTraced, Traced, registry, tracker, Aggregate
<1>2. CASE UNCHANGED vars
  BY <1>1, <1>2 DEF vars
<1>3. ASSUME NEW s \in Slot,
             Step(s) \/ Abort(s) \/ Packet(s) \/ PeerStats(s) \/ Send(s)
                \/ \E cmd \in Command : Order(s, cmd)
      PROVE  AllTraced'
  <2>1. CASE Lost(s) \/ NotConfirmed(s)
    BY <2>1, LeaveTraces DEF Lost, NotConfirmed, Leave, Held
  <2>2. CASE Close(s)
    BY <2>2, LeaveTraces DEF Close
  <2>3. CASE StopAsking(s)
    BY <2>3, DrainTraces DEF StopAsking
  <2>4. CASE Finish(s) \/ Abort(s)
    BY <2>4, DropTraces DEF Finish, Abort, Ended
  <2>5. CASE Packet(s) \/ Send(s)
    BY <1>1, <2>5 DEF Packet, Send
  <2>6. ASSUME NEW cmd \in Command, Order(s, cmd)
        PROVE  AllTraced'
    BY <1>1, <2>6, CommandedIs DEF Order
  <2> QED
    BY <1>3, <2>1, <2>2, <2>3, <2>4, <2>5, <2>6, MakeTraces, NextPhaseTraces, HoldTraces,
       WarmTraces, TakeTraces, PeerStatsTraces DEF Step
<1> QED
  BY <1>2, <1>3 DEF Next

-----------------------------------------------------------------------------
(* The types.                                                              *)

(* An empty channel, and a channel after one more command or one less.     *)
LEMMA QueueIs ==
    /\ <<>> \in Seq(Command) /\ Len(<<>>) <= COMMANDS
    /\ \A q \in Seq(Command), cmd \in Command :
          Len(q) < COMMANDS => Append(q, cmd) \in Seq(Command) /\ Len(Append(q, cmd)) <= COMMANDS
    /\ \A q \in Seq(Command) :
          q # <<>> /\ Len(q) <= COMMANDS => Tail(q) \in Seq(Command) /\ Len(Tail(q)) <= COMMANDS
<1>1. <<>> \in Seq(Command) /\ Len(<<>>) <= COMMANDS
  BY EmptySeq, MultiLinkAssumption
<1>2. ASSUME NEW q \in Seq(Command), NEW cmd \in Command, Len(q) < COMMANDS
      PROVE  Append(q, cmd) \in Seq(Command) /\ Len(Append(q, cmd)) <= COMMANDS
  BY <1>2, AppendProperties, LenProperties, MultiLinkAssumption
<1>3. ASSUME NEW q \in Seq(Command), q # <<>>, Len(q) <= COMMANDS
      PROVE  Tail(q) \in Seq(Command) /\ Len(Tail(q)) <= COMMANDS
  <2>1. /\ Tail(q) \in Seq(Command) /\ Len(Tail(q)) = Len(q) - 1
    BY <1>3, HeadTailProperties
  <2>2. Len(q) \in Nat
    BY LenProperties
  <2> QED
    BY <1>3, <2>1, <2>2, MultiLinkAssumption
<1> QED
  BY <1>1, <1>2, <1>3

QueuesTyped == \A s \in DOMAIN ctl : ctl[s] \in Seq(Command) /\ Len(ctl[s]) <= COMMANDS

LEMMA ChannelsTyped ==
    ASSUME QueuesTyped, NEW s \in Slot
    PROVE  /\ ctl' = ctl => QueuesTyped'
           /\ ctl' = With(ctl, s, <<>>) => QueuesTyped'
           /\ ctl' = Without(ctl, s) => QueuesTyped'
           /\ ctl' = [ctl EXCEPT ![s] = <<>>] => QueuesTyped'
           /\ Queued(s) /\ ctl' = [ctl EXCEPT ![s] = Tail(@)] => QueuesTyped'
           /\ \A cmd \in Command : ctl' = Commanded(s, cmd) => QueuesTyped'
BY QueueIs DEF QueuesTyped, With, Without, Queued, Commanded

LEMMA RecordTyped ==
    ASSUME log \in [Slot -> Seq(Kind)], NEW s \in Slot, NEW kind \in Kind, Record(s, kind)
    PROVE  log' \in [Slot -> Seq(Kind)]
<1>1. Append(log[s], kind) \in Seq(Kind)
  BY AppendProperties
<1> QED
  BY <1>1 DEF Record

LEMMA MoveTyped ==
    ASSUME stage \in [Slot -> Stage], NEW s \in Slot, NEW to \in Stage, Move(s, to)
    PROVE  stage' \in [Slot -> Stage]
BY DEF Move

LEMMA DropTyped ==
    ASSUME Typed, NEW s \in Slot, NEW to \in Ended, Drop(s, to)
    PROVE  Typed'
<1>1. QueuesTyped'
  BY ChannelsTyped DEF Typed, QueuesTyped, Drop
<1>2. stage' \in [Slot -> Stage]
  BY MoveTyped DEF Drop, Typed, Stage
<1>3. /\ traffic' \in [Slot -> Counts]
      /\ \A t \in Slot : traffic'[t].got <= traffic'[t].peer
  BY DEF Typed, Drop, NoTraffic, Counts
<1> QED
  BY <1>1, <1>2, <1>3 DEF Typed, QueuesTyped, Drop

LEMMA PacketTyped ==
    ASSUME Typed, NEW s \in Slot, Packet(s)
    PROVE  Typed'
<1>1. PICK got \in {0, 1} :
         /\ traffic' = [traffic EXCEPT ![s] = [peer |-> @.peer + 1, got |-> @.got + got]]
         /\ confirmed' = [confirmed EXCEPT ![s] = @ \/ got = 1]
  BY DEF Packet
<1>2. traffic[s] \in Counts /\ traffic[s].got <= traffic[s].peer
  BY DEF Typed
<1> DEFINE new == [peer |-> traffic[s].peer + 1, got |-> traffic[s].got + got]
<1>3. new \in Counts /\ new.got <= new.peer
  BY <1>2 DEF Counts
<1>4. traffic' = [traffic EXCEPT ![s] = new]
  BY <1>1
<1> HIDE DEF new
<1>5. /\ traffic' \in [Slot -> Counts]
      /\ \A t \in Slot : traffic'[t].got <= traffic'[t].peer
  BY <1>3, <1>4 DEF Typed
<1>6. confirmed' \in [Slot -> BOOLEAN]
  BY <1>1 DEF Typed
<1> QED
  BY <1>5, <1>6 DEF Typed, Packet

LEMMA StepTyped == IInv /\ [Next]_vars => Typed'
<1> SUFFICES ASSUME Typed, [Next]_vars
             PROVE  Typed'
  BY DEF IInv
<1>1. CASE UNCHANGED vars
  BY <1>1 DEF vars, Typed
<1>2. ASSUME NEW s \in Slot,
             Step(s) \/ Abort(s) \/ Packet(s) \/ PeerStats(s) \/ Send(s)
                \/ \E cmd \in Command : Order(s, cmd)
      PROVE  Typed'
  <2>0. QueuesTyped
    BY DEF Typed, QueuesTyped
  <2>1. ASSUME QueuesTyped', stage' \in [Slot -> Stage], log' \in [Slot -> Seq(Kind)],
               orders' \in Nat, UNCHANGED <<confirmed, traffic>>
        PROVE  Typed'
    BY <2>1 DEF Typed, QueuesTyped
  <2>2. CASE Make(s) \/ NextPhase(s) \/ Hold(s)
    <3>1. stage' \in [Slot -> Stage]
      BY <2>2, MoveTyped DEF Make, NextPhase, Hold, Typed, Stage, Alive, Early, Held
    <3>2. QueuesTyped'
      BY <2>0, <2>2, ChannelsTyped DEF Make, NextPhase, Hold
    <3>3. log' \in [Slot -> Seq(Kind)]
      BY <2>2, RecordTyped DEF Make, NextPhase, Hold, Typed, Kind
    <3> QED
      BY <2>1, <2>2, <3>1, <3>2, <3>3 DEF Make, NextPhase, Hold, Typed
  <2>3. CASE Warm(s) \/ StopAsking(s) \/ Close(s)
    <3>1. stage' \in [Slot -> Stage]
      BY <2>3, MoveTyped DEF Warm, StopAsking, Close, Typed, Stage, Alive, Held, Draining
    <3> QED
      BY <2>0, <2>1, <2>3, <3>1, ChannelsTyped DEF Warm, StopAsking, Close, Typed
  <2>4. CASE Lost(s) \/ NotConfirmed(s)
    <3>1. stage' \in [Slot -> Stage] /\ log' \in [Slot -> Seq(Kind)]
      BY <2>4, MoveTyped, RecordTyped DEF Lost, NotConfirmed, Leave, Typed, Stage, Alive, Kind, Ending
    <3> QED
      BY <2>0, <2>1, <2>4, <3>1, ChannelsTyped DEF Lost, NotConfirmed, Leave, Typed
  <2>5. CASE Take(s)
    <3>1. stage' \in [Slot -> Stage]
      BY <2>5, MoveTyped DEF Take, Typed, Stage, Alive, Held, Draining
    <3>2. log' \in [Slot -> Seq(Kind)]
      BY <2>5, RecordTyped DEF Take, Typed, Kind, Ending
    <3>3. QueuesTyped'
      BY <2>0, <2>5, ChannelsTyped DEF Take
    <3> QED
      BY <2>1, <2>5, <3>1, <3>2, <3>3 DEF Take, Typed
  <2>6. CASE Finish(s) \/ Abort(s)
    BY <2>6, DropTyped DEF Finish, Abort, Ended
  <2>7. CASE PeerStats(s)
    <3>1. log' \in [Slot -> Seq(Kind)] /\ orders' \in Nat
      BY <2>7, RecordTyped DEF PeerStats, Typed, Kind
    <3>2. QueuesTyped'
      BY <2>0, <2>7, ChannelsTyped DEF PeerStats, Command
    <3> QED
      BY <2>1, <2>7, <3>1, <3>2 DEF PeerStats, Typed
  <2>8. CASE Send(s)
    BY <2>0, <2>1, <2>8, ChannelsTyped DEF Send, Typed
  <2>9. ASSUME NEW cmd \in Command, Order(s, cmd)
        PROVE  Typed'
    BY <2>0, <2>1, <2>9, ChannelsTyped DEF Order, Typed
  <2> QED
    BY <1>2, <2>2, <2>3, <2>4, <2>5, <2>6, <2>7, <2>8, <2>9, PacketTyped DEF Step
<1> QED
  BY <1>1, <1>2 DEF Next

-----------------------------------------------------------------------------
(* The invariant, and what the runs check.                                 *)

LEMMA InitIInv == Init => IInv
<1> SUFFICES ASSUME Init
             PROVE  IInv
  OBVIOUS
<1>1. DOMAIN ctl = {} /\ DOMAIN phases = {} /\ DOMAIN by_slot = {}
  BY DEF Init
<1>2. Aggregate(phases)[2] = 0
  <2>1. \A phase : {s \in DOMAIN phases : phases[s] = phase} = {}
    BY <1>1
  <2> QED
    BY <2>1, FS_EmptySet DEF Aggregate
<1>3. log \in [Slot -> Seq(Kind)]
  BY EmptySeq DEF Init
<1>4. traffic \in [Slot -> Counts] /\ \A s \in Slot : traffic[s].got <= traffic[s].peer
  BY DEF Init, NoTraffic, Counts
<1> QED
  BY <1>1, <1>2, <1>3, <1>4 DEF Init, IInv, Typed, AllTraced, Traced, Stage, Alive, Early, Held,
     Draining

LEMMA Invariance == Spec => []IInv
<1>1. IInv /\ [Next]_vars => IInv'
  BY StepTyped, StepTraces DEF IInv
<1> QED
  BY <1>1, InitIInv, PTL DEF Spec

(* However commands, reports, losses and aborts come, nothing of a task     *)
(* stays in a shared table when it is gone, and the registry, the phases and *)
(* the count of the status say what the tasks are doing                     *)
(* (SlotBase::drop, multilink.rs).                                         *)
THEOREM TracesFollowTasksHolds == Spec => []TracesFollowTasks
<1>1. IInv => TracesFollowTasks
  <2> SUFFICES ASSUME IInv
               PROVE  TracesFollowTasks
    OBVIOUS
  <2> DEFINE open == {s \in DOMAIN phases : phases[s] # "draining" /\
                                In(s, Held \cup {"asking", "leaving"})}
             connected == {s \in DOMAIN phases : phases[s] = "connected"}
  <2>1. open = connected
    <3> SUFFICES ASSUME NEW s \in DOMAIN phases
                 PROVE  (phases[s] # "draining" /\ In(s, Held \cup {"asking", "leaving"}))
                           <=> phases[s] = "connected"
      OBVIOUS
    <3>1. s \in Slot /\ stage[s] \in Alive /\ PhaseFits(phases[s], stage[s])
      BY DEF IInv, AllTraced, Traced
    <3> QED
      BY <3>1 DEF PhaseFits, In, Alive, Early, Held, Draining
  <2>2. Aggregate(phases)[2] = Cardinality(connected)
    <3>1. Cardinality(connected) \in Nat
      <4>1. IsFiniteSet(connected)
        BY FS_Subset, MultiLinkAssumption DEF IInv, AllTraced
      <4> QED
        BY <4>1, FS_CardinalityType
    <3> QED
      BY <3>1 DEF Aggregate
  <2>3. shown[2] = Cardinality(open)
    BY <2>1, <2>2 DEF IInv, AllTraced
  <2>4. /\ DOMAIN ctl = {s \in Slot : In(s, Alive)} /\ DOMAIN phases = DOMAIN ctl
        /\ DOMAIN by_slot = {s \in Slot : In(s, Held \cup Draining)}
        /\ index = DOMAIN by_slot /\ reports \subseteq index
    BY DEF IInv, AllTraced, Traced, In
  <2>5. ASSUME NEW s \in DOMAIN by_slot
        PROVE  /\ by_slot[s] = "Draining" <=> In(s, {"draining"})
               /\ by_slot[s] = "Warming" => In(s, {"warming", "asking"})
               /\ phases[s] = IF by_slot[s] = "Draining" THEN "draining" ELSE "connected"
    <3>0. s \in Slot /\ Traced(s)
      BY DEF IInv, AllTraced
    <3>1. /\ s \in Slot /\ s \in DOMAIN phases
          /\ StateFits(by_slot[s], stage[s]) /\ PhaseFits(phases[s], stage[s])
          /\ stage[s] \in Held \cup Draining
      BY <3>0 DEF Traced, Alive
    <3> QED
      BY <3>1 DEF StateFits, PhaseFits, In, Held, Draining
  <2> QED
    BY <2>3, <2>4, <2>5 DEF TracesFollowTasks
<1> QED
  BY <1>1, Invariance, PTL

(* The cards of the cycle: what is left of it, or all that are live.        *)
LEMMA SharedKept == IInv /\ Shared /\ [Next]_vars => Shared'
<1> SUFFICES ASSUME IInv, Shared, [Next]_vars
             PROVE  Shared'
  OBVIOUS
<1>1. CASE UNCHANGED sending
  BY <1>1 DEF sending, Shared
<1>2. ASSUME NEW s \in Slot, Send(s)
      PROVE  Shared'
  <2>1. PICK seen \in SUBSET Wanted :
           /\ Cardinality(seen) = IF Cardinality(Wanted) < TARGET_LINKS
                                  THEN Cardinality(Wanted) ELSE TARGET_LINKS
           /\ s \in Cycle(Limited(seen))
           /\ remaining' = Cycle(Limited(seen)) \ {s}
           /\ passed' = [t \in Slot |-> IF t \in Limited(seen) \ {s} THEN passed[t] + 1 ELSE 0]
    BY <1>2 DEF Send
  <2>2. PICK live : live = Limited(seen)
    OBVIOUS
  <2>3. live \subseteq seen /\ seen \subseteq Slot
    BY <2>1, <2>2 DEF Limited, Wanted, InState, IInv, AllTraced
  <2>4. PICK cycle : cycle = IF remaining \cap live # {} THEN remaining \cap live ELSE live
    OBVIOUS
  <2>5. s \in cycle /\ remaining' = cycle \ {s} /\ cycle \subseteq live
    BY <2>1, <2>2, <2>4 DEF Cycle
  <2>6. PICK all : all = Cardinality(Slot)
    OBVIOUS
  <2>7. PICK old : old = Cardinality(remaining)
    OBVIOUS
  <2>8. PICK new : new = Cardinality(remaining')
    OBVIOUS
  <2>9. /\ IsFiniteSet(Slot) /\ all \in Nat /\ remaining \subseteq Slot /\ cycle \subseteq Slot
        /\ \A S \in SUBSET Slot : IsFiniteSet(S) /\ Cardinality(S) \in Nat /\ Cardinality(S) <= all
    <3>1. IsFiniteSet(Slot) /\ remaining \subseteq Slot /\ cycle \subseteq Slot
      BY <2>3, <2>5, MultiLinkAssumption DEF Shared
    <3>2. all \in Nat
      BY <2>6, <3>1, FS_CardinalityType
    <3>3. \A S \in SUBSET Slot : IsFiniteSet(S) /\ Cardinality(S) <= all
      BY <2>6, <3>1, FS_Subset
    <3>4. \A S \in SUBSET Slot : Cardinality(S) \in Nat
      BY <3>3, FS_CardinalityType
    <3> QED
      BY <3>1, <3>2, <3>3, <3>4
  <2>10. old \in Nat /\ new \in Nat /\ Cardinality(cycle) = new + 1
    <3>1. new = Cardinality(cycle) - 1 /\ Cardinality(cycle) \in Nat
      BY <2>5, <2>8, <2>9, FS_RemoveElement
    <3>2. old \in Nat /\ new \in Nat
      BY <2>5, <2>7, <2>8, <2>9
    <3> QED
      BY <3>1, <3>2
  <2>11. new < TARGET_LINKS
    <3>1. Cardinality(cycle) <= Cardinality(seen)
      BY <2>3, <2>5, <2>9, FS_Subset
    <3>2. Cardinality(seen) <= TARGET_LINKS
      <4>1. Wanted \subseteq Slot
        BY DEF Wanted, InState, IInv, AllTraced
      <4>2. Cardinality(Wanted) \in Nat
        BY <2>9, <4>1
      <4> QED
        BY <2>1, <4>2, MultiLinkAssumption
    <3>3. Cardinality(seen) \in Nat
      BY <2>3, <2>9
    <3> QED
      BY <2>10, <3>1, <3>2, <3>3, MultiLinkAssumption
  <2>12. ASSUME \A t \in Slot : passed'[t] <= (IF t \in remaining' THEN 2 ELSE 1) * all - 1 - new
         PROVE  Shared'
    <3>1. passed' \in [Slot -> Nat]
      <4>1. passed \in [Slot -> Nat]
        BY DEF Shared
      <4> QED
        BY <2>1, <4>1
    <3>2. remaining' \subseteq Slot
      BY <2>5, <2>9
    <3> QED
      BY <2>6, <2>8, <2>11, <2>12, <3>1, <3>2 DEF Shared
  <2>13. CASE remaining \cap live # {}
    <3>1. cycle = remaining \cap live
      BY <2>4, <2>13
    <3>2. Cardinality(cycle) <= old
      BY <2>7, <2>9, <3>1, FS_Subset
    <3>3. new + 1 <= old /\ old <= all
      BY <2>7, <2>9, <2>10, <3>2
    <3>4. ASSUME NEW t \in Slot
          PROVE  passed'[t] <= (IF t \in remaining' THEN 2 ELSE 1) * all - 1 - new
      <4>1. passed[t] \in Nat /\ passed[t] <= (IF t \in remaining THEN 2 ELSE 1) * all - 1 - old
        BY <2>6, <2>7 DEF Shared
      <4>2. CASE t \in live \ {s}
        <5>1. passed'[t] = passed[t] + 1
          BY <2>1, <2>2, <4>2
        <5>2. t \in remaining <=> t \in remaining'
          BY <2>5, <3>1, <4>2
        <5> QED
          BY <2>9, <2>10, <3>3, <4>1, <5>1, <5>2
      <4>3. CASE t \notin live \ {s}
        <5>1. passed'[t] = 0
          BY <2>1, <2>2, <4>3
        <5> QED
          BY <2>9, <2>10, <3>3, <5>1
      <4> QED
        BY <4>2, <4>3
    <3> QED
      BY <2>12, <3>4
  <2>14. CASE remaining \cap live = {}
    <3>1. cycle = live
      BY <2>4, <2>14
    <3>2. new + 1 <= all
      BY <2>9, <2>10
    <3>3. ASSUME NEW t \in Slot
          PROVE  passed'[t] <= (IF t \in remaining' THEN 2 ELSE 1) * all - 1 - new
      <4>1. passed[t] \in Nat /\ passed[t] <= (IF t \in remaining THEN 2 ELSE 1) * all - 1 - old
        BY <2>6, <2>7 DEF Shared
      <4>2. CASE t \in live \ {s}
        <5>1. passed'[t] = passed[t] + 1 /\ t \in remaining' /\ t \notin remaining
          BY <2>1, <2>2, <2>5, <2>14, <3>1, <4>2
        <5> QED
          BY <2>9, <2>10, <3>2, <4>1, <5>1
      <4>3. CASE t \notin live \ {s}
        <5>1. passed'[t] = 0
          BY <2>1, <2>2, <4>3
        <5> QED
          BY <2>9, <2>10, <3>2, <5>1
      <4> QED
        BY <4>2, <4>3
    <3> QED
      BY <2>12, <3>3
  <2> QED
    BY <2>13, <2>14
<1> QED
  BY <1>1, <1>2 DEF Next, vars, Step, Make, NextPhase, Hold, Warm, Lost, NotConfirmed, Leave, Take,
     StopAsking, Close, Finish, Abort, Drop, Packet, PeerStats, Order

LEMMA SharedHolds == Spec => []Shared
<1>1. Init => Shared
  <2> SUFFICES ASSUME Init
               PROVE  Shared
    OBVIOUS
  <2>1. Cardinality(remaining) = 0 /\ Cardinality(Slot) \in Nat
    BY FS_EmptySet, FS_CardinalityType, MultiLinkAssumption DEF Init
  <2>2. \A s \in Slot : Cardinality(Slot) # 0
    BY FS_EmptySet, MultiLinkAssumption
  <2> QED
    BY <2>1, <2>2, MultiLinkAssumption DEF Init, Shared
<1>2. IInv /\ [Next]_vars => IInv'
  BY StepTyped, StepTraces DEF IInv
<1> QED
  BY <1>1, <1>2, InitIInv, SharedKept, PTL DEF Spec

(* A hole that packets may go over is passed at most twice by each of the   *)
(* others before it has its turn, whatever comes, drains and goes meanwhile, *)
(* and whichever holes the picker sees (SlotPicker::pick).                 *)
THEOREM LoadIsSharedHolds == Spec => []LoadIsShared
<1>1. Shared => LoadIsShared
  <2> SUFFICES ASSUME Shared, NEW s \in Slot
               PROVE  passed[s] <= 2 * (Cardinality(Slot) - 1)
    BY DEF LoadIsShared
  <2>1. Cardinality(Slot) \in Nat /\ Cardinality(remaining) \in Nat
    <3>1. IsFiniteSet(Slot) /\ IsFiniteSet(remaining)
      BY FS_Subset, MultiLinkAssumption DEF Shared
    <3> QED
      BY <3>1, FS_CardinalityType
  <2>2. Cardinality(Slot) # 0
    BY FS_EmptySet, MultiLinkAssumption
  <2>3. s \in remaining => Cardinality(remaining) # 0
    <3>1. IsFiniteSet(remaining)
      BY FS_Subset, MultiLinkAssumption DEF Shared
    <3> QED
      BY <3>1, FS_EmptySet
  <2> QED
    BY <2>1, <2>2, <2>3 DEF Shared
<1> QED
  BY <1>1, SharedHolds, PTL

(* The tasks, channels, journals and counters keep their types; a channel    *)
(* never holds more than COMMANDS, nor the picker more than it has room for. *)
THEOREM TypeCorrect == Spec => []TypeOK
<1>1. IInv /\ Shared => TypeOK
  <2> SUFFICES ASSUME IInv, Shared
               PROVE  TypeOK
    OBVIOUS
  <2>1. \A s \in DOMAIN ctl : s \in Slot /\ ctl[s] \in BoundedSeq(Command, COMMANDS)
    <3> SUFFICES ASSUME NEW s \in DOMAIN ctl
                 PROVE  s \in Slot /\ ctl[s] \in BoundedSeq(Command, COMMANDS)
      OBVIOUS
    <3>1. s \in Slot /\ ctl[s] \in Seq(Command) /\ Len(ctl[s]) <= COMMANDS
      BY DEF IInv, Typed, AllTraced
    <3>2. Len(ctl[s]) \in 0 .. COMMANDS /\ ctl[s] \in [1 .. Len(ctl[s]) -> Command]
      BY <3>1, LenProperties, MultiLinkAssumption
    <3> QED
      BY <3>1, <3>2 DEF BoundedSeq, SeqOf
  <2>2. \A s \in DOMAIN by_slot : s \in Slot /\ by_slot[s] \in {"Warming", "Active", "Draining"}
    BY DEF IInv, AllTraced, Traced, StateFits
  <2>3. \A s \in Slot : \A i \in DOMAIN log[s] : log[s][i] \in Kind
    <3> SUFFICES ASSUME NEW s \in Slot, NEW i \in DOMAIN log[s]
                 PROVE  log[s][i] \in Kind
      OBVIOUS
    <3>1. log[s] \in Seq(Kind)
      BY DEF IInv, Typed
    <3> QED
      BY <3>1, ElementOfSeq, LenProperties
  <2> QED
    BY <2>1, <2>2, <2>3 DEF TypeOK, IInv, Typed, AllTraced, Shared, Stage
<1> QED
  BY <1>1, Invariance, SharedHolds, PTL
=============================================================================
