------------------------------ MODULE Listener ------------------------------
(***************************************************************************)
(* The task of a VPS server that owns the port all clients knock at        *)
(* (vps/mod.rs, Bootstrap and listen): who is registered under which short *)
(* name, and the channel of commands to it.  A client of the service is    *)
(* registered when its holes are started, by the task that answers for     *)
(* them; a guard in that task takes it off when the task is dropped, at    *)
(* some moment after the client was removed or another one registered      *)
(* under the name.                                                         *)
(*                                                                         *)
(* What clients send changes nothing here: it goes into the channel of     *)
(* whom the name leads to, or is dropped.                                  *)
(***************************************************************************)
EXTENDS Integers, FiniteSets, SequencesExt

CONSTANT COMMAND_QUEUE    \* capacity of the channel of commands

ASSUME ListenerAssumption == COMMAND_QUEUE \in Nat \ {0}

VARIABLES
    listener,      \* clients: name -> the token of its registration
    commands,      \* the channel of commands
    guarded,       \* registrations whose task runs
    leaving        \* registrations whose task is over or aborted and not dropped yet

listening == <<listener, commands, guarded, leaving>>

Registration(name, token) == [name |-> name, token |-> token]
Command(op, r) == [op |-> op, name |-> r.name, token |-> r.token]

ListenerInit == listener = <<>> /\ commands = <<>> /\ guarded = {} /\ leaving = {}

Entered == {Registration(name, listener[name]) : name \in DOMAIN listener}

\* A token is a UUID of its own: it is none of those that are still about.
TokensInUse == {r.token : r \in Entered \cup ToSet(commands) \cup guarded \cup leaving}

Room == Len(commands) < COMMAND_QUEUE
Sent(op, r) == Room /\ commands' = Append(commands, Command(op, r))

\* Bootstrap::register: the sender waits for room.
Register(r) ==
    /\ Sent("register", r) /\ guarded' = guarded \cup {r}
    /\ UNCHANGED <<listener, leaving>>

\* The task of a registration ends.
TaskEnds(registrations) ==
    /\ guarded' = guarded \ registrations
    /\ leaving' = leaving \cup (guarded \cap registrations)

\* The holes of a client are dropped, which aborts their task.
Leave(r) == TaskEnds({r}) /\ UNCHANGED <<listener, commands>>

\* Unregistration::drop: try_send, nothing is told when the channel is full.
GuardDrops(r) ==
    /\ r \in leaving /\ leaving' = leaving \ {r}
    /\ Sent("unregister", r) \/ (~Room /\ UNCHANGED commands)
    /\ UNCHANGED <<listener, guarded>>

\* Bootstrap::inject: a request that came through a relay takes a place, too.
Inject == Sent("inject", Registration("any", 0)) /\ UNCHANGED <<listener, guarded, leaving>>

\* Mutant: a name is taken off whoever asks.
IsRegistered(r) == r.name \in DOMAIN listener

HoldsName(r) == Registration(r.name, r.token) \in Entered

\* listen, its arm of commands.  Who had the name before loses the way to its
\* requests, which ends its task (ClientActor::run).
HandleCommand ==
    /\ commands # <<>> /\ commands' = Tail(commands)
    /\ LET c == Head(commands) IN
       CASE c.op = "register" ->
              /\ listener' = [name \in DOMAIN listener \cup {c.name} |->
                                 IF name = c.name THEN c.token ELSE listener[name]]
              /\ TaskEnds({r \in Entered : r.name = c.name})
         [] c.op = "unregister" /\ HoldsName(c) ->
              /\ listener' = [name \in DOMAIN listener \ {c.name} |-> listener[name]]
              /\ TaskEnds({r \in Entered : r.name = c.name})
         [] OTHER -> UNCHANGED <<listener, guarded, leaving>>
=============================================================================
