-------------------------------- MODULE Bus ---------------------------------
(***************************************************************************)
(* The in-process publish/subscribe of foldbase (bus/bus.go): a buffered   *)
(* channel and an overflow signal per subscriber, keyed by tenant.  Each   *)
(* operation holds the bus mutex, so it is one atomic change of the state; *)
(* a publication never waits for anybody.                                  *)
(***************************************************************************)
EXTENDS Naturals, Sequences

CONSTANTS
  Clients,      \* subscribers, one bus registration each at a time
  Tenants, NoTenant,
  BufferSize    \* events a channel holds (256 in the code)

ASSUME BusAssumption == BufferSize \in Nat \ {0} /\ NoTenant \notin Tenants

VARIABLES
  reg,    \* reg[c]: the tenant c is registered under, or NoTenant
  chan,   \* chan[c]: the events buffered for c, oldest first
  over    \* over[c]: has c's overflow channel been closed?

busVars == <<reg, chan, over>>

BusTypeOK(Event) ==
  /\ reg \in [Clients -> Tenants \cup {NoTenant}]
  /\ chan \in [Clients -> Seq(Event)]
  /\ \A c \in Clients : Len(chan[c]) <= BufferSize
  /\ over \in [Clients -> BOOLEAN]

BusInit ==
  /\ reg = [c \in Clients |-> NoTenant]
  /\ chan = [c \in Clients |-> <<>>]
  /\ over = [c \in Clients |-> FALSE]

-----------------------------------------------------------------------------
Subscribe(c, t) ==
  /\ reg' = [reg EXCEPT ![c] = t]
  /\ chan' = [chan EXCEPT ![c] = <<>>]
  /\ over' = [over EXCEPT ![c] = FALSE]

(* The channel of a session that left is garbage. *)
Unsubscribe(c) == Subscribe(c, NoTenant)

EveryClient(t) == Clients
Audience(t) == {c \in Clients : reg[c] = t}

HasRoomForOneMore(c) == Len(chan[c]) <= BufferSize
HasRoom(c) == Len(chan[c]) < BufferSize

(* What the select of Publish does to the overflow signal of one subscriber. *)
SignalledNever(c) == over[c]
Signalled(c) == over[c] \/ ~HasRoom(c)

(* A new process starts with an empty bus. *)
BusReset ==
  /\ reg' = [c \in Clients |-> NoTenant]
  /\ chan' = [c \in Clients |-> <<>>]
  /\ over' = [c \in Clients |-> FALSE]

(* Publish delivers to every subscriber of the tenant or signals overflow;   *)
(* an overflowed subscriber stays registered and may receive later events.   *)
PublishWaiting(t, e) ==
  /\ \A c \in Audience(t) : HasRoom(c)
  /\ chan' = [c \in Clients |-> IF c \in Audience(t) THEN Append(chan[c], e) ELSE chan[c]]
  /\ UNCHANGED <<reg, over>>
Publish(t, e) ==
  /\ chan' = [c \in Clients |->
                IF c \in Audience(t) /\ HasRoom(c) THEN Append(chan[c], e) ELSE chan[c]]
  /\ over' = [c \in Clients |-> IF c \in Audience(t) THEN Signalled(c) ELSE over[c]]
  /\ UNCHANGED reg

(* A receive from the subscriber's channel. *)
Take(c) ==
  /\ chan[c] # <<>>
  /\ chan' = [chan EXCEPT ![c] = Tail(@)]
  /\ UNCHANGED <<reg, over>>
=============================================================================
