------------------------------ MODULE Channels ------------------------------
(***************************************************************************)
(* The channel runtime of the VM (src/vm/src/channel.rs) driven by fibers  *)
(* that the cooperative executor interleaves.                              *)
(*                                                                         *)
(* A channel of capacity 0 is the Rendezvous variant: one RefCell holding  *)
(* NotReady, Ready, InPlace(v) or Closed.  Any other capacity is the       *)
(* Bounded variant, a FIFO of async_channel; only its try_send, try_recv   *)
(* and close are used, and they are modelled by their documented contract *)
(* (a bounded queue that refuses pushes once closed and keeps delivering   *)
(* what it holds after close).                                             *)
(*                                                                         *)
(* Each fiber runs a straight-line program of channel operations.  The     *)
(* async send, recv and Selector::select are polling loops around          *)
(* try_send and try_recv that yield_now() when nothing succeeds; one step *)
(* of a fiber is one iteration of such a loop.  A fiber runs alone between *)
(* two yields (single-threaded LocalExecutor), so one iteration, including *)
(* the whole scan of a select, is one atomic step.  An iteration that      *)
(* changes nothing is a stuttering step and is left out.                   *)
(***************************************************************************)
EXTENDS Naturals, Sequences, SequencesExt

CONSTANTS
    Fibers,     \* the fibers spawned on the executor
    Chans,      \* the channel objects
    Values,     \* the payloads that are sent (each sent at most once)
    NoValue,    \* the None of recv, and the empty InPlace slot
    Cap,        \* Cap[c]: the capacity given to Channel::new
    Prog        \* Prog[f]: the sequence of operations fiber f performs

ASSUME NoValue \notin Values
ASSUME Cap \in [Chans -> Nat]

(* The operations of a program.  A select comm is a send or a recv case.  *)
SendOp(c, v)       == [kind |-> "send", ch |-> c, val |-> v]
RecvOp(c)          == [kind |-> "recv", ch |-> c]
CloseOp(c)         == [kind |-> "close", ch |-> c]
SelectOp(cs, dflt) == [kind |-> "select", comms |-> cs, default |-> dflt]

VARIABLES
    chan,       \* chan[c]: the state of channel c
    pc,         \* pc[f]: index in Prog[f] of the operation fiber f is in
    status,     \* "run", "done", or "failed" (a runtime error ended it)
    sentLog,    \* sentLog[c]: the values whose send on c returned Ok, in order
    recvLog     \* recvLog[c]: the values taken from c by a receive, in order

vars == <<chan, pc, status, sentLog, recvLog>>

(* Rendezvous channels use rs and slot (the value of InPlace); bounded    *)
(* channels use buf and closed.                                           *)
RendezvousStates == {"NotReady", "Ready", "InPlace", "Closed"}

ChanState ==
    [rs: RendezvousStates, slot: Values \cup {NoValue},
     buf: Seq(Values), closed: BOOLEAN]

IsRendezvous(c) == Cap[c] = 0

-----------------------------------------------------------------------------
(* Faults of try_send and try_recv that a plausible edit of channel.rs    *)
(* would make; each property checked on MCChannels.cfg fails under one.   *)

(* The bounded send forgets the capacity check.                           *)
try_send_ignoring_cap(ch, c, v) ==
    IF IsRendezvous(c)
    THEN CASE ch.rs = "Ready"  -> [res |-> "Ok",
                                   ch |-> [ch EXCEPT !.rs = "InPlace", !.slot = v]]
           [] ch.rs = "Closed" -> [res |-> "Closed", ch |-> ch]
           [] OTHER            -> [res |-> "Full", ch |-> ch]
    ELSE IF ch.closed THEN [res |-> "Closed", ch |-> ch]
         ELSE [res |-> "Ok", ch |-> [ch EXCEPT !.buf = Append(@, v)]]

(* The bounded send forgets that the channel was closed.                 *)
try_send_ignoring_closed(ch, c, v) ==
    IF IsRendezvous(c)
    THEN CASE ch.rs = "Ready"  -> [res |-> "Ok",
                                   ch |-> [ch EXCEPT !.rs = "InPlace", !.slot = v]]
           [] ch.rs = "Closed" -> [res |-> "Closed", ch |-> ch]
           [] OTHER            -> [res |-> "Full", ch |-> ch]
    ELSE IF Len(ch.buf) >= Cap[c] THEN [res |-> "Full", ch |-> ch]
         ELSE [res |-> "Ok", ch |-> [ch EXCEPT !.buf = Append(@, v)]]

(* The rendezvous receive clones the InPlace value instead of replacing   *)
(* the state with NotReady.                                               *)
try_recv_keeping_value(ch, c) ==
    IF IsRendezvous(c) /\ ch.rs = "InPlace"
    THEN [res |-> "Ok", val |-> ch.slot, ch |-> ch]
    ELSE IF IsRendezvous(c)
    THEN CASE ch.rs = "NotReady" -> [res |-> "Empty", val |-> NoValue,
                                     ch |-> [ch EXCEPT !.rs = "Ready"]]
           [] ch.rs = "Closed"   -> [res |-> "Closed", val |-> NoValue, ch |-> ch]
           [] OTHER              -> [res |-> "Empty", val |-> NoValue, ch |-> ch]
    ELSE CASE ch.buf # <<>> -> [res |-> "Ok", val |-> Head(ch.buf),
                                ch |-> [ch EXCEPT !.buf = Tail(@)]]
           [] ch.closed     -> [res |-> "Closed", val |-> NoValue, ch |-> ch]
           [] OTHER         -> [res |-> "Empty", val |-> NoValue, ch |-> ch]

(* A waiting receiver that polls again on Ready withdraws to NotReady.    *)
try_recv_withdrawing(ch, c) ==
    IF IsRendezvous(c) /\ ch.rs = "Ready"
    THEN [res |-> "Empty", val |-> NoValue, ch |-> [ch EXCEPT !.rs = "NotReady"]]
    ELSE IF IsRendezvous(c)
    THEN CASE ch.rs = "NotReady" -> [res |-> "Empty", val |-> NoValue,
                                     ch |-> [ch EXCEPT !.rs = "Ready"]]
           [] ch.rs = "InPlace"  -> [res |-> "Ok", val |-> ch.slot,
                                     ch |-> [ch EXCEPT !.rs = "NotReady", !.slot = NoValue]]
           [] OTHER              -> [res |-> "Closed", val |-> NoValue, ch |-> ch]
    ELSE CASE ch.buf # <<>> -> [res |-> "Ok", val |-> Head(ch.buf),
                                ch |-> [ch EXCEPT !.buf = Tail(@)]]
           [] ch.closed     -> [res |-> "Closed", val |-> NoValue, ch |-> ch]
           [] OTHER         -> [res |-> "Empty", val |-> NoValue, ch |-> ch]

-----------------------------------------------------------------------------
(* Channel::new                                                           *)
new == [rs |-> "NotReady", slot |-> NoValue, buf |-> <<>>, closed |-> FALSE]

(* Channel::try_send on channel c in state ch: the result and the new     *)
(* state.  A rendezvous send succeeds only when a receiver marked Ready.  *)
try_send(ch, c, v) ==
    IF IsRendezvous(c)
    THEN CASE ch.rs = "Ready"  -> [res |-> "Ok",
                                   ch |-> [ch EXCEPT !.rs = "InPlace", !.slot = v]]
           [] ch.rs = "Closed" -> [res |-> "Closed", ch |-> ch]
           [] OTHER            -> [res |-> "Full", ch |-> ch]
    ELSE CASE ch.closed              -> [res |-> "Closed", ch |-> ch]
           [] Len(ch.buf) >= Cap[c]  -> [res |-> "Full", ch |-> ch]
           [] OTHER                  -> [res |-> "Ok",
                                         ch |-> [ch EXCEPT !.buf = Append(@, v)]]

(* Channel::try_recv: the result, the value taken and the new state.  On  *)
(* NotReady the receiver announces itself by setting Ready.               *)
try_recv(ch, c) ==
    IF IsRendezvous(c)
    THEN CASE ch.rs = "NotReady" -> [res |-> "Empty", val |-> NoValue,
                                     ch |-> [ch EXCEPT !.rs = "Ready"]]
           [] ch.rs = "InPlace"  -> [res |-> "Ok", val |-> ch.slot,
                                     ch |-> [ch EXCEPT !.rs = "NotReady", !.slot = NoValue]]
           [] ch.rs = "Closed"   -> [res |-> "Closed", val |-> NoValue, ch |-> ch]
           [] OTHER              -> [res |-> "Empty", val |-> NoValue, ch |-> ch]
    ELSE CASE ch.buf # <<>> -> [res |-> "Ok", val |-> Head(ch.buf),
                                ch |-> [ch EXCEPT !.buf = Tail(@)]]
           [] ch.closed     -> [res |-> "Closed", val |-> NoValue, ch |-> ch]
           [] OTHER         -> [res |-> "Empty", val |-> NoValue, ch |-> ch]

(* Channel::close: a rendezvous channel becomes Closed whatever it held.  *)
close(ch, c) ==
    IF IsRendezvous(c)
    THEN [ch EXCEPT !.rs = "Closed", !.slot = NoValue]
    ELSE [ch EXCEPT !.closed = TRUE]

(* One pass of the loop of Selector::select over the comms, starting at   *)
(* rand_start and trying them in rotation on the channel states chs.  The *)
(* first case that does not would-block ends the pass; the states left by *)
(* the cases tried before it (a Ready mark) are kept.  idx is the index   *)
(* (1-based) of the case that ended the pass.                             *)
RECURSIVE scan(_, _, _, _)
scan(comms, i, rand_start, chs) ==
    IF i = Len(comms)
    THEN [res |-> "None", idx |-> 0, val |-> NoValue, chans |-> chs]
    ELSE LET index == ((i + rand_start) % Len(comms)) + 1
             e     == comms[index]
         IN IF e.kind = "send"
            THEN LET r == try_send(chs[e.ch], e.ch, e.val)
                 IN CASE r.res = "Ok"     -> [res |-> "Sent", idx |-> index, val |-> NoValue,
                                              chans |-> [chs EXCEPT ![e.ch] = r.ch]]
                      [] r.res = "Closed" -> [res |-> "SendClosed", idx |-> index,
                                              val |-> NoValue, chans |-> chs]
                      [] OTHER            -> scan(comms, i + 1, rand_start, chs)
            ELSE LET r == try_recv(chs[e.ch], e.ch)
                     chs2 == [chs EXCEPT ![e.ch] = r.ch]
                 IN CASE r.res = "Ok"     -> [res |-> "Recvd", idx |-> index, val |-> r.val,
                                              chans |-> chs2]
                      [] r.res = "Closed" -> [res |-> "RecvClosed", idx |-> index,
                                              val |-> NoValue, chans |-> chs2]
                      [] OTHER            -> scan(comms, i + 1, rand_start, chs2)

-----------------------------------------------------------------------------
Op(f) == Prog[f][pc[f]]

(* The fiber moves past its current operation.                            *)
Advance(f) ==
    /\ pc' = [pc EXCEPT ![f] = @ + 1]
    /\ status' = [status EXCEPT ![f] = IF pc[f] + 1 > Len(Prog[f]) THEN "done" ELSE "run"]

(* The send returned Err("channel closed!"): the fiber's main loop sees    *)
(* Result::Error and the fiber ends.                                       *)
Fail(f) ==
    /\ status' = [status EXCEPT ![f] = "failed"]
    /\ UNCHANGED pc

Running(f) == status[f] = "run"

(* One iteration of Channel::send.                                        *)
send(f) ==
    /\ Running(f)
    /\ Op(f).kind = "send"
    /\ LET c == Op(f).ch
           r == try_send(chan[c], c, Op(f).val)
       IN \/ /\ r.res = "Ok"
             /\ chan' = [chan EXCEPT ![c] = r.ch]
             /\ sentLog' = [sentLog EXCEPT ![c] = Append(@, Op(f).val)]
             /\ Advance(f)
             /\ UNCHANGED recvLog
          \/ /\ r.res = "Closed"
             /\ Fail(f)
             /\ UNCHANGED <<chan, sentLog, recvLog>>

(* One iteration of Channel::recv; a recv on a closed channel returns     *)
(* None and the fiber goes on.                                            *)
recv(f) ==
    /\ Running(f)
    /\ Op(f).kind = "recv"
    /\ LET c == Op(f).ch
           r == try_recv(chan[c], c)
       IN \/ /\ r.res = "Ok"
             /\ chan' = [chan EXCEPT ![c] = r.ch]
             /\ recvLog' = [recvLog EXCEPT ![c] = Append(@, r.val)]
             /\ Advance(f)
             /\ UNCHANGED sentLog
          \/ /\ r.res = "Closed"
             /\ Advance(f)
             /\ UNCHANGED <<chan, sentLog, recvLog>>
          \/ /\ r.res = "Empty"
             /\ r.ch # chan[c]
             /\ chan' = [chan EXCEPT ![c] = r.ch]
             /\ UNCHANGED <<pc, status, sentLog, recvLog>>

(* ChannelObj::close                                                      *)
closeChan(f) ==
    /\ Running(f)
    /\ Op(f).kind = "close"
    /\ chan' = [chan EXCEPT ![Op(f).ch] = close(@, Op(f).ch)]
    /\ Advance(f)
    /\ UNCHANGED <<sentLog, recvLog>>

(* One iteration of the loop of Selector::select.  A fresh Selector has   *)
(* pseudo_rand 0, and rand_start is read once before the loop.            *)
select(f) ==
    /\ Running(f)
    /\ Op(f).kind = "select"
    /\ LET comms == Op(f).comms
           s     == scan(comms, 0, 0, chan)
           c     == IF s.idx = 0 THEN CHOOSE x \in Chans : TRUE ELSE comms[s.idx].ch
       IN /\ chan' = s.chans
          /\ \/ /\ s.res = "Sent"
                /\ sentLog' = [sentLog EXCEPT ![c] = Append(@, comms[s.idx].val)]
                /\ Advance(f)
                /\ UNCHANGED recvLog
             \/ /\ s.res = "Recvd"
                /\ recvLog' = [recvLog EXCEPT ![c] = Append(@, s.val)]
                /\ Advance(f)
                /\ UNCHANGED sentLog
             \/ /\ s.res = "SendClosed"
                /\ Fail(f)
                /\ UNCHANGED <<sentLog, recvLog>>
             \/ /\ s.res = "RecvClosed"
                /\ Advance(f)
                /\ UNCHANGED <<sentLog, recvLog>>
             \/ /\ s.res = "None"
                /\ Op(f).default
                /\ Advance(f)
                /\ UNCHANGED <<sentLog, recvLog>>
             \/ /\ s.res = "None"
                /\ ~Op(f).default
                /\ s.chans # chan
                /\ UNCHANGED <<pc, status, sentLog, recvLog>>

-----------------------------------------------------------------------------
Init ==
    /\ chan = [c \in Chans |-> new]
    /\ pc = [f \in Fibers |-> 1]
    /\ status = [f \in Fibers |-> IF Prog[f] = <<>> THEN "done" ELSE "run"]
    /\ sentLog = [c \in Chans |-> <<>>]
    /\ recvLog = [c \in Chans |-> <<>>]

Step(f) == send(f) \/ recv(f) \/ closeChan(f) \/ select(f)

(* GosVM::run returns once try_tick finds no task left: every fiber has  *)
(* returned or failed.  A state where some fiber still runs but none can  *)
(* step is a livelock of polling fibers, reported as a deadlock.          *)
Terminated ==
    /\ \A f \in Fibers : ~Running(f)
    /\ UNCHANGED vars

Next == (\E f \in Fibers : Step(f)) \/ Terminated

(* LocalExecutor keeps every task that yields in its run queue and        *)
(* try_tick polls them in turn, so a fiber whose next iteration can make  *)
(* progress keeps being polled until it does: weak fairness per fiber.    *)
Fairness == \A f \in Fibers : WF_vars(Step(f))

Spec == Init /\ [][Next]_vars /\ Fairness

-----------------------------------------------------------------------------
TypeOK ==
    /\ chan \in [Chans -> ChanState]
    /\ \A c \in Chans : Len(chan[c].buf) <= Cap[c]
    /\ pc \in [Fibers -> Nat \ {0}]
    /\ status \in [Fibers -> {"run", "done", "failed"}]
    /\ sentLog \in [Chans -> Seq(Values)]
    /\ recvLog \in [Chans -> Seq(Values)]

(* What a channel holds: the bounded FIFO, or the value a sender left     *)
(* InPlace for the receiver.                                              *)
Pending(c) ==
    IF IsRendezvous(c)
    THEN IF chan[c].rs = "InPlace" THEN <<chan[c].slot>> ELSE <<>>
    ELSE chan[c].buf

(* Conservation and order: every value whose send returned Ok has been    *)
(* received in the order it was sent, or is still held by the channel;   *)
(* nothing is received twice, nothing is lost, nothing is reordered, by   *)
(* any interleaving of senders, receivers, selects and close.             *)
ChannelConservation ==
    \A c \in Chans : sentLog[c] = recvLog[c] \o Pending(c)

(* The fiber g is waiting to receive on c: it is in a recv on c, or in a  *)
(* select with a recv case on c.                                          *)
WaitsToRecv(g, c) ==
    /\ Running(g)
    /\ \/ Op(g) = RecvOp(c)
       \/ /\ Op(g).kind = "select"
          /\ \E i \in DOMAIN Op(g).comms :
                Op(g).comms[i].kind = "recv" /\ Op(g).comms[i].ch = c

(* Rendezvous handshake (spec 8, "rendezvous send blocks until a receive  *)
(* is pending"): a send on a rendezvous channel completes only while      *)
(* another fiber is waiting to receive on it.                             *)
RendezvousHandshake ==
    [][\A c \in Chans :
          (IsRendezvous(c) /\ Len(sentLog'[c]) > Len(sentLog[c]))
             => \E g \in Fibers : pc'[g] = pc[g] /\ WaitsToRecv(g, c)]_vars

(* Every fiber ends (returns or fails) when the program has a receive for *)
(* every send: polling never livelocks a matched exchange.                *)
AllFibersEnd == <>(\A f \in Fibers : ~Running(f))

(* The channel state as a Go program sees it: what Pending holds, and    *)
(* whether the channel is closed.                                         *)
GC == INSTANCE GoChannels
        WITH q <- [c \in Chans |-> Pending(c)],
             closed <- [c \in Chans |-> IF IsRendezvous(c) THEN chan[c].rs = "Closed"
                                                          ELSE chan[c].closed],
             received <- recvLog

(* The polling send, recv and select of channel.rs, with their Ready and *)
(* InPlace hand-off, implement Go channels: every step of the fibers is a *)
(* step of GoChannels, a FIFO per channel that refuses sends once closed,  *)
(* hands an unbuffered value only to a waiting receiver, and lets a      *)
(* select take its default only when no case is ready.                    *)
ImplementsGoChannels == GC!Spec

=============================================================================
