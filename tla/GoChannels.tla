----------------------------- MODULE GoChannels -----------------------------
(***************************************************************************)
(* What channels promise a Go program (spec 8 and the Go memory model's   *)
(* channel rules), for the same fiber programs as Channels: a channel is a *)
(* FIFO q of the values sent and not yet received; a buffered channel      *)
(* holds up to its capacity, an unbuffered one accepts a send only while a *)
(* receiver waits, and holds the value for that hand-off; a closed channel *)
(* refuses sends and delivers what it holds, then the zero value; a       *)
(* select takes any case that is ready, and its default only when none is. *)
(***************************************************************************)
EXTENDS Naturals, Sequences

CONSTANTS Fibers, Chans, Values, NoValue, Cap, Prog

VARIABLES
    q,          \* q[c]: the values sent on c and not yet received
    closed,     \* closed[c]: c has been closed
    received,   \* received[c]: the values received from c, in order
    pc,         \* as in Channels
    status      \* as in Channels

avars == <<q, closed, received, pc, status>>

Bound(c) == IF Cap[c] = 0 THEN 1 ELSE Cap[c]

Op(f) == Prog[f][pc[f]]
Running(f) == status[f] = "run"
Advance(f) ==
    /\ pc' = [pc EXCEPT ![f] = @ + 1]
    /\ status' = [status EXCEPT ![f] = IF pc[f] + 1 > Len(Prog[f]) THEN "done" ELSE "run"]

(* Fiber g is blocked in a receive on c, alone or as a case of a select. *)
Waiting(g, c) ==
    /\ Running(g)
    /\ \/ Op(g) = [kind |-> "recv", ch |-> c]
       \/ /\ Op(g).kind = "select"
          /\ \E i \in DOMAIN Op(g).comms : Op(g).comms[i] = [kind |-> "recv", ch |-> c]

CanSend(f, c) ==
    /\ ~closed[c]
    /\ Len(q[c]) < Bound(c)
    /\ Cap[c] = 0 => \E g \in Fibers \ {f} : Waiting(g, c)

(* A communication e of fiber f is ready: it can complete, or it meets a *)
(* closed channel.                                                        *)
Ready(f, e) ==
    IF e.kind = "send" THEN CanSend(f, e.ch) \/ closed[e.ch]
    ELSE q[e.ch] # <<>> \/ closed[e.ch]

(* Fiber f completes communication e.  A send on a closed channel is a   *)
(* run-time panic that ends the fiber.                                    *)
Complete(f, e) ==
    LET c == e.ch IN
    IF e.kind = "send"
    THEN \/ /\ CanSend(f, c)
            /\ q' = [q EXCEPT ![c] = Append(@, e.val)]
            /\ Advance(f)
            /\ UNCHANGED <<closed, received>>
         \/ /\ closed[c]
            /\ status' = [status EXCEPT ![f] = "failed"]
            /\ UNCHANGED <<q, closed, received, pc>>
    ELSE \/ /\ q[c] # <<>>
            /\ q' = [q EXCEPT ![c] = Tail(@)]
            /\ received' = [received EXCEPT ![c] = Append(@, Head(q[c]))]
            /\ Advance(f)
            /\ UNCHANGED closed
         \/ /\ closed[c] /\ q[c] = <<>>
            /\ Advance(f)
            /\ UNCHANGED <<q, closed, received>>

Communicate(f) ==
    /\ Running(f)
    /\ Op(f).kind \in {"send", "recv"}
    /\ Complete(f, Op(f))

CloseChan(f) ==
    /\ Running(f)
    /\ Op(f).kind = "close"
    /\ closed' = [closed EXCEPT ![Op(f).ch] = TRUE]
    /\ Advance(f)
    /\ UNCHANGED <<q, received>>

Select(f) ==
    /\ Running(f)
    /\ Op(f).kind = "select"
    /\ \/ \E i \in DOMAIN Op(f).comms : Complete(f, Op(f).comms[i])
       \/ /\ Op(f).default
          /\ \A i \in DOMAIN Op(f).comms : ~Ready(f, Op(f).comms[i])
          /\ Advance(f)
          /\ UNCHANGED <<q, closed, received>>

Init ==
    /\ q = [c \in Chans |-> <<>>]
    /\ closed = [c \in Chans |-> FALSE]
    /\ received = [c \in Chans |-> <<>>]
    /\ pc = [f \in Fibers |-> 1]
    /\ status = [f \in Fibers |-> IF Prog[f] = <<>> THEN "done" ELSE "run"]

Next == \E f \in Fibers : Communicate(f) \/ CloseChan(f) \/ Select(f)

Spec == Init /\ [][Next]_avars

=============================================================================
