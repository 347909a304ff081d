---------------------------- MODULE BroadcastLog ----------------------------
(***************************************************************************)
(* What the message broker promises to the rest of the bot, with no queue, *)
(* no goroutine and no lock: one growing log of accepted messages, read in *)
(* lockstep by readers that join at some point of it.                      *)
(***************************************************************************)
EXTENDS Naturals, Sequences

CONSTANTS Messages,  \* what may be accepted: numbers, in the order of sending
          Readers,   \* who may join
          Lag        \* how far the log may run ahead of a joined reader

VARIABLES log,       \* accepted messages, oldest first
          position   \* position[r]: index of r's next message; 0: not joined

Joined(pos) == {r \in Readers : pos[r] # 0}

\* No reader is more than one message ahead of another.
InStep(pos) == \A r, s \in Joined(pos) : pos[r] <= pos[s] + 1

Init == /\ log = <<>>
        /\ position = [r \in Readers |-> 0]

\* Messages enter in the order they were sent (m is newer than the whole
\* log), and only while no reader has Lag messages still to begin.
Accept(m) ==
  /\ \A k \in 1..Len(log) : log[k] < m
  /\ \A r \in Joined(position) : Len(log) + 1 < position[r] + Lag
  /\ log' = Append(log, m)
  /\ UNCHANGED position

Join(r) ==
  /\ position[r] = 0
  /\ \E k \in 1..(Len(log) + 1) : position' = [position EXCEPT ![r] = k]
  /\ InStep(position')
  /\ UNCHANGED log

Read(r) ==
  /\ position[r] \in 1..Len(log)
  /\ position' = [position EXCEPT ![r] = @ + 1]
  /\ InStep(position')
  /\ UNCHANGED log

Next == \/ \E m \in Messages : Accept(m)
        \/ \E r \in Readers : Join(r) \/ Read(r)

Spec == Init /\ [][Next]_<<log, position>>

=============================================================================
