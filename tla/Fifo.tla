-------------------------------- MODULE Fifo ---------------------------------
(***************************************************************************)
(* What a DynaPlex::Queue<T> is to its user: a sequence per object, longer *)
(* at the back, shorter at the front, writable in place, copied by         *)
(* assignment and emptied by being moved from.                             *)
(***************************************************************************)
EXTENDS Sequences, Integers

CONSTANTS
  Objects,  \* the queues of the program
  Values,   \* what they hold
  Sizes     \* the sizes a queue may be constructed with

VARIABLES
  content,  \* content[q]: the items of q, front first
  popped    \* what the last pop_front returned

fifoVars == <<content, popped>>

Init == \E d \in Values :
  content = [q \in Objects |-> <<>>] /\ popped = d

Becomes(q, s) == content' = [content EXCEPT ![q] = s]

Push(q, v) == Becomes(q, Append(content[q], v)) /\ UNCHANGED popped

Pop(q) ==
  /\ content[q] # <<>>
  /\ popped' = Head(content[q])
  /\ Becomes(q, Tail(content[q]))

Write(q, i, v) ==
  /\ i \in 1 .. Len(content[q])
  /\ Becomes(q, [content[q] EXCEPT ![i] = v])
  /\ UNCHANGED popped

Fill(q, list) == Becomes(q, list) /\ UNCHANGED popped

Copy(p, q) == Becomes(q, content[p]) /\ UNCHANGED popped

Move(p, q) ==
  /\ p # q
  /\ content' = [content EXCEPT ![q] = content[p], ![p] = <<>>]
  /\ UNCHANGED popped

Next ==
  \/ \E q \in Objects : \/ \E v \in Values : Push(q, v)
                        \/ Pop(q)
                        \/ \E v \in Values, i \in 1 .. Len(content[q]) : Write(q, i, v)
                        \/ \E n \in Sizes : \E list \in [1 .. n -> Values] : Fill(q, list)
  \/ \E p, q \in Objects : Copy(p, q) \/ Move(p, q)

Spec == Init /\ [][Next]_fifoVars
=============================================================================
