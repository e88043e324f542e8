---------------------------- MODULE OrderedStream ----------------------------
(***************************************************************************)
(* What a reliable PRUDP substream promises to the code above it, per      *)
(* session: the packets a client sends are handed over one at a time, in   *)
(* the order they were sent, none twice and none skipped.  A new session   *)
(* starts from an empty stream.  InboundStream is the implementation.      *)
(***************************************************************************)
EXTENDS Naturals, Sequences

CONSTANT Packet

VARIABLES
    input,       \* the packets the client has sent in this session
    output       \* the packets handed over in this session

vars == <<input, output>>

Init ==
    /\ input = <<>>
    /\ output = <<>>

Send ==
    /\ input' \in Seq(Packet)
    /\ Len(input') = Len(input) + 1
    /\ \A i \in 1..Len(input) : input'[i] = input[i]
    /\ UNCHANGED output

HandOver ==
    /\ Len(output) < Len(input)
    /\ output' = Append(output, input[Len(output) + 1])
    /\ UNCHANGED input

NewSession ==
    /\ input' = <<>>
    /\ output' = <<>>

Next == Send \/ HandOver \/ NewSession

Spec == Init /\ [][Next]_vars
==============================================================================
