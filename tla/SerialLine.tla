----------------------------- MODULE SerialLine ------------------------------
(***************************************************************************)
(* What a serial controller promises to the program that drives it: the    *)
(* characters that come down the line are read in order, once each, and a  *)
(* character that is sent leaves once, or comes back in a loopback test.   *)
(***************************************************************************)
EXTENDS Sequences

CONSTANT Char

VARIABLES
  line,     \* characters on their way to the controller
  buffer,   \* characters received and not yet read
  sending,  \* the character that has not left yet, if there is one
  got,      \* the character the program read last
  left      \* the character that left last

lineVars == <<line, buffer, sending, got, left>>

LineInit ==
  /\ line = <<>> /\ buffer = <<>> /\ sending = <<>>
  /\ got \in Char /\ left \in Char

Types(c) == line' = Append(line, c) /\ UNCHANGED <<buffer, sending, got, left>>

Arrives ==
  /\ line # <<>>
  /\ line' = Tail(line) /\ buffer' = Append(buffer, Head(line))
  /\ UNCHANGED <<sending, got, left>>

Reads ==
  /\ buffer # <<>>
  /\ buffer' = Tail(buffer) /\ got' = Head(buffer)
  /\ UNCHANGED <<line, sending, left>>

Sends(c) ==
  /\ sending = <<>>
  /\ sending' = <<c>>
  /\ UNCHANGED <<line, buffer, got, left>>

Leaves ==
  /\ sending # <<>>
  /\ sending' = <<>> /\ left' = Head(sending)
  /\ UNCHANGED <<line, buffer, got>>

ComesBack ==
  /\ sending # <<>>
  /\ sending' = <<>> /\ buffer' = Append(buffer, Head(sending))
  /\ UNCHANGED <<line, got, left>>

(* The controller is reset and forgets what it holds.                      *)
Forgets == buffer' = <<>> /\ sending' = <<>> /\ UNCHANGED <<line, got, left>>

LineNext ==
  \/ \E c \in Char : Types(c) \/ Sends(c)
  \/ Arrives \/ Reads \/ Leaves \/ ComesBack \/ Forgets

LineSpec == LineInit /\ [][LineNext]_lineVars
=============================================================================
