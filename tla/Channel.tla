------------------------------ MODULE Channel ------------------------------
(***************************************************************************)
(* What a bound client session is promised of its output: an abstract      *)
(* channel.  The session gives stanzas to the channel; the client receives *)
(* a prefix of what was given, in order and without gaps; an              *)
(* acknowledgement covers only stanzas the client's socket has taken, and  *)
(* none is given once the channel is broken.  Stored copies of messages    *)
(* are removed on the strength of an acknowledgement (Offline), so this is *)
(* what "not lost" rests on.                                               *)
(***************************************************************************)
EXTENDS Naturals, Sequences

CONSTANT Stanza

VARIABLES
  given,     \* the stanzas the session handed over, oldest first
  wire,      \* the stanzas that left for the client
  acked,     \* how many of them the session was told have left
  open       \* neither half has given up

vars == <<given, wire, acked, open>>

Init ==
  /\ given = << >>
  /\ wire = << >>
  /\ acked = 0
  /\ open = TRUE

\* The session hands over one stanza.
Give ==
  /\ open
  /\ \E s \in Stanza : given' = Append(given, s)
  /\ UNCHANGED <<wire, acked, open>>

\* More of what was given leaves; output in hand may still leave at the close.
Leave ==
  /\ \E n \in Len(wire) + 1..Len(given) : wire' = SubSeq(given, 1, n)
  /\ UNCHANGED <<given, acked, open>>

\* The session learns that a prefix has left.
Acknowledge ==
  /\ open
  /\ acked' \in acked + 1..Len(wire)
  /\ UNCHANGED <<given, wire, open>>

\* The connection fails or the session ends: nothing is acknowledged any more.
Break ==
  /\ open
  /\ open' = FALSE
  /\ UNCHANGED <<given, wire, acked>>

Next == Give \/ Leave \/ Acknowledge \/ Break

Spec == Init /\ [][Next]_vars
=============================================================================
