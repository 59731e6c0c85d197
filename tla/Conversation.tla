---------------------------- MODULE Conversation ----------------------------
(***************************************************************************)
(* What every server of the repository promises each of its clients,       *)
(* whatever it multiplexes with: the server listens, hears something new,  *)
(* answers it once, and listens again, until it leaves.  An answer may be  *)
(* dropped, or a turn be empty, only on a connection the client has        *)
(* broken.                                                                 *)
(***************************************************************************)
EXTENDS Integers

CONSTANT Conns

VARIABLES
  phase,   \* phase[c]: where the conversation with c stands
  heard,   \* heard[c]: bytes taken from c
  said,    \* said[c]: what c was told, in bytes or in answers
  broken   \* the connections their clients have reset

conversationVars == <<phase, heard, said, broken>>

Phase == {"waiting", "listening", "answering", "over"}

Init ==
  /\ phase = [c \in Conns |-> "waiting"]
  /\ heard = [c \in Conns |-> 0]
  /\ said = [c \in Conns |-> 0]
  /\ broken = {}

Turn(c, from, to) ==
  /\ phase[c] = from
  /\ phase' = [phase EXCEPT ![c] = to]

Admit(c) == Turn(c, "waiting", "listening") /\ UNCHANGED <<heard, said, broken>>

Hear(c) ==
  /\ Turn(c, "listening", "answering")
  /\ heard'[c] > heard[c]
  /\ heard' = [heard EXCEPT ![c] = heard'[c]]
  /\ UNCHANGED <<said, broken>>

Answer(c) ==
  /\ Turn(c, "answering", "listening")
  /\ said'[c] > said[c]
  /\ said'[c] <= heard[c]
  /\ said' = [said EXCEPT ![c] = said'[c]]
  /\ UNCHANGED <<heard, broken>>

\* On a broken connection a turn may pass without a word on either side.
Falter(c) ==
  /\ c \in broken
  /\ Turn(c, "listening", "answering") \/ Turn(c, "answering", "listening")
  /\ UNCHANGED <<heard, said, broken>>

\* The client resets; the call that notices it may be an empty turn as well.
Break(c) ==
  /\ c \notin broken
  /\ broken' = broken \cup {c}
  /\ UNCHANGED <<phase, heard, said>>

Leave(c) == Turn(c, "listening", "over") /\ UNCHANGED <<heard, said, broken>>

Next ==
  \E c \in Conns :
    Admit(c) \/ Hear(c) \/ Answer(c) \/ Falter(c) \/ Break(c) \/ Leave(c)

Spec == Init /\ [][Next]_conversationVars
=============================================================================
