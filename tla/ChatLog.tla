------------------------------ MODULE ChatLog ------------------------------
(* What a chat thread promises its users: a log of whole exchanges, each a  *)
(* question and its answer in one slot.  Exchanges that overlap may share a *)
(* slot, no slot is skipped, and a deleted thread has no log.               *)
EXTENDS Naturals

CONSTANTS Sends

VARIABLES state, log     \* log: the exchanges, as pairs of a send and its slot

LogInit == state = "none" /\ log = {}

Open == state = "none" /\ state' = "live" /\ UNCHANGED log

\* The first slot, and each slot after one that is taken.
Slots == {1} \cup {e[2] + 1 : e \in log}

Exchange(s, n) ==
  /\ state = "live"
  /\ \A e \in log : e[1] # s
  /\ log' = log \cup {<<s, n>>}
  /\ UNCHANGED state

Delete == state = "live" /\ state' = "deleted" /\ log' = {}

LogNext == Open \/ (\E s \in Sends, n \in Slots : Exchange(s, n)) \/ Delete

LogSpec == LogInit /\ [][LogNext]_<<state, log>>
=============================================================================
