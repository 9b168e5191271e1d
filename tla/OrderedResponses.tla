-------------------------- MODULE OrderedResponses --------------------------
(***************************************************************************)
(* What the translation path promises to the requester, with none of its   *)
(* machinery: every accepted request is answered once, and the writes of   *)
(* one ordering domain are answered in the order they were accepted.       *)
(* Reads are answered in any order.                                        *)
(***************************************************************************)
EXTENDS Naturals, Sequences

CONSTANTS Devices,       \* requesters
          Queues,        \* ordering domains of writes
          QueueOf        \* the domain of a device's writes

VARIABLES accepted,      \* accepted[id]: the request that was given this id
          answered       \* ids whose response has been delivered

vars == <<accepted, answered>>

Direction == {"READ", "WRITE"}
Request == [dir : Direction, dev : Devices]

SameQueueWrites(a, b) == /\ accepted[a].dir = "WRITE"
                         /\ accepted[b].dir = "WRITE"
                         /\ QueueOf[accepted[a].dev] = QueueOf[accepted[b].dev]

Init == /\ accepted = << >>
        /\ answered = {}

Accept == /\ \E req \in Request : accepted' = Append(accepted, req)
          /\ UNCHANGED answered

Answer(id) ==
  /\ id \in DOMAIN accepted \ answered
  /\ \A b \in DOMAIN accepted : b < id /\ SameQueueWrites(b, id) => b \in answered
  /\ answered' = answered \union {id}
  /\ UNCHANGED accepted

AnswerSome == \E id \in DOMAIN accepted : Answer(id)

Next == Accept \/ AnswerSome

Spec == Init /\ [][Next]_vars /\ WF_vars(AnswerSome)
=============================================================================
