--------------------------- MODULE MCDurableQueue ---------------------------
(* Inputs of enqueue for the small instances of DurableQueue. *)
EXTENDS DurableQueue, TLC

Work(lane) == [lane |-> lane, type |-> "work", prio |-> 0, key |-> NoKey]
Chat(lane) == [lane |-> lane, type |-> "chat_turn", prio |-> 1, key |-> NoKey]
Unknown(lane) == [lane |-> lane, type |-> "unregistered", prio |-> 0, key |-> NoKey]

OneLane == {Work("a")}
WorkAndChat == {Work("a"), Chat("a")}
KeyedWork(lane) == [Work(lane) EXCEPT !.key = "key"]
KeyedAndUnknown == {KeyedWork("a"), Unknown("a")}
OneKey == {KeyedWork("a")}

TwoJobs == {1, 2}
OneJob == {1}
OneLife == {1}
TwoLives == {1, 2}
OneSlot == {1}
TwoSlots == {1, 2}

CONSTANTS d1, d2, c1, c2
TwoDispatchers == {d1, d2}
OneDispatcher == {d1}
OneClient == {c1}
TwoClients == {c1, c2}
Interchangeable == Permutations(TwoDispatchers) \cup Permutations(TwoClients)
=============================================================================
