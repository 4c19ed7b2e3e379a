---------------------------- MODULE CoroutinePool ----------------------------
(***************************************************************************)
(* common::CoroutinePool (common/coroutine/coroutine_pool.cc), one per     *)
(* thread, as operators on a record: m_pool_size and the vector            *)
(* m_free_cors, split into the coroutine of each slot and its mark         *)
(* (second: "true -- can't be dispatched").  A coroutine is its m_cor_id;  *)
(* the thread's main coroutine has id 0, so m_index is 1.                  *)
(***************************************************************************)
EXTENDS Integers, FiniteSetsExt

Slots(p) == DOMAIN p.first

(* The constructor: slots 1..n hold the coroutines 1..n; slot 0 is null.   *)
NewPool(n) ==
  [m_pool_size |-> n, first |-> [i \in 0..n |-> i], second |-> [i \in 0..n |-> FALSE]]

(* The slots that getCoroutineInstanse() may dispatch: it looks at the     *)
(* slots below m_pool_size only, so the last one waits for a growth.       *)
Dispatchable(p, inCoFunc) ==
  {i \in 1..p.m_pool_size - 1 : p.first[i] \notin inCoFunc /\ ~ p.second[i]}

(* Growth by half: each new coroutine is stored in slot i, over what was   *)
(* there, and appended as well.                                            *)
Grown(p) ==
  LET newsize == (3 * p.m_pool_size) \div 2
      k == newsize - p.m_pool_size
      size == Cardinality(Slots(p))
      new(i) == IF i < k THEN size + i ELSE IF i < size THEN p.first[i] ELSE i
  IN [m_pool_size |-> newsize,
      first |-> [i \in 0..size + k - 1 |-> new(i)],
      second |-> [i \in 0..size + k - 1 |-> i \in k..size - 1 /\ p.second[i]]]

(* Defect: the dispatched slot is not marked.                              *)
GetUnmarked(p, inCoFunc) ==
  LET free == Dispatchable(p, inCoFunc)
  IN IF free # {} THEN [pool |-> p, cor |-> p.first[Min(free)]]
     ELSE [pool |-> Grown(p), cor |-> Grown(p).first[p.m_pool_size]]

(* getCoroutineInstanse(): the first free slot is marked and dispatched;   *)
(* after a growth the first slot of the new range is dispatched unmarked.  *)
GetCoroutineInstanse(p, inCoFunc) ==
  LET free == Dispatchable(p, inCoFunc)
  IN IF free # {}
     THEN [pool |-> [p EXCEPT !.second[Min(free)] = TRUE], cor |-> p.first[Min(free)]]
     ELSE [pool |-> Grown(p), cor |-> Grown(p).first[p.m_pool_size]]

(* returnCoroutine(): the slot with the number of the coroutine.           *)
ReturnCoroutine(p, cor) == [p EXCEPT !.second[cor] = FALSE]

(* returnCoroutine() for each of a set of coroutines.                      *)
ReturnCoroutines(p, cors) == [p EXCEPT !.second = [i \in DOMAIN @ |-> i \notin cors /\ @[i]]]
=============================================================================
