--------------------------- MODULE LazyInputsProofs ---------------------------
(***************************************************************************)
(* What TLAPS proves of LazyInputs for every graph of ordinary and lazy    *)
(* inputs and every size of the pool: an awaited call is in one place      *)
(* (OnePlace), and as long as nothing fails, is cancelled or evicted, a    *)
(* task exists only of what is not in the cache and has its inputs there   *)
(* (Steady), so that a node is called once (CalledOnce).                   *)
(***************************************************************************)
EXTENDS LazyInputs, SequenceTheorems, FiniteSetTheorems, WellFoundedInduction, TLAPS

-----------------------------------------------------------------------------
(* The operators *)

TaskStates == [ph : {"none", "created", "calling"}, cancel : BOOLEAN]
ThreadStates == [ph : {"idle", "computing", "blocked"}, node : 0..N,
                 mine : BOOLEAN, left : SUBSET Node]
EnsureStates == [ph : {"none", "walk", "await", "woken", "broken", "found", "missing"},
                 src : 0..N, on : 0..N]

LEMMA FirstExists ==
  ASSUME NEW S \in SUBSET Node, S # {}
  PROVE  \E a \in S : \A b \in S : a <= b
<1>1. S \subseteq Nat
  BY DEF Node
<1>2. PICK x \in S : \A y \in S : ~(<<y, x>> \in OpToRel(<, Nat))
  BY <1>1, NatLessThanWellFounded, WFMin
<1>3. ASSUME NEW y \in S PROVE x <= y
  <2>1. x \in Nat /\ y \in Nat /\ <<y, x>> \in Nat \X Nat
    BY <1>1
  <2>2. ~(y < x)
    BY <1>2, <2>1 DEF OpToRel
  <2> QED
    BY <2>1, <2>2
<1> QED
  BY <1>3

\* What a node needs: the node itself, and with a node the nodes wired to it.
LEMMA NeededClosed ==
  ASSUME NEW n \in Node
  PROVE  /\ Needed[n] \subseteq Node /\ n \in Needed[n]
         /\ \A m \in Needed[n] : Sources[m] \subseteq Needed[n]
         /\ \A m \in Needed[n] : m <= n
<1>1. Needed[n] = {m \in Node : \A S \in SUBSET Node :
                     n \in S /\ (\A s \in S : Sources[s] \subseteq S) => m \in S}
  BY DEF Needed
<1>2. \A m \in Node : Sources[m] \subseteq Node
  BY LazyAssumption
<1>3. \A m \in Needed[n] : m <= n
  <2> DEFINE S == {m \in Node : m <= n}
  <2>1. n \in S /\ S \in SUBSET Node
    BY DEF Node
  <2>2. ASSUME NEW m \in S, NEW s \in Sources[m] PROVE s \in S
    <3>1. s \in Node /\ s < m
      BY <1>2, <2>2, LazyAssumption
    <3> QED
      BY <2>2, <3>1 DEF Node
  <2> QED
    BY <1>1, <2>1, <2>2
<1> QED
  BY <1>1, <1>2, <1>3

LEMMA LaunchedProperties ==
  ASSUME NEW tasks \in [Node -> TaskStates], NEW S
  PROVE  /\ Launched(tasks, S) \in [Node -> TaskStates]
         /\ \A n \in Node :
              Launched(tasks, S)[n] =
                IF n \in S /\ tasks[n].ph = "none" THEN [NoTask EXCEPT !.ph = "created"] ELSE tasks[n]
<1>1. [NoTask EXCEPT !.ph = "created"] \in TaskStates
  BY DEF NoTask, TaskStates
<1> QED
  BY <1>1 DEF Launched

LEMMA RemoveAtProperties ==
  ASSUME NEW S, NEW q \in Seq(S), NEW i \in 1..Len(q)
  PROVE  /\ RemoveAt(q, i) \in Seq(S)
         /\ Len(RemoveAt(q, i)) = Len(q) - 1
         /\ \A j \in 1..(Len(q) - 1) :
               RemoveAt(q, i)[j] = IF j < i THEN q[j] ELSE q[j + 1]
<1> DEFINE a == SubSeq(q, 1, i - 1)
           b == SubSeq(q, i + 1, Len(q))
<1>0. Len(q) \in Nat /\ \A j \in 1..Len(q) : q[j] \in S
  BY LenProperties, ElementOfSeq
<1>1. /\ a \in Seq(S) /\ Len(a) = i - 1
      /\ \A j \in 1..(i - 1) : a[j] = q[j]
  <2>1. \A j \in 1..(i - 1) : q[j] \in S
    BY <1>0
  <2> QED BY <1>0, <2>1, SubSeqProperties
<1>2. /\ b \in Seq(S) /\ Len(b) = Len(q) - i
      /\ \A j \in 1..(Len(q) - i) : b[j] = q[i + j]
  <2>1. \A j \in (i + 1)..Len(q) : q[j] \in S
    BY <1>0
  <2> QED BY <1>0, <2>1, SubSeqProperties
<1>3. RemoveAt(q, i) = a \o b
  BY DEF RemoveAt
<1> HIDE DEF a, b
<1>4. /\ a \o b \in Seq(S) /\ Len(a \o b) = Len(q) - 1
      /\ \A j \in 1..(Len(q) - 1) : (a \o b)[j] = IF j <= i - 1 THEN a[j] ELSE b[j - (i - 1)]
  <2>1. /\ a \o b \in Seq(S) /\ Len(a \o b) = Len(a) + Len(b)
        /\ \A j \in 1..(Len(a) + Len(b)) :
              (a \o b)[j] = IF j <= Len(a) THEN a[j] ELSE b[j - Len(a)]
    BY <1>1, <1>2, ConcatProperties
  <2>2. Len(a) + Len(b) = Len(q) - 1
    BY <1>0, <1>1, <1>2
  <2> QED BY <1>1, <2>1, <2>2
<1>5. ASSUME NEW j \in 1..(Len(q) - 1)
      PROVE  (a \o b)[j] = IF j < i THEN q[j] ELSE q[j + 1]
  <2>1. CASE j < i
    BY <1>0, <1>1, <1>4, <2>1
  <2>2. CASE ~(j < i)
    <3>1. j - (i - 1) \in 1..(Len(q) - i)
      BY <1>0, <2>2
    <3> QED BY <1>0, <1>2, <1>4, <2>2, <3>1
  <2> QED BY <2>1, <2>2
<1> QED
  BY <1>3, <1>4, <1>5
-----------------------------------------------------------------------------
(* Type correctness *)

LEMMA UnqueuedProperties ==
  ASSUME TypeOK, NEW n \in Node
  PROVE  /\ Unqueued(n) \in Seq(Node)
         /\ \A i \in DOMAIN Unqueued(n) :
              \E j \in DOMAIN line : Unqueued(n)[i] = line[j]
         /\ (\A i, j \in DOMAIN line : line[i] = line[j] => i = j) =>
              /\ \A i, j \in DOMAIN Unqueued(n) : Unqueued(n)[i] = Unqueued(n)[j] => i = j
              /\ \A i \in DOMAIN Unqueued(n) : Unqueued(n)[i] # n
              /\ \A j \in DOMAIN line : line[j] # n => \E i \in DOMAIN Unqueued(n) : Unqueued(n)[i] = line[j]
<1>0. line \in Seq(Node) /\ DOMAIN line = 1..Len(line) /\ Len(line) \in Nat
  BY LenProperties DEF TypeOK
<1>1. CASE Queued(n) = {}
  BY <1>0, <1>1 DEF Unqueued, Queued
<1>2. CASE Queued(n) # {}
  <2> DEFINE k == CHOOSE i \in Queued(n) : TRUE
             q == RemoveAt(line, k)
  <2>1. k \in Queued(n) /\ k \in 1..Len(line) /\ line[k] = n /\ Unqueued(n) = q
    BY <1>0, <1>2 DEF Unqueued, Queued
  <2> HIDE DEF k
  <2>2. /\ q \in Seq(Node) /\ Len(q) = Len(line) - 1
        /\ \A j \in 1..(Len(line) - 1) : q[j] = IF j < k THEN line[j] ELSE line[j + 1]
    BY <1>0, <2>1, RemoveAtProperties
  <2> HIDE DEF q
  <2>3. DOMAIN q = 1..(Len(line) - 1)
    BY <2>2, LenProperties
  <2>4. ASSUME NEW i \in DOMAIN q
        PROVE  \/ i < k /\ i \in DOMAIN line /\ q[i] = line[i]
               \/ ~(i < k) /\ i + 1 \in DOMAIN line /\ i + 1 # k /\ q[i] = line[i + 1]
    BY <1>0, <2>1, <2>2, <2>3, <2>4
  <2>5. ASSUME NEW j \in DOMAIN line, line[j] # n PROVE \E i \in DOMAIN q : q[i] = line[j]
    <3>1. CASE j < k
      <4>1. j \in DOMAIN q /\ q[j] = line[j]
        BY <1>0, <2>1, <2>2, <2>3, <3>1
      <4> QED
        BY <4>1
    <3>2. CASE ~(j < k)
      <4>1. j # k
        BY <2>1, <2>5
      <4>2. j - 1 \in DOMAIN q /\ q[j - 1] = line[(j - 1) + 1] /\ (j - 1) + 1 = j
        BY <1>0, <2>1, <2>2, <2>3, <3>2, <4>1
      <4> QED
        BY <4>2
    <3> QED
      BY <3>1, <3>2
  <2>6. ASSUME \A i, j \in DOMAIN line : line[i] = line[j] => i = j
        PROVE  /\ \A i, j \in DOMAIN q : q[i] = q[j] => i = j
               /\ \A i \in DOMAIN q : q[i] # n
    <3>1. \A i \in DOMAIN q : i \in Int
      BY <2>3
    <3>2. ASSUME NEW i \in DOMAIN q, NEW j \in DOMAIN q, q[i] = q[j] PROVE i = j
      <4>1. i \in Int /\ j \in Int /\ k \in Int
        BY <3>1, <1>0, <2>1
      <4>2. \/ i < k /\ i \in DOMAIN line /\ q[i] = line[i]
            \/ ~(i < k) /\ i + 1 \in DOMAIN line /\ i + 1 # k /\ q[i] = line[i + 1]
        BY <2>4
      <4>3. \/ j < k /\ j \in DOMAIN line /\ q[j] = line[j]
            \/ ~(j < k) /\ j + 1 \in DOMAIN line /\ j + 1 # k /\ q[j] = line[j + 1]
        BY <2>4
      <4>4. \/ i = j
            \/ i = j + 1 /\ i < k /\ ~(j < k)
            \/ i + 1 = j /\ ~(i < k) /\ j < k
            \/ i + 1 = j + 1
        <5>1. CASE i < k /\ j < k
          BY <2>6, <3>2, <4>1, <4>2, <4>3, <5>1
        <5>2. CASE i < k /\ ~(j < k)
          BY <2>6, <3>2, <4>1, <4>2, <4>3, <5>2
        <5>3. CASE ~(i < k) /\ j < k
          BY <2>6, <3>2, <4>1, <4>2, <4>3, <5>3
        <5>4. CASE ~(i < k) /\ ~(j < k)
          BY <2>6, <3>2, <4>1, <4>2, <4>3, <5>4
        <5> QED
          BY <5>1, <5>2, <5>3, <5>4
      <4> QED
        BY <4>1, <4>4
    <3>3. ASSUME NEW i \in DOMAIN q PROVE q[i] # n
      <4>1. i \in Int /\ k \in Int /\ k \in DOMAIN line
        BY <3>1, <1>0, <2>1
      <4> QED
        BY <2>1, <2>4, <2>6, <4>1
    <3> QED
      BY <3>2, <3>3
  <2>7. \A i \in DOMAIN q : \E j \in DOMAIN line : q[i] = line[j]
    BY <2>4
  <2> QED
    BY <2>1, <2>2, <2>5, <2>6, <2>7
<1> QED
  BY <1>1, <1>2

-----------------------------------------------------------------------------
(* Types *)

LEMMA NodeTypes ==
  /\ \A n \in Node : n \in 0..N /\ n \in Nat /\ n # 0
  /\ \A n \in Node : Sources[n] \subseteq Node /\ Lazy[n] \subseteq Node
BY LazyAssumption DEF Node

LEMMA TaskEndsType ==
  ASSUME TypeOK, NEW n \in Node, NEW how \in {"woken", "broken"}, TaskEnds(n, how)
  PROVE  /\ task' \in [Node -> TaskStates] /\ task'[n] = NoTask
         /\ \A m \in Node \ {n} : task'[m] = task[m]
         /\ run' \in [on : BOOLEAN, active : SUBSET Node, abort : BOOLEAN]
         /\ run'.active = run.active \ {n}
         /\ ensure' \in [Thread -> EnsureStates]
         /\ \A t \in Thread : IF ensure[t].ph = "await" /\ ensure[t].on = n
                              THEN /\ ensure'[t].ph = how /\ ensure'[t].src = ensure[t].src
                                   /\ ensure'[t].on = ensure[t].on
                              ELSE ensure'[t] = ensure[t]
<1>1. NoTask \in TaskStates
  BY DEF NoTask, TaskStates
<1>2. task \in [Node -> TaskStates] /\ run \in [on : BOOLEAN, active : SUBSET Node, abort : BOOLEAN]
      /\ ensure \in [Thread -> EnsureStates]
  BY DEF TypeOK, TaskStates, EnsureStates
<1>3. task' = [task EXCEPT ![n] = NoTask]
  BY DEF TaskEnds
<1>4. run' \in [on : BOOLEAN, active : SUBSET Node, abort : BOOLEAN] /\ run'.active = run.active \ {n}
  BY <1>2 DEF TaskEnds
<1>5. \A e \in EnsureStates : /\ [e EXCEPT !.ph = how] \in EnsureStates
                              /\ [e EXCEPT !.ph = how].ph = how
                              /\ [e EXCEPT !.ph = how].src = e.src /\ [e EXCEPT !.ph = how].on = e.on
  BY DEF EnsureStates
<1>6. ensure' = [t \in Thread |-> IF ensure[t].ph = "await" /\ ensure[t].on = n
                                  THEN [ensure[t] EXCEPT !.ph = how] ELSE ensure[t]]
  BY DEF TaskEnds
<1>7. ensure' \in [Thread -> EnsureStates]
  BY <1>2, <1>5, <1>6
<1> QED
  BY <1>1, <1>2, <1>3, <1>4, <1>5, <1>6, <1>7

States == {"dirty", "running", "done", "error", "cancelled"}
Runs == [on : BOOLEAN, active : SUBSET Node, abort : BOOLEAN]

LEMMA Typed ==
  ASSUME TypeOK
  PROVE  /\ state \in [Node -> States] /\ kept \subseteq Node /\ task \in [Node -> TaskStates]
         /\ line \in Seq(Node) /\ thread \in [Thread -> ThreadStates]
         /\ ensure \in [Thread -> EnsureStates] /\ run \in Runs /\ calls \in [Node -> Nat]
         /\ runs \in Nat /\ cancels \in Nat /\ faults \in Nat
         /\ \A t \in Thread :
              /\ thread[t].ph # "idle" => thread[t].node \in Node
              /\ ensure[t].ph # "none" => ensure[t].src \in Node
              /\ ensure[t].ph \in {"await", "woken"} => ensure[t].on \in Node
BY LazyAssumption DEF TypeOK, States, TaskStates, ThreadStates, EnsureStates, Runs, Node

\* _ensure goes on to the first node of rest at which it stops, if there is one.
LEMMA WalkProperties ==
  ASSUME TypeOK, NEW t \in Thread, NEW rest \in SUBSET Node, ensure[t].ph # "none", Walk(t, rest)
  PROVE  /\ state' \in [Node -> States] /\ task' \in [Node -> TaskStates]
         /\ ensure' \in [Thread -> EnsureStates]
         /\ \A u \in Thread \ {t} : ensure'[u] = ensure[u]
         /\ ensure'[t].src = ensure[t].src
         /\ \A n \in Node : state'[n] # state[n] => state'[n] = "done" /\ n \in kept
         /\ \A n \in Node : task'[n] # task[n] => Stops(n) /\ n \in rest
                                                  /\ task[n].ph = "none"
                                                  /\ task'[n].ph = "created" /\ ~task'[n].cancel
         /\ \/ /\ \A a \in rest : ~Stops(a)
               /\ ensure'[t].ph = IF ensure[t].src \in kept THEN "found" ELSE "missing"
               /\ UNCHANGED task
            \/ \E a \in rest : /\ \A b \in rest : b < a => ~Stops(b)
                               /\ ensure'[t].ph = "await" /\ ensure'[t].on = a
                               /\ task'[a].ph # "none"
                               /\ \A n \in Node \ {a} : task'[n] = task[n]
<1> DEFINE open == {a \in rest : Stops(a)}
           first == CHOOSE a \in open : \A b \in open : a <= b
           passed == IF open = {} THEN rest ELSE {a \in rest : a < first}
           found == [ensure[t] EXCEPT !.ph = IF ensure[t].src \in kept THEN "found" ELSE "missing"]
           await == [ph |-> "await", src |-> ensure[t].src, on |-> first]
<1>0. /\ state \in [Node -> States] /\ task \in [Node -> TaskStates]
      /\ ensure \in [Thread -> EnsureStates] /\ ensure[t].src \in Node
  BY Typed
<1>1. open # {} => first \in open /\ first \in Node /\ first \in 0..N /\ \A b \in open : first <= b
  BY FirstExists, NodeTypes
<1>2. state' = [n \in Node |-> IF n \in passed THEN "done" ELSE state[n]]
  BY DEF Walk
<1>3. open = {} => ensure' = [ensure EXCEPT ![t] = found] /\ UNCHANGED task
  BY DEF Walk
<1>4. open # {} => ensure' = [ensure EXCEPT ![t] = await] /\ task' = Launched(task, {first})
  BY DEF Walk
<1>5. /\ found \in EnsureStates /\ found.src = ensure[t].src
      /\ found.ph = IF ensure[t].src \in kept THEN "found" ELSE "missing"
  BY <1>0 DEF EnsureStates
<1>6. open # {} => await \in EnsureStates /\ await.src = ensure[t].src /\ await.ph = "await" /\ await.on = first
  BY <1>0, <1>1, NodeTypes DEF EnsureStates
<1>7. \A n \in passed : n \in rest /\ ~Stops(n)
  <2> SUFFICES ASSUME NEW n \in passed, Stops(n) PROVE FALSE
    OBVIOUS
  <2>1. n \in open /\ n < first /\ n \in Nat
    BY NodeTypes
  <2> QED
    BY <1>1, <2>1, NodeTypes
<1>8. open # {} => \A b \in rest : b < first => ~Stops(b)
  <2> HIDE DEF found, await
  <2> SUFFICES ASSUME open # {}, NEW b \in rest, b < first, Stops(b) PROVE FALSE
    OBVIOUS
  <2>1. b \in open /\ b \in Nat
    BY NodeTypes
  <2> QED
    BY <1>1, <2>1, NodeTypes
<1> HIDE DEF open, first, passed, found, await
<1>9. \A n \in Node : Stops(n) \/ n \in kept
  BY DEF Stops
<1>10. state' \in [Node -> States] /\ \A n \in Node : state'[n] = IF n \in passed THEN "done" ELSE state[n]
  BY <1>0, <1>2 DEF States
<1>11. CASE open = {}
  <2>1. \A a \in rest : ~Stops(a)
    BY <1>11 DEF open
  <2> QED
    BY <1>0, <1>3, <1>5, <1>7, <1>9, <1>10, <1>11, <2>1
<1>12. CASE open # {}
  <2>1. /\ task' \in [Node -> TaskStates]
        /\ \A n \in Node : task'[n] = IF n = first /\ task[n].ph = "none"
                                      THEN [NoTask EXCEPT !.ph = "created"] ELSE task[n]
    BY <1>0, <1>4, <1>12, LaunchedProperties
  <2>2. [NoTask EXCEPT !.ph = "created"].ph = "created" /\ ~[NoTask EXCEPT !.ph = "created"].cancel
    BY DEF NoTask
  <2>3. first \in rest /\ Stops(first)
    BY <1>1, <1>12 DEF open
  <2>4. task'[first].ph # "none"
    BY <1>1, <1>12, <2>1, <2>2
  <2>5. \A n \in Node : task'[n] # task[n] => n = first /\ task[n].ph = "none"
                                                 /\ task'[n].ph = "created" /\ ~task'[n].cancel
    BY <2>1, <2>2
  <2>6. /\ ensure' \in [Thread -> EnsureStates] /\ \A u \in Thread \ {t} : ensure'[u] = ensure[u]
        /\ ensure'[t] = await
    BY <1>0, <1>4, <1>6, <1>12
  <2> QED
    BY <1>1, <1>6, <1>7, <1>8, <1>9, <1>10, <1>12, <2>1, <2>3, <2>4, <2>5, <2>6
<1> QED
  BY <1>11, <1>12

LEMMA IdleTypes ==
  /\ NoTask \in TaskStates /\ NoTask.ph = "none" /\ ~NoTask.cancel
  /\ IdleThread \in ThreadStates /\ IdleThread.ph = "idle" /\ ~IdleThread.mine
  /\ NoEnsure \in EnsureStates /\ NoEnsure.ph = "none"
BY LazyAssumption DEF NoTask, TaskStates, IdleThread, ThreadStates, NoEnsure, EnsureStates

\* The end of a call that a task still awaits ends the task; another call ends alone.
LEMMA CallOverProperties ==
  ASSUME TypeOK, NEW t \in Thread, thread[t].ph # "idle",
         NEW outcome \in {"done", "error", "cancelled"}, CallOver(t, outcome)
  PROVE  /\ state' \in [Node -> States] /\ kept' \subseteq Node /\ task' \in [Node -> TaskStates]
         /\ thread' \in [Thread -> ThreadStates] /\ ensure' \in [Thread -> EnsureStates]
         /\ run' \in Runs /\ UNCHANGED <<line, calls>>
         /\ thread'[t] = IdleThread /\ \A u \in Thread \ {t} : thread'[u] = thread[u]
         /\ ensure'[t] = NoEnsure
         /\ \A u \in Thread \ {t} :
              IF thread[t].mine /\ ensure[u].ph = "await" /\ ensure[u].on = thread[t].node
              THEN /\ ensure'[u].ph = "woken" /\ ensure'[u].src = ensure[u].src
                   /\ ensure'[u].on = ensure[u].on
              ELSE ensure'[u] = ensure[u]
         /\ \A n \in Node :
              IF thread[t].mine /\ n = thread[t].node
              THEN state'[n] = outcome /\ task'[n] = NoTask /\ ~task[n].cancel
              ELSE state'[n] = state[n] /\ task'[n] = task[n]
         /\ run'.active = IF thread[t].mine THEN run.active \ {thread[t].node} ELSE run.active
         /\ kept' = IF thread[t].mine /\ outcome = "done" THEN kept \cup {thread[t].node} ELSE kept
<1> DEFINE n == thread[t].node
<1>0. /\ state \in [Node -> States] /\ kept \subseteq Node /\ task \in [Node -> TaskStates]
      /\ thread \in [Thread -> ThreadStates] /\ ensure \in [Thread -> EnsureStates]
      /\ run \in Runs /\ n \in Node
  BY Typed
<1>1. /\ thread' = [thread EXCEPT ![t] = IdleThread] /\ UNCHANGED <<line, calls>>
  BY DEF CallOver
<1>2. outcome \in States
  BY DEF States
<1>3. CASE thread[t].mine
  <2>1. /\ ~task[n].cancel /\ state' = [state EXCEPT ![n] = outcome]
        /\ kept' = IF outcome = "done" THEN kept \cup {n} ELSE kept
        /\ task' = [task EXCEPT ![n] = NoTask]
        /\ run' = [run EXCEPT !.active = @ \ {n}]
        /\ ensure' = [u \in Thread |->
             IF u = t THEN NoEnsure
             ELSE IF ensure[u].ph = "await" /\ ensure[u].on = n
             THEN [ensure[u] EXCEPT !.ph = "woken"] ELSE ensure[u]]
    BY <1>3 DEF CallOver
  <2>2. \A e \in EnsureStates :
          /\ [e EXCEPT !.ph = "woken"] \in EnsureStates /\ [e EXCEPT !.ph = "woken"].ph = "woken"
          /\ [e EXCEPT !.ph = "woken"].src = e.src /\ [e EXCEPT !.ph = "woken"].on = e.on
    BY DEF EnsureStates
  <2>3. /\ ensure' \in [Thread -> EnsureStates] /\ ensure'[t] = NoEnsure
        /\ \A u \in Thread \ {t} :
             IF ensure[u].ph = "await" /\ ensure[u].on = n
             THEN /\ ensure'[u].ph = "woken" /\ ensure'[u].src = ensure[u].src
                  /\ ensure'[u].on = ensure[u].on
             ELSE ensure'[u] = ensure[u]
    BY <1>0, <2>1, <2>2, IdleTypes
  <2>4. run' \in Runs /\ run'.active = run.active \ {n}
    BY <1>0, <2>1 DEF Runs
  <2>5. /\ thread' \in [Thread -> ThreadStates] /\ thread'[t] = IdleThread
        /\ \A u \in Thread \ {t} : thread'[u] = thread[u]
    BY <1>0, <1>1, IdleTypes
  <2>6. /\ state' \in [Node -> States] /\ task' \in [Node -> TaskStates] /\ kept' \subseteq Node
        /\ \A m \in Node : IF m = n THEN state'[m] = outcome /\ task'[m] = NoTask /\ ~task[m].cancel
                           ELSE state'[m] = state[m] /\ task'[m] = task[m]
    BY <1>0, <1>2, <2>1, IdleTypes
  <2> HIDE DEF n
  <2>7. kept' = IF outcome = "done" THEN kept \cup {n} ELSE kept
    BY <2>1
  <2> USE DEF n
  <2> QED
    BY <1>1, <1>3, <2>3, <2>4, <2>5, <2>6, <2>7
<1>4. CASE ~thread[t].mine
  <2>1. /\ UNCHANGED <<state, kept, task, run>>
        /\ ensure' = [ensure EXCEPT ![t] = NoEnsure]
    BY <1>4 DEF CallOver
  <2>2. /\ ensure' \in [Thread -> EnsureStates] /\ ensure'[t] = NoEnsure
        /\ \A u \in Thread \ {t} : ensure'[u] = ensure[u]
    BY <1>0, <2>1, IdleTypes
  <2>3. /\ thread' \in [Thread -> ThreadStates] /\ thread'[t] = IdleThread
        /\ \A u \in Thread \ {t} : thread'[u] = thread[u]
    BY <1>0, <1>1, IdleTypes
  <2> QED
    BY <1>0, <1>1, <1>4, <2>1, <2>2, <2>3
<1> QED
  BY <1>3, <1>4

\* Which of its thread's calls an action ends, and how.
LEMMA CallEnds ==
  ASSUME TypeOK, NEW t \in Thread, CallReturns(t) \/ CallFails(t) \/ CallUnanswered(t)
  PROVE  /\ thread[t].ph # "idle" /\ UNCHANGED <<runs, cancels>> /\ faults' \in {faults, faults + 1}
         /\ \E outcome \in {"done", "error", "cancelled"} :
              /\ CallOver(t, outcome)
              /\ \/ outcome = "done" \/ faults' = faults + 1
                 \/ thread[t].ph = "blocked" /\ ensure[t].ph \in {"missing", "broken"}
<1>1. CASE CallReturns(t)
  BY <1>1 DEF CallReturns, CallOver
<1>2. CASE CallFails(t)
  BY <1>2 DEF CallFails, CallOver
<1>3. CASE CallUnanswered(t)
  BY <1>3 DEF CallUnanswered, CallOver
<1> QED
  BY <1>1, <1>2, <1>3

LEMMA TypeInit == Init => TypeOK
<1> SUFFICES ASSUME Init PROVE TypeOK
  OBVIOUS
<1>1. /\ thread \in [Thread -> ThreadStates] /\ ensure \in [Thread -> EnsureStates]
      /\ task \in [Node -> TaskStates]
      /\ \A t \in Thread : thread[t] = IdleThread /\ ensure[t] = NoEnsure
  BY IdleTypes DEF Init
<1>2. run \in Runs /\ state \in [Node -> States] /\ line \in Seq(Node) /\ calls \in [Node -> Nat]
  BY DEF Init, NoRun, Runs, States
<1>3. runs \in 0..MaxRuns /\ cancels \in 0..MaxCancels /\ faults \in 0..MaxFaults /\ kept \subseteq Node
  BY LazyAssumption DEF Init
<1> QED
  BY <1>1, <1>2, <1>3, IdleTypes DEF TypeOK, States, TaskStates, ThreadStates, EnsureStates, Runs, Init

LEMMA TaskStartsProperties ==
  ASSUME TypeOK, NEW n \in Node, TaskStarts(n)
  PROVE  /\ UNCHANGED <<kept, thread, bounds, calls>> /\ state' \in [Node -> States]
         /\ \A m \in Node \ {n} : state'[m] = state[m]
         /\ task[n].ph = "created" /\ ~task[n].cancel
         /\ \/ /\ Sources[n] \subseteq kept /\ task' \in [Node -> TaskStates]
               /\ state'[n] = "running" /\ task'[n].ph = "calling" /\ ~task'[n].cancel
               /\ \A m \in Node \ {n} : task'[m] = task[m]
               /\ line' = Append(line, n) /\ line' \in Seq(Node)
               /\ UNCHANGED <<run, ensure>>
            \/ /\ ~(Sources[n] \subseteq kept) /\ state'[n] = "error"
               /\ TaskEnds(n, "woken") /\ UNCHANGED line
<1>0. state \in [Node -> States] /\ task \in [Node -> TaskStates] /\ line \in Seq(Node)
  BY Typed
<1>1. CASE Sources[n] \subseteq kept
  <2>1. /\ state' = [state EXCEPT ![n] = "running"] /\ task' = [task EXCEPT ![n].ph = "calling"]
        /\ line' = Append(line, n) /\ UNCHANGED <<run, ensure>>
        /\ task[n].ph = "created" /\ ~task[n].cancel /\ UNCHANGED <<kept, thread, bounds, calls>>
    BY <1>1 DEF TaskStarts
  <2>2. /\ [task[n] EXCEPT !.ph = "calling"] \in TaskStates
        /\ [task[n] EXCEPT !.ph = "calling"].ph = "calling"
        /\ ([task[n] EXCEPT !.ph = "calling"].cancel <=> task[n].cancel)
    BY <1>0 DEF TaskStates
  <2>3. task' = [task EXCEPT ![n] = [task[n] EXCEPT !.ph = "calling"]]
    BY <2>1
  <2>4. /\ task' \in [Node -> TaskStates] /\ task'[n].ph = "calling" /\ ~task'[n].cancel
        /\ \A m \in Node \ {n} : task'[m] = task[m]
    BY <1>0, <2>1, <2>2, <2>3
  <2>5. "running" \in States /\ Append(line, n) \in Seq(Node)
    BY <1>0, AppendProperties DEF States
  <2> QED
    BY <1>0, <1>1, <2>1, <2>4, <2>5
<1>2. CASE ~(Sources[n] \subseteq kept)
  BY <1>0, <1>2 DEF TaskStarts, States
<1> QED
  BY <1>1, <1>2

LEMMA TypeInductive == TypeOK /\ [Next]_vars => TypeOK'
<1> SUFFICES ASSUME TypeOK, [Next]_vars PROVE TypeOK'
  OBVIOUS
<1>0. /\ state \in [Node -> States] /\ kept \subseteq Node /\ task \in [Node -> TaskStates]
      /\ line \in Seq(Node) /\ thread \in [Thread -> ThreadStates]
      /\ ensure \in [Thread -> EnsureStates] /\ run \in Runs /\ calls \in [Node -> Nat]
      /\ runs \in 0..MaxRuns /\ cancels \in 0..MaxCancels /\ faults \in 0..MaxFaults
      /\ {MaxRuns, MaxCancels, MaxFaults} \subseteq Nat
      /\ \A t \in Thread : /\ thread[t].ph # "idle" => thread[t].node # 0
                           /\ ensure[t].ph # "none" => ensure[t].src # 0
                           /\ ensure[t].ph \in {"await", "woken"} => ensure[t].on # 0
  BY Typed, LazyAssumption DEF TypeOK
<1>f. ASSUME state' \in [Node -> States], kept' \subseteq Node, task' \in [Node -> TaskStates],
             line' \in Seq(Node), thread' \in [Thread -> ThreadStates],
             ensure' \in [Thread -> EnsureStates], run' \in Runs, calls' \in [Node -> Nat],
             runs' \in 0..MaxRuns, cancels' \in 0..MaxCancels, faults' \in 0..MaxFaults,
             \A t \in Thread : /\ thread'[t].ph # "idle" => thread'[t].node # 0
                               /\ ensure'[t].ph # "none" => ensure'[t].src # 0
                               /\ ensure'[t].ph \in {"await", "woken"} => ensure'[t].on # 0
      PROVE  TypeOK'
  BY <1>f DEF TypeOK, States, TaskStates, ThreadStates, EnsureStates, Runs
<1>1. CASE BeginRun
  <2> DEFINE wanted == {n \in Plan : ~(state[n] = "done" /\ n \in kept)}
  <2>1. /\ state' = [n \in Node |-> IF n \in wanted \cap kept THEN "done" ELSE state[n]]
        /\ task' = Launched(task, wanted \ kept)
        /\ run' = [on |-> TRUE, active |-> wanted \ kept, abort |-> FALSE]
        /\ runs' \in 0..MaxRuns
        /\ UNCHANGED <<kept, line, thread, ensure, cancels, faults, calls>>
    BY <1>0, <1>1 DEF BeginRun
  <2>2. wanted \subseteq Node
    BY LazyAssumption
  <2> HIDE DEF wanted
  <2>3. state' \in [Node -> States] /\ run' \in Runs
    BY <1>0, <2>1, <2>2 DEF States, Runs
  <2>4. task' \in [Node -> TaskStates]
    BY <1>0, <2>1, LaunchedProperties
  <2> QED
    BY <1>0, <2>1, <2>3, <2>4, <1>f
<1>2. CASE FinishRun
  <2>1. run' \in Runs
    BY <1>2 DEF FinishRun, NoRun, Runs
  <2> QED
    BY <1>0, <1>2, <2>1, <1>f DEF FinishRun, bounds
<1>3. CASE CancelRun
  <2>0. cancels' \in 0..MaxCancels
    BY <1>0, <1>3 DEF CancelRun
  <2>1. run' \in Runs
    BY <1>0, <1>3 DEF CancelRun, Runs
  <2>2. task' \in [Node -> TaskStates]
    BY <1>0, <1>3 DEF CancelRun, TaskStates, Alive
  <2> QED
    BY <1>0, <1>3, <2>0, <2>1, <2>2, <1>f DEF CancelRun
<1>4. ASSUME NEW n \in Node, CancelNode(n) PROVE TypeOK'
  <2>0. cancels' \in 0..MaxCancels
    BY <1>0, <1>4 DEF CancelNode
  <2>1. task' \in [Node -> TaskStates]
    BY <1>0, <1>4 DEF CancelNode, TaskStates
  <2> QED
    BY <1>0, <1>4, <2>0, <2>1, <1>f DEF CancelNode
<1>5. ASSUME NEW n \in Node, Evict(n) PROVE TypeOK'
  <2>1. kept' \subseteq Node /\ faults' \in 0..MaxFaults
    BY <1>0, <1>5 DEF Evict
  <2> QED
    BY <1>0, <1>5, <2>1, <1>f DEF Evict
<1>6. ASSUME NEW n \in Node, NEW how \in {"woken", "broken"}, TaskEnds(n, how),
             state' \in [Node -> States], line' \in Seq(Node), thread' \in [Thread -> ThreadStates],
             \A t \in Thread : thread'[t].ph = thread[t].ph /\ thread'[t].node = thread[t].node,
             UNCHANGED <<kept, bounds, calls>>
      PROVE  TypeOK'
  <2>1. /\ task' \in [Node -> TaskStates] /\ run' \in Runs /\ ensure' \in [Thread -> EnsureStates]
        /\ \A t \in Thread : /\ ensure'[t].src = ensure[t].src /\ ensure'[t].on = ensure[t].on
                             /\ ensure'[t] = ensure[t] \/ ensure[t].ph = "await"
    BY <1>6, TaskEndsType DEF Runs
  <2>2. \A t \in Thread : /\ thread'[t].ph # "idle" => thread'[t].node # 0
                          /\ ensure'[t].ph # "none" => ensure'[t].src # 0
                          /\ ensure'[t].ph \in {"await", "woken"} => ensure'[t].on # 0
    BY <1>0, <1>6, <2>1
  <2> QED
    BY <1>0, <1>6, <2>1, <2>2, <1>f DEF bounds
<1>7. ASSUME NEW n \in Node, TaskNeverStarts(n) PROVE TypeOK'
  BY <1>0, <1>6, <1>7 DEF TaskNeverStarts
<1>8. ASSUME NEW n \in Node, TaskStarts(n) PROVE TypeOK'
  <2>1. UNCHANGED <<kept, thread, bounds, calls>> /\ state' \in [Node -> States]
    BY <1>8, TaskStartsProperties
  <2>2. CASE /\ task' \in [Node -> TaskStates] /\ line' \in Seq(Node) /\ UNCHANGED <<run, ensure>>
    BY <1>0, <2>1, <2>2, <1>f DEF bounds
  <2>3. CASE TaskEnds(n, "woken") /\ UNCHANGED line
    BY <1>0, <1>6, <2>1, <2>3
  <2> QED
    BY <1>8, <2>2, <2>3, TaskStartsProperties
<1>9. ASSUME NEW n \in Node, TaskCancelled(n) PROVE TypeOK'
  <2>1. \A t \in Thread : /\ [thread[t] EXCEPT !.mine = FALSE] \in ThreadStates
                          /\ [thread[t] EXCEPT !.mine = FALSE].ph = thread[t].ph
                          /\ [thread[t] EXCEPT !.mine = FALSE].node = thread[t].node
    BY <1>0 DEF ThreadStates
  <2>2. /\ thread' \in [Thread -> ThreadStates]
        /\ \A t \in Thread : thread'[t].ph = thread[t].ph /\ thread'[t].node = thread[t].node
    BY <1>0, <1>9, <2>1 DEF TaskCancelled
  <2>3. state' \in [Node -> States] /\ line' \in Seq(Node)
    BY <1>0, <1>9, UnqueuedProperties DEF TaskCancelled, States
  <2> QED
    BY <1>6, <1>9, <2>2, <2>3 DEF TaskCancelled
<1>10. ASSUME NEW t \in Thread, ThreadTakes(t) PROVE TypeOK'
  <2> DEFINE n == Head(line)
             busy == [ph |-> "computing", node |-> n, mine |-> TRUE, left |-> Lazy[n]]
  <2>1. n \in Node /\ line' \in Seq(Node)
    BY <1>0, <1>10, HeadTailProperties DEF ThreadTakes
  <2>2. busy \in ThreadStates /\ busy.node # 0
    BY <2>1, NodeTypes DEF ThreadStates
  <2>3. thread' = [thread EXCEPT ![t] = busy] /\ calls' = [calls EXCEPT ![n] = @ + 1]
        /\ UNCHANGED <<state, kept, task, ensure, run, bounds>>
    BY <1>10 DEF ThreadTakes
  <2> HIDE DEF n, busy
  <2>4. calls' \in [Node -> Nat] /\ thread' \in [Thread -> ThreadStates]
        /\ \A u \in Thread : thread'[u].ph # "idle" => thread'[u].node # 0
    BY <1>0, <2>1, <2>2, <2>3
  <2> QED
    BY <1>0, <2>1, <2>3, <2>4, <1>f DEF bounds
<1>11. ASSUME NEW t \in Thread, CallReturns(t) \/ CallFails(t) \/ CallUnanswered(t) PROVE TypeOK'
  <2>1. PICK outcome \in {"done", "error", "cancelled"} : CallOver(t, outcome)
    BY <1>11, CallEnds
  <2>2. /\ state' \in [Node -> States] /\ kept' \subseteq Node /\ task' \in [Node -> TaskStates]
        /\ thread' \in [Thread -> ThreadStates] /\ ensure' \in [Thread -> EnsureStates]
        /\ run' \in Runs /\ UNCHANGED <<line, calls>>
        /\ thread'[t] = IdleThread /\ \A u \in Thread \ {t} : thread'[u] = thread[u]
        /\ ensure'[t] = NoEnsure
        /\ \A u \in Thread \ {t} :
              \/ ensure'[u] = ensure[u]
              \/ ensure[u].ph = "await" /\ ensure'[u].src = ensure[u].src
                 /\ ensure'[u].on = ensure[u].on
    <3>1. thread[t].ph # "idle"
      BY <1>11, CallEnds
    <3>2. /\ state' \in [Node -> States] /\ kept' \subseteq Node /\ task' \in [Node -> TaskStates]
          /\ thread' \in [Thread -> ThreadStates] /\ ensure' \in [Thread -> EnsureStates]
          /\ run' \in Runs /\ UNCHANGED <<line, calls>>
          /\ thread'[t] = IdleThread /\ \A u \in Thread \ {t} : thread'[u] = thread[u]
          /\ ensure'[t] = NoEnsure
      BY <2>1, <3>1, CallOverProperties
    <3>3. \A u \in Thread \ {t} :
            IF thread[t].mine /\ ensure[u].ph = "await" /\ ensure[u].on = thread[t].node
            THEN /\ ensure'[u].ph = "woken" /\ ensure'[u].src = ensure[u].src
                 /\ ensure'[u].on = ensure[u].on
            ELSE ensure'[u] = ensure[u]
      BY <2>1, <3>1, CallOverProperties
    <3> QED
      BY <3>2, <3>3
  <2>3. runs' \in 0..MaxRuns /\ cancels' \in 0..MaxCancels /\ faults' \in 0..MaxFaults
    BY <1>0, <1>11 DEF CallReturns, CallFails, CallUnanswered, CallOver
  <2>4. \A u \in Thread : /\ thread'[u].ph # "idle" => thread'[u].node # 0
                          /\ ensure'[u].ph # "none" => ensure'[u].src # 0
                          /\ ensure'[u].ph \in {"await", "woken"} => ensure'[u].on # 0
    BY <1>0, <2>2, IdleTypes
  <2> QED
    BY <1>0, <2>2, <2>3, <2>4, <1>f
<1>12. ASSUME NEW t \in Thread, CallAsks(t) PROVE TypeOK'
  <2>1. PICK s \in thread[t].left :
          /\ thread' = [thread EXCEPT ![t].ph = "blocked", ![t].left = @ \ {s}]
          /\ ensure' = [ensure EXCEPT ![t] = [ph |-> "walk", src |-> s, on |-> 0]]
    BY <1>12 DEF CallAsks
  <2>2. s \in Node /\ s \in 0..N /\ s # 0 /\ 0 \in 0..N
    BY <1>0, NodeTypes, LazyAssumption DEF ThreadStates
  <2>3. [ph |-> "walk", src |-> s, on |-> 0] \in EnsureStates
    BY <2>2 DEF EnsureStates
  <2>4. /\ thread' \in [Thread -> ThreadStates]
        /\ \A u \in Thread : thread'[u].node = thread[u].node
    BY <1>0, <2>1 DEF ThreadStates
  <2>5. thread[t].ph # "idle" /\ \A u \in Thread \ {t} : thread'[u] = thread[u]
    BY <1>0, <1>12, <2>1 DEF CallAsks
  <2>6. ensure' \in [Thread -> EnsureStates]
        /\ \A u \in Thread : ensure'[u] = IF u = t THEN [ph |-> "walk", src |-> s, on |-> 0] ELSE ensure[u]
    BY <1>0, <2>1, <2>3
  <2>7. \A u \in Thread : /\ thread'[u].ph # "idle" => thread'[u].node # 0
                          /\ ensure'[u].ph # "none" => ensure'[u].src # 0
                          /\ ensure'[u].ph \in {"await", "woken"} => ensure'[u].on # 0
    BY <1>0, <2>2, <2>4, <2>5, <2>6
  <2> QED
    BY <1>0, <1>12, <2>4, <2>6, <2>7, <1>f DEF CallAsks, bounds
<1>13. ASSUME NEW t \in Thread, CallAnswered(t) PROVE TypeOK'
  <2>1. /\ thread' \in [Thread -> ThreadStates]
        /\ \A u \in Thread : thread'[u].node = thread[u].node
        /\ thread[t].ph # "idle" /\ \A u \in Thread \ {t} : thread'[u] = thread[u]
    BY <1>0, <1>13 DEF CallAnswered, ThreadStates
  <2>2. ensure' \in [Thread -> EnsureStates]
        /\ \A u \in Thread : ensure'[u] = IF u = t THEN NoEnsure ELSE ensure[u]
    BY <1>0, <1>13, IdleTypes DEF CallAnswered
  <2>3. \A u \in Thread : /\ thread'[u].ph # "idle" => thread'[u].node # 0
                          /\ ensure'[u].ph # "none" => ensure'[u].src # 0
                          /\ ensure'[u].ph \in {"await", "woken"} => ensure'[u].on # 0
    BY <1>0, <2>1, <2>2, IdleTypes
  <2> QED
    BY <1>0, <1>13, <2>1, <2>2, <2>3, <1>f DEF CallAnswered, bounds
<1>14. ASSUME NEW t \in Thread, EnsureWalks(t) \/ EnsureResumes(t) PROVE TypeOK'
  <2>1. UNCHANGED <<kept, line, thread, run, bounds, calls>> /\ ensure[t].ph # "none"
    BY <1>14 DEF EnsureWalks, EnsureResumes
  <2>2. ASSUME NEW rest \in SUBSET Node, Walk(t, rest) PROVE TypeOK'
    <3>1. /\ state' \in [Node -> States] /\ task' \in [Node -> TaskStates]
          /\ ensure' \in [Thread -> EnsureStates]
          /\ \A u \in Thread \ {t} : ensure'[u] = ensure[u]
          /\ ensure'[t].src = ensure[t].src
          /\ \/ ensure'[t].ph \in {"found", "missing"}
             \/ ensure'[t].on \in Node
      BY <2>1, <2>2, WalkProperties
    <3>2. \A u \in Thread : /\ ensure'[u].ph # "none" => ensure'[u].src # 0
                            /\ ensure'[u].ph \in {"await", "woken"} => ensure'[u].on # 0
      BY <1>0, <2>1, <3>1, NodeTypes
    <3> QED
      BY <1>0, <2>1, <3>1, <3>2, <1>f DEF bounds
  <2>3. CASE ensure' = [ensure EXCEPT ![t].ph = "missing"] /\ UNCHANGED <<state, task>>
    <3>1. /\ ensure' \in [Thread -> EnsureStates]
          /\ \A u \in Thread : /\ ensure'[u].ph # "none" => ensure'[u].src # 0
                               /\ ensure'[u].ph \in {"await", "woken"} => ensure'[u].on # 0
      BY <1>0, <2>1, <2>3 DEF EnsureStates
    <3> QED
      BY <1>0, <2>1, <2>3, <3>1, <1>f DEF bounds
  <2>4. ensure[t].src \in Node
    BY <2>1, Typed
  <2>5. Needed[ensure[t].src] \in SUBSET Node
        /\ {a \in Needed[ensure[t].src] : a > ensure[t].on} \in SUBSET Node
    BY <2>4, NeededClosed
  <2> QED
    BY <1>14, <2>2, <2>3, <2>5 DEF EnsureWalks, EnsureResumes
<1>15. CASE UNCHANGED vars
  BY <1>0, <1>15, <1>f DEF vars
<1> QED
  BY <1>1, <1>2, <1>3, <1>4, <1>5, <1>7, <1>8, <1>9, <1>10, <1>11, <1>12, <1>13, <1>14, <1>15
     DEF Next, User, SystemStep, TaskStep, ThreadStep, EnsureStep
-----------------------------------------------------------------------------
(* Who waits, and where the calls are *)

\* A call that a task awaits is queued once or on one thread; the tasks of all others are
\* not in their call.
OnePlace ==
  /\ \A i, j \in DOMAIN line : line[i] = line[j] => i = j
  /\ \A i \in DOMAIN line : task[line[i]].ph = "calling"
  /\ \A t \in Thread : thread[t].mine => thread[t].ph # "idle" /\ task[thread[t].node].ph = "calling"
  /\ \A t, u \in Thread : thread[t].mine /\ thread[u].mine /\ thread[t].node = thread[u].node => t = u
  /\ \A t \in Thread, i \in DOMAIN line : thread[t].mine => thread[t].node # line[i]
  /\ \A n \in Node : task[n].ph = "calling" =>
       \/ \E i \in DOMAIN line : line[i] = n
       \/ \E t \in Thread : thread[t].mine /\ thread[t].node = n

\* What the actions that neither begin nor end a call do to the calls: nothing.
LEMMA SamePlaces ==
  ASSUME TypeOK, [Next]_vars,
         \A n \in Node : ~TaskStarts(n) /\ ~TaskCancelled(n),
         \A t \in Thread : ~ThreadTakes(t) /\ ~CallReturns(t) /\ ~CallFails(t) /\ ~CallUnanswered(t)
  PROVE  /\ UNCHANGED <<line, calls>>
         /\ \A n \in Node : task'[n].ph = "calling" <=> task[n].ph = "calling"
         /\ \A t \in Thread : /\ (thread'[t].mine <=> thread[t].mine)
                              /\ thread'[t].node = thread[t].node
                              /\ thread[t].ph = "idle" <=> thread'[t].ph = "idle"
<1>0. task \in [Node -> TaskStates] /\ thread \in [Thread -> ThreadStates]
  BY Typed
<1>1. CASE BeginRun
  <2>1. PICK S : task' = Launched(task, S)
    BY <1>1 DEF BeginRun
  <2>2. \A n \in Node : task'[n].ph = "calling" <=> task[n].ph = "calling"
    BY <1>0, <2>1, LaunchedProperties DEF NoTask
  <2> QED
    BY <1>1, <2>2 DEF BeginRun
<1>2. CASE FinishRun \/ (\E n \in Node : Evict(n)) \/ UNCHANGED vars
  BY <1>2 DEF FinishRun, Evict, vars
<1>3. CASE CancelRun
  BY <1>0, <1>3 DEF CancelRun, TaskStates
<1>4. ASSUME NEW n \in Node, CancelNode(n)
      PROVE  /\ UNCHANGED <<line, calls, thread>>
             /\ \A m \in Node : task'[m].ph = task[m].ph
  BY <1>0, <1>4 DEF CancelNode, TaskStates
<1>5. ASSUME NEW n \in Node, TaskNeverStarts(n)
      PROVE  /\ UNCHANGED <<line, calls, thread>>
             /\ \A m \in Node : task'[m].ph = "calling" <=> task[m].ph = "calling"
  BY <1>5, TaskEndsType DEF TaskNeverStarts, NoTask
<1>6. ASSUME NEW t \in Thread, CallAsks(t) \/ CallAnswered(t)
      PROVE  /\ UNCHANGED <<line, calls, task>>
             /\ \A u \in Thread : /\ (thread'[u].mine <=> thread[u].mine)
                                  /\ thread'[u].node = thread[u].node
                                  /\ thread[u].ph = "idle" <=> thread'[u].ph = "idle"
  <2>1. CASE CallAsks(t)
    BY <1>0, <2>1 DEF CallAsks, ThreadStates
  <2>2. CASE CallAnswered(t)
    BY <1>0, <2>2 DEF CallAnswered, ThreadStates
  <2> QED
    BY <1>6, <2>1, <2>2
<1>7. ASSUME NEW t \in Thread, EnsureWalks(t) \/ EnsureResumes(t)
      PROVE  /\ UNCHANGED <<line, calls, thread>>
             /\ \A m \in Node : task'[m].ph = "calling" <=> task[m].ph = "calling"
  <2>1. UNCHANGED <<line, calls, thread>> /\ ensure[t].ph # "none"
    BY <1>7 DEF EnsureWalks, EnsureResumes
  <2>2. ensure[t].src \in Node
    BY <2>1, Typed
  <2>3. UNCHANGED task \/ \E rest \in SUBSET Node : Walk(t, rest)
    <3>1. Needed[ensure[t].src] \subseteq Node
      BY <2>2, NeededClosed
    <3> QED
      BY <1>7, <3>1 DEF EnsureWalks, EnsureResumes
  <2>4. ASSUME NEW rest \in SUBSET Node, Walk(t, rest)
        PROVE  \A m \in Node : task'[m].ph = "calling" <=> task[m].ph = "calling"
    <3>1. \A m \in Node : task'[m] # task[m] => task[m].ph = "none" /\ task'[m].ph = "created"
      BY <2>1, <2>4, WalkProperties
    <3> QED
      BY <3>1
  <2> QED
    BY <2>1, <2>3, <2>4
<1> QED
  BY <1>1, <1>2, <1>3, <1>4, <1>5, <1>6, <1>7
     DEF Next, User, SystemStep, TaskStep, ThreadStep, EnsureStep

LEMMA LineTypes ==
  ASSUME TypeOK
  PROVE  /\ Len(line) \in Nat /\ DOMAIN line = 1..Len(line)
         /\ \A i \in DOMAIN line : line[i] \in Node
BY LenProperties, ElementOfSeq DEF TypeOK

LEMMA TaskStartsInPlace ==
  ASSUME TypeOK, OnePlace, NEW n \in Node, TaskStarts(n)
  PROVE  OnePlace'
<1>0. \A i \in DOMAIN line : line[i] \in Node
  BY LineTypes
<1>1. task[n].ph = "created" /\ UNCHANGED thread
  BY TaskStartsProperties
<1>2. /\ \A i \in DOMAIN line : line[i] # n
      /\ \A t \in Thread : thread[t].mine => thread[t].node # n
  BY <1>1 DEF OnePlace
<1>t. \A t \in Thread : thread[t].mine => thread[t].node \in Node
  BY Typed DEF OnePlace
<1>3. CASE /\ task'[n].ph = "calling" /\ \A m \in Node \ {n} : task'[m] = task[m]
           /\ line' = Append(line, n)
  <2>1. /\ DOMAIN line' = DOMAIN line \cup {Len(line) + 1} /\ Len(line) + 1 \notin DOMAIN line
        /\ line'[Len(line) + 1] = n
        /\ \A i \in DOMAIN line : line'[i] = line[i]
    <3>1. line \in Seq(Node) /\ Len(line) \in Nat
      BY LineTypes DEF TypeOK
    <3>2. 1..Len(line) + 1 = 1..Len(line) \cup {Len(line) + 1} /\ Len(line) + 1 \notin 1..Len(line)
      BY <3>1
    <3> QED
      BY <1>3, <3>1, <3>2, AppendProperties, LenProperties, LineTypes
  <2> DEFINE k == Len(line) + 1
  <2> HIDE DEF k
  <2>2. \A i, j \in DOMAIN line' : line'[i] = line'[j] => i = j
    BY <1>2, <2>1 DEF OnePlace, k
  <2>3. \A i \in DOMAIN line' : task'[line'[i]].ph = "calling"
    BY <1>0, <1>2, <1>3, <2>1 DEF OnePlace
  <2>4. \A t \in Thread : thread[t].mine => thread[t].ph # "idle" /\ task'[thread[t].node].ph = "calling"
    BY <1>t, <1>2, <1>3 DEF OnePlace
  <2>5. \A t \in Thread, i \in DOMAIN line' : thread[t].mine => thread[t].node # line'[i]
    BY <1>2, <2>1 DEF OnePlace
  <2>6. ASSUME NEW m \in Node, task'[m].ph = "calling"
        PROVE  \/ \E i \in DOMAIN line' : line'[i] = m
               \/ \E t \in Thread : thread[t].mine /\ thread[t].node = m
    BY <1>3, <2>1, <2>6 DEF OnePlace
  <2> QED
    BY <1>1, <2>2, <2>3, <2>4, <2>5, <2>6 DEF OnePlace
<1>4. CASE TaskEnds(n, "woken") /\ UNCHANGED line
  <2>1. \A m \in Node : task'[m].ph = "calling" <=> task[m].ph = "calling"
    BY <1>1, <1>4, TaskEndsType DEF NoTask
  <2> QED
    BY <1>0, <1>1, <1>t, <1>4, <2>1 DEF OnePlace
<1> QED
  BY <1>3, <1>4, TaskStartsProperties

LEMMA TaskCancelledInPlace ==
  ASSUME TypeOK, OnePlace, NEW n \in Node, TaskCancelled(n)
  PROVE  OnePlace'
<1>0. /\ \A i \in DOMAIN line : line[i] \in Node
      /\ \A t \in Thread : thread[t].mine => thread[t].node \in Node
      /\ thread \in [Thread -> ThreadStates]
  BY LineTypes, Typed DEF OnePlace
<1>1. task'[n].ph = "none" /\ \A m \in Node \ {n} : task'[m] = task[m]
  BY TaskEndsType DEF TaskCancelled, NoTask
<1>2. line' = Unqueued(n)
  BY DEF TaskCancelled
<1>3. /\ \A i \in DOMAIN line' : \E j \in DOMAIN line : line'[i] = line[j]
      /\ \A i, j \in DOMAIN line' : line'[i] = line'[j] => i = j
      /\ \A i \in DOMAIN line' : line'[i] # n
      /\ \A j \in DOMAIN line : line[j] # n => \E i \in DOMAIN line' : line'[i] = line[j]
  BY <1>2, UnqueuedProperties DEF OnePlace
<1>4. \A t \in Thread : /\ thread'[t].mine <=> thread[t].mine /\ thread[t].node # n
                        /\ thread'[t].node = thread[t].node /\ thread'[t].ph = thread[t].ph
  BY <1>0 DEF TaskCancelled, ThreadStates
<1>5. \A i \in DOMAIN line' : task'[line'[i]].ph = "calling"
  BY <1>0, <1>1, <1>3 DEF OnePlace
<1>6. \A t \in Thread : thread'[t].mine =>
        thread'[t].ph # "idle" /\ task'[thread'[t].node].ph = "calling"
  BY <1>0, <1>1, <1>4 DEF OnePlace
<1>7. \A t, u \in Thread : thread'[t].mine /\ thread'[u].mine /\ thread'[t].node = thread'[u].node => t = u
  BY <1>4 DEF OnePlace
<1>8. \A t \in Thread, i \in DOMAIN line' : thread'[t].mine => thread'[t].node # line'[i]
  BY <1>3, <1>4 DEF OnePlace
<1>9. ASSUME NEW m \in Node, task'[m].ph = "calling"
      PROVE  \/ \E i \in DOMAIN line' : line'[i] = m
             \/ \E t \in Thread : thread'[t].mine /\ thread'[t].node = m
  <2>1. m # n /\ task[m].ph = "calling"
    BY <1>1, <1>9
  <2> QED
    BY <1>3, <1>4, <2>1 DEF OnePlace
<1> QED
  BY <1>3, <1>5, <1>6, <1>7, <1>8, <1>9 DEF OnePlace

LEMMA ThreadTakesInPlace ==
  ASSUME TypeOK, OnePlace, NEW t \in Thread, ThreadTakes(t)
  PROVE  OnePlace'
<1> DEFINE n == Head(line)
<1>0. /\ \A i \in DOMAIN line : line[i] \in Node /\ i \in Int
      /\ \A u \in Thread : thread[u].mine => thread[u].node \in Node
      /\ thread \in [Thread -> ThreadStates] /\ line \in Seq(Node) /\ line # <<>>
      /\ DOMAIN line = 1..Len(line) /\ Len(line) \in Nat
  BY LineTypes, Typed DEF OnePlace, ThreadTakes
<1>1. /\ n = line[1] /\ 1 \in DOMAIN line /\ DOMAIN line' = 1..Len(line) - 1
      /\ \A i \in DOMAIN line' : line'[i] = line[i + 1]
  BY <1>0, HeadTailProperties, EmptySeq, LenProperties DEF ThreadTakes
<1>2. \A i \in DOMAIN line' : i \in Int /\ i + 1 \in DOMAIN line /\ i + 1 # 1 /\ line'[i] = line[i + 1]
  BY <1>0, <1>1
<1>3. \A j \in DOMAIN line : j # 1 => j - 1 \in DOMAIN line' /\ line'[j - 1] = line[j]
  <2> SUFFICES ASSUME NEW j \in DOMAIN line, j # 1
               PROVE  j - 1 \in DOMAIN line' /\ line'[j - 1] = line[j]
    OBVIOUS
  <2>1. j - 1 \in DOMAIN line' /\ (j - 1) + 1 = j
    BY <1>0, <1>1
  <2> QED
    BY <1>1, <2>1
<1>4. /\ thread'[t].ph = "computing" /\ thread'[t].node = n /\ thread'[t].mine
      /\ \A u \in Thread \ {t} : thread'[u] = thread[u]
      /\ thread[t].ph = "idle" /\ UNCHANGED task
  BY <1>0 DEF ThreadTakes
<1> HIDE DEF n
<1>5. ~thread[t].mine /\ \A u \in Thread : thread[u].mine => thread[u].node # n
  BY <1>1, <1>4 DEF OnePlace
<1>6. \A i \in DOMAIN line' : line'[i] # n /\ task[line'[i]].ph = "calling"
  BY <1>1, <1>2 DEF OnePlace
<1>7. ASSUME NEW i \in DOMAIN line', NEW j \in DOMAIN line', line'[i] = line'[j] PROVE i = j
  <2>1. i + 1 = j + 1
    BY <1>2, <1>7 DEF OnePlace
  <2> QED
    BY <1>2, <2>1
<1>8. \A u \in Thread : thread'[u].mine => thread'[u].ph # "idle" /\ task[thread'[u].node].ph = "calling"
  BY <1>1, <1>4 DEF OnePlace
<1>9. \A u, v \in Thread : thread'[u].mine /\ thread'[v].mine /\ thread'[u].node = thread'[v].node => u = v
  BY <1>4, <1>5 DEF OnePlace
<1>10. \A u \in Thread, i \in DOMAIN line' : thread'[u].mine => thread'[u].node # line'[i]
  BY <1>2, <1>4, <1>6 DEF OnePlace
<1>11. ASSUME NEW m \in Node, task[m].ph = "calling"
       PROVE  \/ \E i \in DOMAIN line' : line'[i] = m
              \/ \E u \in Thread : thread'[u].mine /\ thread'[u].node = m
  <2>1. CASE m = n
    BY <1>4, <2>1
  <2>2. CASE m # n /\ \E i \in DOMAIN line : line[i] = m
    BY <1>1, <1>3, <2>2
  <2>3. CASE \E u \in Thread : thread[u].mine /\ thread[u].node = m
    BY <1>4, <1>5, <2>3
  <2> QED
    BY <1>11, <2>1, <2>2, <2>3 DEF OnePlace
<1> QED
  BY <1>4, <1>6, <1>7, <1>8, <1>9, <1>10, <1>11 DEF OnePlace

LEMMA CallOverInPlace ==
  ASSUME TypeOK, OnePlace, NEW t \in Thread, CallReturns(t) \/ CallFails(t) \/ CallUnanswered(t)
  PROVE  OnePlace'
<1>0. /\ \A i \in DOMAIN line : line[i] \in Node
      /\ \A u \in Thread : thread[u].mine => thread[u].node \in Node
  BY LineTypes, Typed DEF OnePlace
<1>1. PICK outcome \in {"done", "error", "cancelled"} : CallOver(t, outcome)
  BY CallEnds
<1>2. /\ UNCHANGED line /\ ~thread'[t].mine /\ thread'[t].ph = "idle"
      /\ \A u \in Thread \ {t} : thread'[u] = thread[u]
      /\ \A n \in Node : IF thread[t].mine /\ n = thread[t].node THEN task'[n].ph = "none"
                         ELSE task'[n] = task[n]
  BY <1>1, CallEnds, CallOverProperties, IdleTypes
<1>3. \A i \in DOMAIN line : task'[line[i]].ph = "calling"
  BY <1>0, <1>2 DEF OnePlace
<1>4. \A u \in Thread : thread'[u].mine => thread'[u].ph # "idle" /\ task'[thread'[u].node].ph = "calling"
  BY <1>0, <1>2 DEF OnePlace
<1>5. ASSUME NEW m \in Node, task'[m].ph = "calling"
      PROVE  \/ \E i \in DOMAIN line : line[i] = m
             \/ \E u \in Thread : thread'[u].mine /\ thread'[u].node = m
  BY <1>2, <1>5 DEF OnePlace
<1>6. \A u, v \in Thread : thread'[u].mine /\ thread'[v].mine /\ thread'[u].node = thread'[v].node => u = v
  BY <1>2 DEF OnePlace
<1>7. \A u \in Thread, i \in DOMAIN line' : thread'[u].mine => thread'[u].node # line'[i]
  BY <1>2 DEF OnePlace
<1> QED
  BY <1>2, <1>3, <1>4, <1>5, <1>6, <1>7 DEF OnePlace

LEMMA OnePlaceStep ==
  ASSUME TypeOK, OnePlace, [Next]_vars
  PROVE  OnePlace'
<1>1. CASE /\ \A n \in Node : ~TaskStarts(n) /\ ~TaskCancelled(n)
           /\ \A t \in Thread : ~ThreadTakes(t) /\ ~CallReturns(t) /\ ~CallFails(t) /\ ~CallUnanswered(t)
  <2>1. /\ UNCHANGED line
        /\ \A n \in Node : task'[n].ph = "calling" <=> task[n].ph = "calling"
        /\ \A t \in Thread : /\ (thread'[t].mine <=> thread[t].mine)
                             /\ thread'[t].node = thread[t].node
                             /\ thread[t].ph = "idle" <=> thread'[t].ph = "idle"
    BY <1>1, SamePlaces
  <2>2. /\ \A i \in DOMAIN line : line[i] \in Node
        /\ \A t \in Thread : thread[t].mine => thread[t].node \in Node
    BY LineTypes, Typed DEF OnePlace
  <2> QED
    BY <2>1, <2>2 DEF OnePlace
<1> QED
  BY <1>1, TaskStartsInPlace, TaskCancelledInPlace, ThreadTakesInPlace, CallOverInPlace

\* TaskEnds and CallOver wake all who await the task.
LEMMA EndsWake ==
  ASSUME TypeOK, NobodyWaitsForNothing, NEW n \in Node, task'[n] = NoTask,
         \A m \in Node \ {n} : task'[m] = task[m],
         run'.active = run.active \ {n},
         \A t \in Thread : /\ ensure'[t].ph # "none" <=> thread'[t].ph = "blocked"
                           /\ ensure'[t].ph = "await" =>
                                ensure'[t] = ensure[t] /\ ensure[t].on # n
  PROVE  NobodyWaitsForNothing'
<1>1. \A m \in run'.active : Alive(m)'
  BY Typed DEF NobodyWaitsForNothing, Alive, Runs
<1>2. ASSUME NEW t \in Thread, ensure'[t].ph = "await" PROVE Alive(ensure[t].on)'
  <2>1. ensure[t].ph = "await" /\ ensure[t].on \in Node /\ ensure'[t].on = ensure[t].on /\ ensure[t].on # n
    BY <1>2, Typed
  <2> QED
    BY <2>1 DEF NobodyWaitsForNothing, Alive
<1> QED
  BY <1>1, <1>2 DEF NobodyWaitsForNothing

LEMMA NobodyWaitsStep ==
  ASSUME TypeOK, NobodyWaitsForNothing, [Next]_vars
  PROVE  NobodyWaitsForNothing'
<1>0. /\ task \in [Node -> TaskStates] /\ thread \in [Thread -> ThreadStates]
      /\ ensure \in [Thread -> EnsureStates] /\ run.active \subseteq Node /\ run \in Runs
      /\ \A t \in Thread : ensure[t].ph = "await" => ensure[t].on \in Node
  BY Typed DEF Runs
\* A step after which whoever lived lives, and nobody waits for anybody else.
<1>1. ASSUME \A n \in Node : Alive(n) => Alive(n)', \A n \in run'.active : n \in Node /\ Alive(n)',
             \A t \in Thread : /\ thread'[t].ph = "blocked" <=> ensure'[t].ph # "none"
                               /\ ensure'[t].ph = "await" => ensure'[t] = ensure[t] \/ Alive(ensure[t].on)'
      PROVE  NobodyWaitsForNothing'
  BY <1>0, <1>1 DEF NobodyWaitsForNothing, Alive
<1>2. CASE BeginRun
  <2>1. PICK S \in SUBSET Node : /\ task' = Launched(task, S) /\ run'.active = S
                                 /\ UNCHANGED <<thread, ensure>>
    <3> DEFINE wanted == {n \in Plan : ~(state[n] = "done" /\ n \in kept)}
    <3>1. wanted \ kept \in SUBSET Node
      BY LazyAssumption
    <3>2. /\ task' = Launched(task, wanted \ kept) /\ UNCHANGED <<thread, ensure>>
          /\ run' = [on |-> TRUE, active |-> wanted \ kept, abort |-> FALSE]
      BY <1>2 DEF BeginRun
    <3> HIDE DEF wanted
    <3> QED
      BY <3>1, <3>2
  <2>2. \A n \in Node : Alive(n)' <=> Alive(n) \/ n \in S
    BY <1>0, <2>1, LaunchedProperties DEF Alive, NoTask
  <2>3. /\ \A n \in Node : Alive(n) => Alive(n)'
        /\ \A n \in run'.active : n \in Node /\ Alive(n)'
    BY <2>1, <2>2
  <2>4. \A t \in Thread : thread'[t].ph = "blocked" <=> ensure'[t].ph # "none"
    BY <2>1 DEF NobodyWaitsForNothing
  <2> QED
    BY <1>1, <2>1, <2>3, <2>4
<1>3. CASE FinishRun
  BY <1>3 DEF FinishRun, NoRun, NobodyWaitsForNothing, Alive
<1>4. ASSUME UNCHANGED <<thread, ensure>>, run'.active = run.active, \A n \in Node : Alive(n)' <=> Alive(n)
      PROVE  NobodyWaitsForNothing'
  BY <1>0, <1>4 DEF NobodyWaitsForNothing, Alive
<1>5. CASE CancelRun
  <2>1. run'.active = run.active /\ \A n \in Node : Alive(n)' <=> Alive(n)
    BY <1>0, <1>5 DEF CancelRun, Runs, TaskStates, Alive
  <2> QED
    BY <1>4, <1>5, <2>1 DEF CancelRun
<1>6. ASSUME NEW n \in Node, CancelNode(n) PROVE NobodyWaitsForNothing'
  <2>1. \A m \in Node : Alive(m)' <=> Alive(m)
    BY <1>0, <1>6 DEF CancelNode, TaskStates, Alive
  <2> QED
    BY <1>4, <1>6, <2>1 DEF CancelNode
<1>7. ASSUME NEW n \in Node, Evict(n) PROVE NobodyWaitsForNothing'
  BY <1>4, <1>7 DEF Evict, Alive
<1>8. ASSUME NEW n \in Node, NEW how \in {"woken", "broken"}, TaskEnds(n, how),
             \A t \in Thread : thread'[t].ph = thread[t].ph
      PROVE  NobodyWaitsForNothing'
  <2>1. /\ task'[n] = NoTask /\ \A m \in Node \ {n} : task'[m] = task[m]
        /\ run'.active = run.active \ {n}
        /\ \A t \in Thread : IF ensure[t].ph = "await" /\ ensure[t].on = n
                             THEN ensure'[t].ph = how ELSE ensure'[t] = ensure[t]
    BY <1>8, TaskEndsType
  <2>2. \A t \in Thread : /\ ensure'[t].ph # "none" <=> thread'[t].ph = "blocked"
                          /\ ensure'[t].ph = "await" => ensure'[t] = ensure[t] /\ ensure[t].on # n
    BY <1>8, <2>1 DEF NobodyWaitsForNothing
  <2> QED
    BY <2>1, <2>2, EndsWake
<1>9. ASSUME NEW n \in Node, TaskNeverStarts(n) PROVE NobodyWaitsForNothing'
  BY <1>8, <1>9 DEF TaskNeverStarts
<1>10. ASSUME NEW n \in Node, TaskStarts(n) PROVE NobodyWaitsForNothing'
  <2>1. UNCHANGED thread /\ task[n].ph = "created"
    BY <1>10, TaskStartsProperties
  <2>2. CASE task'[n].ph = "calling" /\ (\A m \in Node \ {n} : task'[m] = task[m]) /\ UNCHANGED <<run, ensure>>
    <3>1. \A m \in Node : Alive(m)' <=> Alive(m)
      BY <2>1, <2>2 DEF Alive
    <3> QED
      BY <1>4, <2>1, <2>2, <3>1
  <2>3. CASE TaskEnds(n, "woken")
    BY <1>8, <2>1, <2>3
  <2> QED
    BY <1>10, <2>2, <2>3, TaskStartsProperties
<1>11. ASSUME NEW n \in Node, TaskCancelled(n) PROVE NobodyWaitsForNothing'
  <2>1. \A t \in Thread : thread'[t].ph = thread[t].ph
    BY <1>0, <1>11 DEF TaskCancelled, ThreadStates
  <2> QED
    BY <1>8, <1>11, <2>1 DEF TaskCancelled
<1>12. ASSUME NEW t \in Thread, ThreadTakes(t) PROVE NobodyWaitsForNothing'
  <2>1. /\ thread'[t].ph = "computing" /\ thread[t].ph = "idle"
        /\ \A u \in Thread \ {t} : thread'[u] = thread[u]
        /\ UNCHANGED <<task, ensure, run>>
    BY <1>0, <1>12 DEF ThreadTakes
  <2> QED
    BY <2>1 DEF NobodyWaitsForNothing, Alive
<1>13. ASSUME NEW t \in Thread, CallReturns(t) \/ CallFails(t) \/ CallUnanswered(t)
       PROVE  NobodyWaitsForNothing'
  <2> DEFINE n == thread[t].node
  <2>1. PICK outcome \in {"done", "error", "cancelled"} : CallOver(t, outcome)
    BY <1>13, CallEnds
  <2>2. /\ thread[t].ph # "idle" /\ n \in Node
        /\ thread'[t].ph = "idle" /\ \A u \in Thread \ {t} : thread'[u] = thread[u]
        /\ ensure'[t].ph = "none"
        /\ \A u \in Thread \ {t} :
              IF thread[t].mine /\ ensure[u].ph = "await" /\ ensure[u].on = n
              THEN ensure'[u].ph = "woken" ELSE ensure'[u] = ensure[u]
        /\ \A m \in Node : IF thread[t].mine /\ m = n THEN task'[m] = NoTask ELSE task'[m] = task[m]
        /\ run'.active = IF thread[t].mine THEN run.active \ {n} ELSE run.active
    BY <1>13, <2>1, CallEnds, CallOverProperties, IdleTypes, Typed
  <2>3. \A u \in Thread : ensure'[u].ph # "none" <=> thread'[u].ph = "blocked"
    BY <2>2 DEF NobodyWaitsForNothing
  <2> HIDE DEF n
  <2>4. CASE thread[t].mine
    <3>1. \A u \in Thread : ensure'[u].ph = "await" => ensure'[u] = ensure[u] /\ ensure[u].on # n
      BY <2>2, <2>4
    <3> QED
      BY <2>2, <2>3, <2>4, <3>1, EndsWake
  <2>5. CASE ~thread[t].mine
    <3>1. \A m \in Node : Alive(m)' <=> Alive(m)
      BY <2>2, <2>5 DEF Alive
    <3>2. \A u \in Thread : ensure'[u].ph = "await" => ensure'[u] = ensure[u]
      BY <2>2, <2>5
    <3> QED
      BY <1>0, <1>1, <2>2, <2>3, <2>5, <3>1, <3>2 DEF NobodyWaitsForNothing
  <2> QED
    BY <2>4, <2>5
<1>14. ASSUME NEW t \in Thread, CallAsks(t) PROVE NobodyWaitsForNothing'
  <2>1. /\ thread'[t].ph = "blocked" /\ \A u \in Thread \ {t} : thread'[u] = thread[u]
        /\ ensure'[t].ph = "walk" /\ \A u \in Thread \ {t} : ensure'[u] = ensure[u]
        /\ UNCHANGED <<task, run>>
    BY <1>0, <1>14 DEF CallAsks, ThreadStates
  <2> QED
    BY <2>1 DEF NobodyWaitsForNothing, Alive
<1>15. ASSUME NEW t \in Thread, CallAnswered(t) PROVE NobodyWaitsForNothing'
  <2>1. /\ thread'[t].ph = "computing" /\ \A u \in Thread \ {t} : thread'[u] = thread[u]
        /\ ensure'[t].ph = "none" /\ \A u \in Thread \ {t} : ensure'[u] = ensure[u]
        /\ UNCHANGED <<task, run>>
    BY <1>0, <1>15 DEF CallAnswered, ThreadStates, NoEnsure
  <2> QED
    BY <2>1 DEF NobodyWaitsForNothing, Alive
<1>16. ASSUME NEW t \in Thread, EnsureWalks(t) \/ EnsureResumes(t) PROVE NobodyWaitsForNothing'
  <2>1. UNCHANGED <<thread, run>> /\ ensure[t].ph \in {"walk", "woken"}
    BY <1>16 DEF EnsureWalks, EnsureResumes
  <2>2. ASSUME NEW rest \in SUBSET Node, Walk(t, rest) PROVE NobodyWaitsForNothing'
    <3>1. /\ \A u \in Thread \ {t} : ensure'[u] = ensure[u]
          /\ \A n \in Node : task'[n] # task[n] => task'[n].ph = "created"
          /\ \/ ensure'[t].ph \in {"found", "missing"}
             \/ /\ ensure'[t].ph = "await" /\ ensure'[t].on \in Node
                /\ task'[ensure'[t].on].ph # "none"
      BY <2>1, <2>2, WalkProperties
    <3>2. \A n \in Node : Alive(n) => Alive(n)'
      BY <3>1 DEF Alive
    <3> QED
      BY <1>0, <2>1, <3>1, <3>2 DEF NobodyWaitsForNothing, Alive
  <2>3. CASE ensure' = [ensure EXCEPT ![t].ph = "missing"] /\ UNCHANGED <<state, task>>
    <3>1. /\ ensure'[t].ph = "missing" /\ \A u \in Thread \ {t} : ensure'[u] = ensure[u]
          /\ UNCHANGED task
      BY <1>0, <2>3 DEF EnsureStates
    <3> QED
      BY <2>1, <3>1 DEF NobodyWaitsForNothing, Alive
  <2>4. Needed[ensure[t].src] \in SUBSET Node
        /\ {a \in Needed[ensure[t].src] : a > ensure[t].on} \in SUBSET Node
    BY <2>1, NeededClosed, Typed
  <2> QED
    BY <1>16, <2>2, <2>3, <2>4 DEF EnsureWalks, EnsureResumes
<1>17. CASE UNCHANGED vars
  BY <1>17 DEF vars, NobodyWaitsForNothing, Alive
<1> QED
  BY <1>2, <1>3, <1>5, <1>6, <1>7, <1>9, <1>10, <1>11, <1>12, <1>13, <1>14, <1>15, <1>16, <1>17
     DEF Next, User, SystemStep, TaskStep, ThreadStep, EnsureStep
-----------------------------------------------------------------------------
(* Undisturbed nodes are called once *)

Undisturbed == cancels + faults = 0

\* _ensure goes through what its node needs in order, past what is in the cache only.
Served(t) ==
  /\ ensure[t].ph \notin {"missing", "broken"}
  /\ ensure[t].ph \in {"await", "woken"} =>
       /\ ensure[t].on \in Needed[ensure[t].src]
       /\ \A b \in Needed[ensure[t].src] : b < ensure[t].on => b \in kept
  /\ ensure[t].ph = "woken" => ensure[t].on \in kept

\* As long as nothing fails, is cancelled or evicted: what is done stays in the cache, and
\* only what is not in it, and has its inputs there, has a task.
Steady ==
  /\ \A n \in Node : state[n] = "done" <=> n \in kept
  /\ \A n \in Node : Alive(n) => n \notin kept /\ Sources[n] \subseteq kept /\ ~task[n].cancel
  /\ \A t \in Thread : Served(t) /\ (thread[t].ph # "idle" => thread[t].mine)

CalledOnce ==
  \A n \in Node : calls[n] # 0 =>
    calls[n] = 1 /\ (n \in kept \/ \E t \in Thread : thread[t].mine /\ thread[t].node = n)

Calm == Undisturbed => Steady /\ CalledOnce

LEMMA NoneInSum ==
  ASSUME NEW i \in Nat, NEW j \in Nat, i + j = 0
  PROVE  i = 0 /\ j = 0
OBVIOUS

LEMMA CountersGrow ==
  ASSUME TypeOK, [Next]_vars, Undisturbed'
  PROVE  Undisturbed /\ UNCHANGED <<cancels, faults>> /\ cancels = 0 /\ faults = 0
<1>0. cancels \in Nat /\ faults \in Nat
  BY Typed
<1>1. cancels' \in {cancels, cancels + 1} /\ faults' \in {faults, faults + 1}
  <2>1. CASE User
    BY <2>1 DEF User, BeginRun, CancelRun, CancelNode, Evict
  <2>2. ASSUME NEW n \in Node, TaskStep(n) PROVE UNCHANGED <<cancels, faults>>
    BY <2>2 DEF TaskStep, TaskNeverStarts, TaskStarts, TaskCancelled, bounds
  <2>3. ASSUME NEW t \in Thread, CallReturns(t) \/ CallFails(t) \/ CallUnanswered(t)
        PROVE  cancels' = cancels /\ faults' \in {faults, faults + 1}
    BY <2>3, CallEnds
  <2>4. ASSUME NEW t \in Thread, ThreadTakes(t) \/ CallAsks(t) \/ CallAnswered(t) \/ EnsureStep(t)
        PROVE  UNCHANGED <<cancels, faults>>
    BY <2>4 DEF ThreadTakes, CallAsks, CallAnswered, EnsureStep, EnsureWalks, EnsureResumes, bounds
  <2>5. CASE FinishRun \/ UNCHANGED vars
    BY <2>5 DEF FinishRun, vars, bounds
  <2> QED
    BY <2>1, <2>2, <2>3, <2>4, <2>5 DEF Next, SystemStep, ThreadStep
<1>2. cancels' + faults' = 0
  BY DEF Undisturbed
<1>3. cancels' \in Nat /\ faults' \in Nat
  BY <1>0, <1>1
<1>4. cancels' = 0 /\ faults' = 0
  BY <1>2, <1>3, NoneInSum
<1>5. cancels = 0 /\ faults = 0
  BY <1>0, <1>1, <1>4
<1> QED
  BY <1>4, <1>5 DEF Undisturbed

\* Walking on keeps _ensure served: what it passes is in the cache.
LEMMA WalkServes ==
  ASSUME TypeOK, Steady, NEW t \in Thread, NEW rest \in SUBSET Node, Walk(t, rest),
         ensure[t].ph # "none", UNCHANGED kept, ensure[t].src \in Node,
         rest \subseteq Needed[ensure[t].src],
         \A b \in Needed[ensure[t].src] : b \in kept \/ b \in rest
  PROVE  /\ \A u \in Thread : Served(u)'
         /\ \A n \in Node : state'[n] = "done" <=> n \in kept
         /\ \A n \in Node : Alive(n)' => n \notin kept /\ Sources[n] \subseteq kept /\ ~task'[n].cancel
<1> DEFINE src == ensure[t].src
<1>0. /\ state' \in [Node -> States]
      /\ \A u \in Thread \ {t} : ensure'[u] = ensure[u]
      /\ ensure'[t].src = src
      /\ \A n \in Node : state'[n] # state[n] => state'[n] = "done" /\ n \in kept
      /\ \A n \in Node : task'[n] # task[n] => Stops(n) /\ n \in rest
                                               /\ task[n].ph = "none"
                                               /\ task'[n].ph = "created" /\ ~task'[n].cancel
  BY WalkProperties
<1>1. \A n \in Node : ~Stops(n) => n \in kept
  BY DEF Stops
<1>2. \A n \in Node : Stops(n) => n \notin kept
  BY DEF Stops, Steady
<1>3. \A n \in Node : state'[n] = "done" <=> n \in kept
  BY <1>0 DEF Steady
<1>4. Needed[src] \subseteq Node /\ src \in Needed[src]
      /\ \A m \in Needed[src] : Sources[m] \subseteq Needed[src]
  BY NeededClosed
<1>5. \A u \in Thread \ {t} : Served(u)'
  BY <1>0 DEF Steady, Served
<1>6. CASE /\ \A a \in rest : ~Stops(a)
           /\ UNCHANGED task
           /\ ensure'[t].ph = IF src \in kept THEN "found" ELSE "missing"
  <2>1. src \in kept
    BY <1>1, <1>4, <1>6
  <2>2. ensure'[t].ph = "found"
    BY <1>6, <2>1
  <2>3. Served(t)'
    BY <2>2 DEF Served
  <2>4. \A n \in Node : Alive(n)' => n \notin kept /\ Sources[n] \subseteq kept /\ ~task'[n].cancel
    BY <1>6 DEF Steady, Alive
  <2> QED
    BY <1>3, <1>5, <2>3, <2>4
<1>7. ASSUME NEW a \in rest, \A b \in rest : b < a => ~Stops(b),
             ensure'[t].ph = "await", ensure'[t].on = a,
             \A n \in Node \ {a} : task'[n] = task[n]
      PROVE  /\ Served(t)'
             /\ \A n \in Node : Alive(n)' => n \notin kept /\ Sources[n] \subseteq kept /\ ~task'[n].cancel
  <2>1. \A b \in Needed[src] : b < a => b \in kept
    BY <1>1, <1>7
  <2>2. Served(t)'
    BY <1>0, <1>7, <2>1 DEF Served
  <2>3. \A s \in Sources[a] : s \in Needed[src] /\ s < a
    BY <1>4, LazyAssumption
  <2>4. task'[a] # task[a] => a \notin kept /\ Sources[a] \subseteq kept /\ ~task'[a].cancel
    BY <1>0, <1>2, <2>1, <2>3
  <2>5. \A n \in Node : Alive(n) => n \notin kept /\ Sources[n] \subseteq kept /\ ~task[n].cancel
    BY DEF Steady
  <2> QED
    BY <1>7, <2>2, <2>4, <2>5 DEF Alive
<1> QED
  BY <1>3, <1>5, <1>6, <1>7, WalkProperties

LEMMA CalmStep ==
  ASSUME TypeOK, OnePlace, Calm, [Next]_vars
  PROVE  Calm'
<1> SUFFICES ASSUME Undisturbed' PROVE (Steady /\ CalledOnce)'
  BY DEF Calm
<1>0. /\ cancels' = cancels /\ faults' = faults /\ cancels = 0 /\ faults = 0
      /\ Steady /\ CalledOnce
  BY CountersGrow DEF Calm
<1>t. /\ task \in [Node -> TaskStates] /\ thread \in [Thread -> ThreadStates]
      /\ ensure \in [Thread -> EnsureStates] /\ calls \in [Node -> Nat] /\ kept \subseteq Node
      /\ state \in [Node -> States]
  BY Typed
<1>1. ASSUME UNCHANGED <<kept, calls>>,
             \A t \in Thread : thread[t].mine => thread'[t].mine /\ thread'[t].node = thread[t].node
      PROVE  CalledOnce'
  BY <1>0, <1>1 DEF CalledOnce
<1>2. CASE BeginRun
  <2> DEFINE wanted == {n \in Plan : ~(state[n] = "done" /\ n \in kept)}
  <2>1. /\ state' = [n \in Node |-> IF n \in wanted \cap kept THEN "done" ELSE state[n]]
        /\ task' = Launched(task, wanted \ kept)
        /\ UNCHANGED <<kept, thread, ensure, calls>>
    BY <1>2 DEF BeginRun
  <2>2. \A n \in wanted : n \in Node /\ Sources[n] = {}
    BY LazyAssumption
  <2> HIDE DEF wanted
  <2>3. \A n \in Node : state'[n] = "done" <=> n \in kept
    BY <1>0, <2>1 DEF Steady
  <2>4. \A n \in Node : task'[n] = task[n] \/ (n \in wanted \ kept /\ ~task'[n].cancel)
    BY <1>t, <2>1, LaunchedProperties DEF NoTask
  <2>5. \A n \in Node : Alive(n)' => n \notin kept /\ Sources[n] \subseteq kept /\ ~task'[n].cancel
    BY <1>0, <2>2, <2>4 DEF Steady, Alive
  <2>6. \A t \in Thread : Served(t)' /\ (thread'[t].ph # "idle" => thread'[t].mine)
    BY <1>0, <2>1 DEF Steady, Served
  <2> QED
    BY <1>1, <2>1, <2>3, <2>5, <2>6 DEF Steady
<1>3. CASE FinishRun \/ UNCHANGED vars
  BY <1>0, <1>1, <1>3 DEF FinishRun, vars, Steady, Served, Alive
<1>4. CASE CancelRun
  BY <1>0, <1>4 DEF CancelRun
<1>5. ASSUME NEW n \in Node, CancelNode(n) \/ Evict(n) PROVE FALSE
  BY <1>0, <1>5 DEF CancelNode, Evict
<1>6. ASSUME NEW n \in Node, TaskNeverStarts(n) \/ TaskCancelled(n) PROVE FALSE
  BY <1>0, <1>6 DEF TaskNeverStarts, TaskCancelled, Steady, Alive
<1>7. ASSUME NEW n \in Node, TaskStarts(n) PROVE (Steady /\ CalledOnce)'
  <2>1. task[n].ph = "created" /\ UNCHANGED <<kept, thread, calls>>
        /\ \A m \in Node \ {n} : state'[m] = state[m]
    BY <1>7, TaskStartsProperties DEF bounds
  <2>2. Alive(n) /\ n \notin kept /\ Sources[n] \subseteq kept
    BY <1>0, <2>1 DEF Steady, Alive
  <2>3. /\ state'[n] = "running" /\ ~task'[n].cancel
        /\ \A m \in Node \ {n} : task'[m] = task[m]
        /\ UNCHANGED ensure
    BY <1>7, <2>2, TaskStartsProperties
  <2>4. \A m \in Node : state'[m] = "done" <=> m \in kept
    BY <1>0, <2>1, <2>2, <2>3 DEF Steady
  <2>5. \A m \in Node : Alive(m)' => m \notin kept /\ Sources[m] \subseteq kept /\ ~task'[m].cancel
    BY <1>0, <2>2, <2>3 DEF Steady, Alive
  <2>6. \A t \in Thread : Served(t)' /\ (thread'[t].ph # "idle" => thread'[t].mine)
    BY <1>0, <2>1, <2>3 DEF Steady, Served
  <2> QED
    BY <1>1, <2>1, <2>4, <2>5, <2>6 DEF Steady
<1>8. ASSUME NEW t \in Thread, ThreadTakes(t) PROVE (Steady /\ CalledOnce)'
  <2> DEFINE n == Head(line)
  <2>1. n = line[1] /\ 1 \in DOMAIN line /\ n \in Node
    BY <1>8, LineTypes, HeadTailProperties, EmptySeq, LenProperties DEF ThreadTakes, TypeOK
  <2>2. /\ thread'[t].ph = "computing" /\ thread'[t].node = n /\ thread'[t].mine
        /\ \A u \in Thread \ {t} : thread'[u] = thread[u]
        /\ thread[t].ph = "idle" /\ UNCHANGED <<state, kept, task, ensure>>
        /\ calls' = [calls EXCEPT ![n] = @ + 1]
    BY <1>t, <1>8 DEF ThreadTakes
  <2> HIDE DEF n
  <2>3. ~thread[t].mine /\ (\A u \in Thread : thread[u].mine => thread[u].node # n) /\ Alive(n)
    BY <2>1, <2>2 DEF OnePlace, Alive
  <2>4. calls[n] = 0
    BY <1>0, <2>1, <2>3 DEF Steady, CalledOnce
  <2>5. calls'[n] = 1 /\ \A m \in Node \ {n} : calls'[m] = calls[m]
    BY <1>t, <2>1, <2>2, <2>4
  <2>6. CalledOnce'
    BY <1>0, <2>2, <2>3, <2>5 DEF CalledOnce
  <2>7. Steady'
    BY <1>0, <2>2 DEF Steady, Served, Alive
  <2> QED
    BY <2>6, <2>7
<1>9. ASSUME NEW t \in Thread, CallReturns(t) \/ CallFails(t) \/ CallUnanswered(t)
      PROVE  (Steady /\ CalledOnce)'
  <2> DEFINE n == thread[t].node
  <2>1. PICK outcome \in {"done", "error", "cancelled"} :
          /\ CallOver(t, outcome)
          /\ \/ outcome = "done" \/ faults' = faults + 1
             \/ thread[t].ph = "blocked" /\ ensure[t].ph \in {"missing", "broken"}
    BY <1>9, CallEnds
  <2>2. outcome = "done"
    BY <1>0, <2>1 DEF Steady, Served
  <2>3. thread[t].ph # "idle" /\ thread[t].mine /\ n \in Node
    BY <1>0, <1>9, CallEnds, Typed DEF Steady
  <2>4. /\ thread'[t] = IdleThread /\ \A u \in Thread \ {t} : thread'[u] = thread[u]
        /\ ensure'[t] = NoEnsure /\ UNCHANGED calls
        /\ \A u \in Thread \ {t} :
              IF ensure[u].ph = "await" /\ ensure[u].on = n
              THEN /\ ensure'[u].ph = "woken" /\ ensure'[u].src = ensure[u].src
                   /\ ensure'[u].on = ensure[u].on
              ELSE ensure'[u] = ensure[u]
        /\ \A m \in Node :
              IF m = n THEN state'[m] = "done" /\ task'[m] = NoTask
              ELSE state'[m] = state[m] /\ task'[m] = task[m]
        /\ kept' = kept \cup {n}
    <3>1. CallOver(t, "done")
      BY <2>1, <2>2
    <3>2. thread[t].mine /\ thread[t].ph # "idle" /\ "done" \in {"done", "error", "cancelled"}
      BY <2>3
    <3>3. /\ thread'[t] = IdleThread /\ \A u \in Thread \ {t} : thread'[u] = thread[u]
          /\ ensure'[t] = NoEnsure /\ UNCHANGED calls /\ kept' = kept \cup {n}
      BY <3>1, <3>2, CallOverProperties
    <3>4. \A u \in Thread \ {t} :
            IF ensure[u].ph = "await" /\ ensure[u].on = n
            THEN /\ ensure'[u].ph = "woken" /\ ensure'[u].src = ensure[u].src
                 /\ ensure'[u].on = ensure[u].on
            ELSE ensure'[u] = ensure[u]
      BY <3>1, <3>2, CallOverProperties
    <3>5. \A m \in Node :
            IF m = n THEN state'[m] = "done" /\ task'[m] = NoTask
            ELSE state'[m] = state[m] /\ task'[m] = task[m]
      <4>1. \A m \in Node :
              IF thread[t].mine /\ m = thread[t].node
              THEN state'[m] = "done" /\ task'[m] = NoTask /\ ~task[m].cancel
              ELSE state'[m] = state[m] /\ task'[m] = task[m]
        BY <3>1, <3>2, CallOverProperties
      <4> QED
        BY <3>2, <4>1
    <3> QED
      BY <3>3, <3>4, <3>5
  <2> HIDE DEF n
  <2>5. \A m \in Node : state'[m] = "done" <=> m \in kept'
    BY <1>0, <2>3, <2>4 DEF Steady
  <2>6. \A m \in Node : Alive(m)' => m \notin kept' /\ Sources[m] \subseteq kept' /\ ~task'[m].cancel
    BY <1>0, <2>4, IdleTypes DEF Steady, Alive
  <2>7. \A u \in Thread : Served(u)'
    <3> SUFFICES ASSUME NEW u \in Thread PROVE Served(u)'
      OBVIOUS
    <3>1. CASE u = t
      BY <2>4, <3>1, IdleTypes DEF Served
    <3>2. CASE u # t /\ ensure[u].ph = "await" /\ ensure[u].on = n
      BY <1>0, <2>4, <3>2 DEF Steady, Served
    <3>3. CASE u # t /\ ensure'[u] = ensure[u]
      BY <1>0, <2>4, <3>3 DEF Steady, Served
    <3> QED
      BY <2>4, <3>1, <3>2, <3>3
  <2>8. \A u \in Thread : thread'[u].ph # "idle" => thread'[u].mine
    BY <1>0, <2>4, IdleTypes DEF Steady
  <2>9. CalledOnce'
    <3> SUFFICES ASSUME NEW m \in Node, calls[m] # 0
                 PROVE  calls[m] = 1 /\ (m \in kept' \/ \E u \in Thread : thread'[u].mine /\ thread'[u].node = m)
      BY <2>4 DEF CalledOnce
    <3>1. calls[m] = 1 /\ (m \in kept \/ \E u \in Thread : thread[u].mine /\ thread[u].node = m)
      BY <1>0 DEF CalledOnce
    <3>2. m = n => m \in kept'
      BY <2>4
    <3> QED
      BY <2>4, <3>1, <3>2 DEF n
  <2> QED
    BY <2>5, <2>6, <2>7, <2>8, <2>9 DEF Steady
<1>10. ASSUME NEW t \in Thread, CallAsks(t) PROVE (Steady /\ CalledOnce)'
  <2>1. /\ \A u \in Thread : thread'[u].mine = thread[u].mine /\ thread'[u].node = thread[u].node
        /\ thread[t].ph = "computing" /\ \A u \in Thread \ {t} : thread'[u] = thread[u]
        /\ ensure'[t].ph = "walk" /\ \A u \in Thread \ {t} : ensure'[u] = ensure[u]
        /\ UNCHANGED <<state, kept, task, calls>>
    BY <1>t, <1>10 DEF CallAsks, ThreadStates
  <2>2. \A u \in Thread : Served(u)' /\ (thread'[u].ph # "idle" => thread'[u].mine)
    BY <1>0, <2>1 DEF Steady, Served
  <2>3. CalledOnce'
    BY <1>1, <2>1
  <2> QED
    BY <1>0, <2>1, <2>2, <2>3 DEF Steady, Alive
<1>11. ASSUME NEW t \in Thread, CallAnswered(t) PROVE (Steady /\ CalledOnce)'
  <2>1. /\ \A u \in Thread : thread'[u].mine = thread[u].mine /\ thread'[u].node = thread[u].node
        /\ thread[t].ph = "blocked" /\ \A u \in Thread \ {t} : thread'[u] = thread[u]
        /\ ensure'[t].ph = "none" /\ \A u \in Thread \ {t} : ensure'[u] = ensure[u]
        /\ UNCHANGED <<state, kept, task, calls>>
    BY <1>t, <1>11 DEF CallAnswered, ThreadStates, NoEnsure
  <2>2. \A u \in Thread : Served(u)' /\ (thread'[u].ph # "idle" => thread'[u].mine)
    BY <1>0, <2>1 DEF Steady, Served
  <2>3. CalledOnce'
    BY <1>1, <2>1
  <2> QED
    BY <1>0, <2>1, <2>2, <2>3 DEF Steady, Alive
<1>12. ASSUME NEW t \in Thread, EnsureWalks(t) \/ EnsureResumes(t) PROVE (Steady /\ CalledOnce)'
  <2> DEFINE needed == Needed[ensure[t].src]
  <2>1. UNCHANGED <<kept, thread, calls>> /\ ensure[t].ph \in {"walk", "woken"} /\ ensure[t].src \in Node
    BY <1>12, Typed DEF EnsureWalks, EnsureResumes
  <2>2. needed \subseteq Node
    BY <2>1, NeededClosed
  <2>3. PICK rest \in SUBSET Node : /\ Walk(t, rest) /\ rest \subseteq needed
                                    /\ \A b \in needed : b \in kept \/ b \in rest
    <3>1. CASE EnsureWalks(t)
      BY <2>2, <3>1 DEF EnsureWalks
    <3>2. CASE EnsureResumes(t)
      <4>1. ensure[t].ph = "woken" /\ ensure[t].on \in kept /\ ensure[t].on \in Node
            /\ \A b \in needed : b < ensure[t].on => b \in kept
        BY <1>0, <1>t, <3>2 DEF EnsureResumes, Steady, Served
      <4>2. state[ensure[t].on] = "done"
        BY <1>0, <4>1 DEF Steady
      <4>3. Walk(t, {a \in needed : a > ensure[t].on})
        BY <3>2, <4>2 DEF EnsureResumes
      <4>4. \A b \in needed : b \in kept \/ b > ensure[t].on
        <5>1. \A b \in needed : b \in Nat /\ ensure[t].on \in Nat
          BY <2>2, <4>1, NodeTypes
        <5>2. \A b \in needed : b < ensure[t].on \/ b = ensure[t].on \/ b > ensure[t].on
          BY <5>1
        <5> QED
          BY <4>1, <5>2
      <4> QED
        BY <2>2, <4>3, <4>4
    <3> QED
      BY <1>12, <3>1, <3>2
  <2>4. /\ \A u \in Thread : Served(u)'
        /\ \A n \in Node : state'[n] = "done" <=> n \in kept
        /\ \A n \in Node : Alive(n)' => n \notin kept /\ Sources[n] \subseteq kept /\ ~task'[n].cancel
    BY <1>0, <2>1, <2>3, WalkServes
  <2>5. CalledOnce'
    BY <1>1, <2>1
  <2> QED
    BY <1>0, <2>1, <2>4, <2>5 DEF Steady
<1> QED
  BY <1>2, <1>3, <1>4, <1>5, <1>6, <1>7, <1>8, <1>9, <1>10, <1>11, <1>12
     DEF Next, User, SystemStep, TaskStep, ThreadStep, EnsureStep
-----------------------------------------------------------------------------
(* The theorems *)

IInv == TypeOK /\ NobodyWaitsForNothing /\ OnePlace /\ Calm

LEMMA IInvInit == Init => IInv
<1> SUFFICES ASSUME Init PROVE IInv
  OBVIOUS
<1>1. /\ \A n \in Node : state[n] = "dirty" /\ task[n] = NoTask /\ calls[n] = 0
      /\ \A t \in Thread : thread[t] = IdleThread /\ ensure[t] = NoEnsure
      /\ kept = {} /\ line = <<>> /\ run.active = {}
  BY DEF Init, NoRun
<1>2. DOMAIN line = {}
  BY <1>1
<1>3. NobodyWaitsForNothing
  BY <1>1, IdleTypes DEF NobodyWaitsForNothing
<1>4. OnePlace
  BY <1>1, <1>2, IdleTypes DEF OnePlace
<1>5. Calm
  BY <1>1, IdleTypes DEF Calm, Steady, Served, CalledOnce, Alive
<1> QED
  BY <1>3, <1>4, <1>5, TypeInit DEF IInv

LEMMA IInvInductive == IInv /\ [Next]_vars => IInv'
BY TypeInductive, NobodyWaitsStep, OnePlaceStep, CalmStep DEF IInv

LEMMA CallPlaces ==
  ASSUME TypeOK, OnePlace
  PROVE  EachCallHasAPlace
<1> SUFFICES ASSUME NEW n \in Node
             PROVE  Cardinality(Queued(n)) + Cardinality({t \in Thread : thread[t].node = n /\ thread[t].mine})
                    = IF task[n].ph = "calling" THEN 1 ELSE 0
  BY DEF EachCallHasAPlace
<1> DEFINE Q == Queued(n)
           T == {t \in Thread : thread[t].node = n /\ thread[t].mine}
<1>1. /\ \A i, j \in Q : i = j
      /\ \A t, u \in T : t = u
      /\ Q = {} \/ T = {}
      /\ task[n].ph = "calling" <=> Q # {} \/ T # {}
  BY DEF OnePlace, Queued
<1>2. \A S : (\A x, y \in S : x = y) => S = {} \/ \E x : S = {x}
  OBVIOUS
<1>3. (Q = {} \/ \E x : Q = {x}) /\ (T = {} \/ \E x : T = {x})
  BY <1>1, <1>2
<1>4. Cardinality({}) = 0 /\ \A x : Cardinality({x}) = 1
  BY FS_EmptySet, FS_Singleton
<1> HIDE DEF Q, T
<1>5. task[n].ph = "calling" => Cardinality(Q) + Cardinality(T) = 1
  <2>1. task[n].ph = "calling" => \/ Cardinality(Q) = 1 /\ Cardinality(T) = 0
                                  \/ Cardinality(Q) = 0 /\ Cardinality(T) = 1
    BY <1>1, <1>3, <1>4
  <2> QED
    BY <2>1
<1>6. task[n].ph # "calling" => Cardinality(Q) + Cardinality(T) = 0
  BY <1>1, <1>4
<1> QED
  BY <1>5, <1>6 DEF Q, T

\* Every variable keeps its type.
THEOREM TypeCorrect == Spec => []TypeOK
BY TypeInit, TypeInductive, PTL DEF Spec

\* _ensure and _execute_plan: the run and every thread that blocks wait for something that
\* lives and will answer, whatever is cancelled, fails or is evicted.
THEOREM NobodyWaitsForNothingAlways == Spec => []NobodyWaitsForNothing
BY IInvInit, IInvInductive, PTL DEF Spec, IInv

\* ThreadExecutor.run and _ensure: an awaited call is in one place, and undisturbed nodes are
\* called once, however many threads ask for them over however many runs.
THEOREM EachCallIsSingleAlways == Spec => []EachCallIsSingle
<1>1. IInv => EachCallIsSingle
  <2> SUFFICES ASSUME IInv PROVE EachCallHasAPlace /\ ComputedOnce
    BY DEF EachCallIsSingle
  <2>1. \A n \in Node : calls[n] \in Nat
    BY Typed DEF IInv
  <2>2. ComputedOnce
    BY <2>1 DEF IInv, Calm, Undisturbed, CalledOnce, ComputedOnce
  <2> QED
    BY <2>2, CallPlaces DEF IInv
<1> QED
  BY <1>1, IInvInit, IInvInductive, PTL DEF Spec
===============================================================================
