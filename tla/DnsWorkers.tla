------------------------------ MODULE DnsWorkers ------------------------------
(***************************************************************************)
(* Example 3 of concurrency/dns.cpp: main pushes domains to a queue,       *)
(* workers look them up and store the answers in the cache, and main stops *)
(* the queue, joins the workers and prints the cache.  The lookup is a     *)
(* function of the domain, so the cache is the set of domains it holds.    *)
(***************************************************************************)
EXTENDS Naturals, Sequences, FiniteSets, SequencesExt

CONSTANTS
  Workers,
  Work,     \* the domains that main pushes, in order
  Idle      \* no domain

VARIABLES
  domains,  \* the queue
  stopped,
  asleep,   \* the workers that wait on data_ready
  holds,    \* the domain that each worker has popped and is looking up
  left,     \* the workers that have returned
  entries,  \* the domains in the cache
  pushed,   \* how many domains main has pushed
  main      \* what main does next

vars == <<domains, stopped, asleep, holds, left, entries, pushed, main>>

Init ==
  /\ domains = <<>> /\ stopped = FALSE /\ asleep = {} /\ left = {} /\ entries = {}
  /\ holds = [w \in Workers |-> Idle]
  /\ pushed = 0 /\ main = "push"

(* The locked part of push, and the notification after it. *)
push ==
  /\ main = "push" /\ pushed < Len(Work)
  /\ domains' = Append(domains, Work[pushed + 1])
  /\ pushed' = pushed + 1
  /\ main' = "notify"
  /\ UNCHANGED <<stopped, asleep, holds, left, entries>>

notify_one ==
  /\ main = "notify"
  /\ IF asleep = {} THEN UNCHANGED asleep ELSE \E w \in asleep : asleep' = asleep \ {w}
  /\ main' = "push"
  /\ UNCHANGED <<domains, stopped, holds, left, entries, pushed>>

stop ==
  /\ main = "push" /\ pushed = Len(Work)
  /\ stopped' = TRUE /\ main' = "notify all"
  /\ UNCHANGED <<domains, asleep, holds, left, entries, pushed>>

(* Mutant: stop wakes a single worker. *)
notify_all_One ==
  /\ main = "notify all"
  /\ IF asleep = {} THEN UNCHANGED asleep ELSE \E w \in asleep : asleep' = asleep \ {w}
  /\ main' = "join"
  /\ UNCHANGED <<domains, stopped, holds, left, entries, pushed>>

notify_all ==
  /\ main = "notify all"
  /\ asleep' = {} /\ main' = "join"
  /\ UNCHANGED <<domains, stopped, holds, left, entries, pushed>>

(* Both joins, after which the cache is printed. *)
join ==
  /\ main = "join" /\ left = Workers
  /\ main' = "printed"
  /\ UNCHANGED <<domains, stopped, asleep, holds, left, entries, pushed>>

-----------------------------------------------------------------------------
Running(w) == w \notin asleep \union left /\ holds[w] = Idle

(* The predicate of the wait fails, and the worker goes to sleep. *)
wait(w) ==
  /\ Running(w) /\ ~ stopped /\ domains = <<>>
  /\ asleep' = asleep \union {w}
  /\ UNCHANGED <<domains, stopped, holds, left, entries, pushed, main>>

(* pop returns a domain, or nothing when the stopped queue is drained. *)
pop(w) ==
  /\ Running(w) /\ (stopped \/ domains # <<>>)
  /\ IF domains = <<>>
       THEN left' = left \union {w} /\ UNCHANGED <<domains, holds>>
       ELSE /\ holds' = [holds EXCEPT ![w] = Head(domains)]
            /\ domains' = Tail(domains)
            /\ UNCHANGED left
  /\ UNCHANGED <<stopped, asleep, entries, pushed, main>>

update_or_add_entry(w) ==
  /\ holds[w] # Idle
  /\ entries' = entries \union {holds[w]}
  /\ holds' = [holds EXCEPT ![w] = Idle]
  /\ UNCHANGED <<domains, stopped, asleep, left, pushed, main>>

SpuriousWakeup(w) ==
  /\ w \in asleep
  /\ asleep' = asleep \ {w}
  /\ UNCHANGED <<domains, stopped, holds, left, entries, pushed, main>>

Main == push \/ notify_one \/ stop \/ notify_all \/ join

Worker(w) == wait(w) \/ pop(w) \/ update_or_add_entry(w)

Next == Main \/ \E w \in Workers : Worker(w) \/ SpuriousWakeup(w)

Fairness == WF_vars(Main) /\ \A w \in Workers : WF_vars(Worker(w))

Spec == Init /\ [][Next]_vars /\ Fairness

-----------------------------------------------------------------------------
(* Main gets past its joins, and every domain it pushed is in the cache that
   it prints then. *)
EveryDomainCached == <>[](main = "printed" /\ entries = ToSet(Work))
=============================================================================
