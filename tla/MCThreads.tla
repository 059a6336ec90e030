------------------------------ MODULE MCThreads ------------------------------
(* The small programs of threads in concurrency/, cthreads/ and
   sample_boost/timer.cpp, one of them per behaviour.  The lookup table's module
   is extended, the others are instances. *)
EXTENDS LookupTable

CONSTANTS
  Workers, Producers, PerProducer,
  MaxLength, MaxHardwareThreads, MinPerThread,
  Iterations, Timers, Limit

ASSUME MCThreadsAssumption ==
  /\ IsFiniteSet(Threads) /\ IsFiniteSet(Producers) /\ Timers # {}
  /\ PerProducer \in Nat /\ Iterations \in Nat /\ Limit \in Nat
  /\ MaxLength \in Nat /\ MaxHardwareThreads \in Nat /\ MinPerThread \in Nat \ {0}

VARIABLES
  program,                                                            \* which one the behaviour is about
  domains, stopped, asleep, holds, left, entries, sent, resolver,     \* DnsWorkers
  stack, pushed, drain, taken,                                        \* MutexStack
  length, hardware_threads, block_start, started, results, ended, total, \* ParallelAccumulate
  cnt, mutex, done, at, loaded, verdict, count_, handler, read        \* SharedCounters

dns == INSTANCE DnsWorkers WITH Work <- <<"example.com", "openai.com", "ietf.org">>, pushed <- sent, main <- resolver
mutexStack == INSTANCE MutexStack WITH data <- stack, main <- drain
accumulate == INSTANCE ParallelAccumulate WITH min_per_thread <- MinPerThread
counters == INSTANCE SharedCounters WITH niters <- Iterations

dnsVars == <<domains, stopped, asleep, holds, left, entries, sent, resolver>>
stackVars == <<stack, pushed, drain, taken>>
accumulateVars == <<length, hardware_threads, block_start, started, results, ended, total>>
counterVars == <<cnt, mutex, done, at, loaded, verdict, count_, handler, read>>

(* A program that is not running keeps one of its initial states.  The buckets
   are alike, so one key's is fixed. *)
MCInit ==
  /\ program \in {"table", "dns", "stack", "accumulate", "counters"}
  /\ Init /\ dns!Init /\ mutexStack!Init /\ accumulate!Init /\ counters!Init
  /\ hash[CHOOSE k \in Keys : TRUE] = CHOOSE b \in Buckets : TRUE
  /\ program # "table" => \A k, m \in Keys : hash[k] = hash[m]
  /\ program # "accumulate" => length = 0 /\ hardware_threads = 0

Step ==
  \/ program = "table" /\ Next /\ UNCHANGED <<dnsVars, stackVars, accumulateVars, counterVars>>
  \/ program = "dns" /\ dns!Next /\ UNCHANGED <<vars, stackVars, accumulateVars, counterVars>>
  \/ program = "stack" /\ mutexStack!Next /\ UNCHANGED <<vars, dnsVars, accumulateVars, counterVars>>
  \/ program = "accumulate" /\ accumulate!Next /\ UNCHANGED <<vars, dnsVars, stackVars, counterVars>>
  \/ program = "counters" /\ counters!Next /\ UNCHANGED <<vars, dnsVars, stackVars, accumulateVars>>

(* All programs but the callers of the table end. *)
Finished ==
  /\ \/ program = "dns" /\ resolver = "printed"
     \/ program = "stack" /\ drain = "done"
     \/ program = "accumulate" /\ total # <<>>
     \/ program = "counters" /\ verdict # "none" /\ \A t \in Timers : handler[t] = "off"
  /\ UNCHANGED <<vars, dnsVars, stackVars, accumulateVars, counterVars>>

MCNext == (Step \/ Finished) /\ UNCHANGED program

MCSpec ==
  /\ MCInit
  /\ [][MCNext]_<<program, vars, dnsVars, stackVars, accumulateVars, counterVars>>
  /\ program = "dns" => dns!Fairness

(* The workers of dns.cpp look up whatever main pushed before it stops them,
   and main's joins return. *)
EveryDomainCached == program = "dns" => dns!EveryDomainCached

(* Nothing is lost or counted twice: by the thread that drains the stack of
   my_stack.cpp, by the blocks of accumulate.cpp, and by the counters of
   badcnt.c and timer.cpp. *)
CountsExact == mutexStack!DrainsAll /\ accumulate!AddsEveryElement /\ counters!NoLostCount
=============================================================================
