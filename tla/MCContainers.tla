----------------------------- MODULE MCContainers -----------------------------
(* The containers and owners of impl/, algorithms/ and strings/, one of them
   per behaviour. *)
EXTENDS CircularBuffer, FiniteSets

CONSTANTS
  Keys, Nodes, QueueCapacity, BadAlloc,              \* ConflatingQueue
  Items, Strings, Blocks, BUFFER_SIZE, MaxLength,    \* CompactString
  Pointers, Widgets, NoPointer,                      \* UniquePtr
  Users, Tasks, Priorities,                          \* TaskManager
  None                                               \* no object, block or task

VARIABLES
  container,                          \* which one the behaviour is about
  queue_, node, pending_, popped,     \* ConflatingQueue
  object, block,                      \* CompactString
  ptr_, made, raw,                    \* UniquePtr
  mp, st, ran                         \* TaskManager

a == CHOOSE i \in Items : TRUE
b == CHOOSE i \in Items \ {a} : TRUE

Queue == INSTANCE ConflatingQueue
  WITH Capacity <- QueueCapacity, NoEntry <- NoValue, ret <- popped
compact == INSTANCE CompactString WITH Chars <- Items, Texts <- {<<>>, <<a>>, <<b, a>>}
pointer == INSTANCE UniquePtr WITH Null <- None
manager == INSTANCE TaskManager WITH Nothing <- None

ASSUME QueueAssumption == Queue!ConflatingQueueAssumption

(* None is nothing that a container could hold. *)
ASSUME MCContainersAssumption ==
  /\ a # b /\ {a, b} \subseteq Items
  /\ None \notin Items \union {NoPointer} \union Blocks \union Widgets
  /\ None \notin Seq(Items) /\ None \notin Users \X Priorities
  /\ None \notin [buffer : Seq(Items \union {None}), length : Nat, heap_ptr : Blocks \union {None}]
  /\ NoPointer \notin Widgets
  /\ IsFiniteSet(Tasks)
  /\ BUFFER_SIZE \in Nat /\ MaxLength \in Nat /\ Tasks \subseteq Int /\ Priorities \subseteq Int

queueVars == <<queue_, node, pending_, popped>>
compactVars == <<object, block>>
pointerVars == <<ptr_, made, raw>>
managerVars == <<mp, st, ran>>

MCInit ==
  /\ container \in {"circular_buffer", "conflating_queue", "compact", "pointer", "manager"}
  /\ Init /\ Queue!Init /\ compact!Init /\ pointer!Init /\ manager!Init

MCNext ==
  /\ \/ /\ container = "circular_buffer" /\ Next
        /\ UNCHANGED <<queueVars, compactVars, pointerVars, managerVars>>
     \/ /\ container = "conflating_queue" /\ Queue!Next
        /\ UNCHANGED <<vars, compactVars, pointerVars, managerVars>>
     \/ /\ container = "compact" /\ compact!Next
        /\ UNCHANGED <<vars, queueVars, pointerVars, managerVars>>
     \/ /\ container = "pointer" /\ pointer!Next
        /\ UNCHANGED <<vars, queueVars, compactVars, managerVars>>
     \/ /\ container = "manager" /\ manager!Next
        /\ UNCHANGED <<vars, queueVars, compactVars, pointerVars>>
  /\ UNCHANGED container

MCSpec ==
  MCInit /\ [][MCNext]_<<container, vars, queueVars, compactVars, pointerVars, managerVars>>

(* The list and the map of the conflating queue keep their types, and no iterator
   outlives its node: push, pop and the eviction change both, and a push may throw
   between the two. *)
IteratorsValid == Queue!TypeOK /\ Queue!IteratorsValid

(* The conflating queue implements its abstract specification. *)
ImplementsConflation == Queue!ImplementsConflation

(* Every long CompactString has a block of its own, and every block one; every
   object that a SimpleUniquePtr was given has one owner. *)
StorageOwned == compact!BlocksOwned /\ pointer!OneOwner

(* CompactStrings behave as sequences of characters. *)
ImplementsSequences == compact!ImplementsSequences

(* The task manager runs the task it should. *)
RunsHighest == manager!RunsHighest
=============================================================================
