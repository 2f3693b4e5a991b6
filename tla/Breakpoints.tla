---------------------------- MODULE Breakpoints ----------------------------
(***************************************************************************)
(* Who owns a breakpoint.  Four parties refer to one:                      *)
(*   the engine, by an id it gives out again once it is free;              *)
(*   the process monitor, which maps the id, per process, to the Breakpoint*)
(*     object that was set (m_breakpointMap), to run its callback;         *)
(*   the Breakpoint object (source/win/breakpoint.cpp), which keeps the id *)
(*     for good, also after the breakpoint is gone;                        *)
(*   the AutoBreakpoint (include/kdlib/breakpoint.h) that holds the object *)
(*     and removes it when it dies.  Copying and assigning one moves the   *)
(*     object, but its callback remains the AutoBreakpoint that made it.   *)
(*                                                                         *)
(* The engine is external: it knows the breakpoints of all processes, and  *)
(* GetBreakpointById finds those of the current one.  The circumstances    *)
(* are what callers must not do for all of the ownership to be sound.      *)
(***************************************************************************)
EXTENDS Naturals, FiniteSets

CONSTANTS
  Autos,           \* AutoBreakpoint objects, each a piece of memory
  Objects,         \* BaseBreakpointImpl objects
  Processes,       \* processes of the engine
  Ids,             \* breakpoint ids the engine gives out
  None,            \* no object, no process, no id (BREAKPOINT_UNSET)
  Givens           \* the sets of circumstances considered

ASSUME IdsAssumption == Ids \subseteq Nat

ASSUME NoneAssumption == None \notin Autos \cup Objects \cup Processes \cup Ids

Circumstances == {"foreign", "stale", "early", "twice"}

ASSUME GivensAssumption == Givens \subseteq SUBSET Circumstances

VARIABLES
  running,     \* the engine's processes
  current,     \* the current one
  process,     \* process[id]: the process of the engine's breakpoint id
  setter,      \* setter[id]: the object whose set() added it
  registered,  \* registered[p][id]: m_breakpointMap of process p
  idOf,        \* idOf[o]: m_id
  callback,    \* callback[o]: m_callback, None until o is constructed
  holds,       \* holds[a]: m_internalBp
  live,        \* AutoBreakpoint objects that are constructed
  removals,    \* removals[o]: how often onRemove ran for o, 0, 1 or more
  adding,      \* the id set() is working on
  given        \* never changes: the circumstances of this behaviour

engine == <<process, setter>>
objects == <<idOf, callback>>
vars ==
  <<running, current, engine, registered, objects, holds, live, removals, adding, given>>

(* One may be removed while another process is current.                    *)
ForeignRemoval == "foreign" \in given

(* One may be set while an AutoBreakpoint holds a dead one.                *)
StaleHandles == "stale" \in given

(* An AutoBreakpoint may die before one that its breakpoint was moved to.  *)
EarlySources == "early" \in given

(* set() may be called on a breakpoint that is set.                        *)
SetTwice == "twice" \in given

TypeOK ==
  /\ running \subseteq Processes
  /\ current \in Processes \cup {None}
  /\ process \in [Ids -> Processes \cup {None}]
  /\ setter \in [Ids -> Objects \cup {None}]
  /\ registered \in [Processes -> [Ids -> Objects \cup {None}]]
  /\ idOf \in [Objects -> Ids \cup {None}]
  /\ callback \in [Objects -> Autos \cup {None}]
  /\ holds \in [Autos -> Objects \cup {None}]
  /\ live \subseteq Autos
  /\ removals \in [Objects -> 0..2]
  /\ adding \in Ids \cup {None}
  /\ given \in Givens

InEngine(o) == \E id \in Ids : process[id] # None /\ setter[id] = o

(* GetBreakpointById.                                                      *)
Finds(id) == id # None /\ current # None /\ process[id] = current
-----------------------------------------------------------------------------
(* set(), up to registerBreakpoint: AddBreakpoint takes the lowest free id.*)
AddBreakpoint(o) ==
  \E id \in Ids :
    /\ process[id] = None
    /\ \A lower \in Ids : process[lower] = None => id <= lower
    /\ process' = [process EXCEPT ![id] = current]
    /\ setter' = [setter EXCEPT ![id] = o]
    /\ adding' = id

(* An AutoBreakpoint sets a new object with itself as the callback.        *)
Construct(a, o) ==
  /\ adding = None /\ current # None
  /\ a \notin live /\ callback[o] = None
  /\ StaleHandles \/ \A b \in live : holds[b] # None => InEngine(holds[b])
  /\ callback' = [callback EXCEPT ![o] = a]
  /\ AddBreakpoint(o)
  /\ UNCHANGED <<running, current, registered, idOf, holds, live, removals, given>>

SetAgain(a) ==
  /\ SetTwice
  /\ adding = None /\ current # None
  /\ a \in live /\ holds[a] # None
  /\ AddBreakpoint(holds[a])
  /\ UNCHANGED <<running, current, registered, objects, holds, live, removals, given>>

(* Fault: the id is taken to be the number of breakpoints there are.       *)
SetSucceeds_Counts ==
  /\ adding # None
  /\ LET o == setter[adding]
         n == Cardinality({id \in Ids : process[id] # None}) IN
       /\ idOf' = [idOf EXCEPT ![o] = n]
       /\ registered' = [registered EXCEPT ![current][n] = o]
       /\ holds' = [holds EXCEPT ![callback[o]] =
            IF callback[o] \in live THEN @ ELSE o]
       /\ live' = live \cup {callback[o]}
  /\ adding' = None
  /\ UNCHANGED <<running, current, engine, callback, removals, given>>

(* GetId and registerBreakpoint; a new AutoBreakpoint is constructed.      *)
SetSucceeds ==
  /\ adding # None
  /\ LET o == setter[adding] IN
       /\ idOf' = [idOf EXCEPT ![o] = adding]
       /\ registered' = [registered EXCEPT ![current][adding] = o]
       /\ holds' = [holds EXCEPT ![callback[o]] =
            IF callback[o] \in live THEN @ ELSE o]
       /\ live' = live \cup {callback[o]}
  /\ adding' = None
  /\ UNCHANGED <<running, current, engine, callback, removals, given>>

(* Fault: a breakpoint that could not be set up stays in the engine.       *)
SetFails_Leaks ==
  /\ adding # None
  /\ adding' = None
  /\ UNCHANGED <<running, current, engine, registered, objects, holds, live, removals, given>>

(* One of the engine's calls fails: its breakpoint is removed, set()       *)
(* throws, and no AutoBreakpoint comes to be.                              *)
SetFails ==
  /\ adding # None
  /\ process' = [process EXCEPT ![adding] = None]
  /\ setter' = [setter EXCEPT ![adding] = None]
  /\ adding' = None
  /\ UNCHANGED <<running, current, registered, objects, holds, live, removals, given>>
-----------------------------------------------------------------------------
(* One more call of onRemove; counted up to 2, which is one too many.      *)
Told(o) == IF removals[o] < 2 THEN removals[o] + 1 ELSE 2

(* Fault: the engine's breakpoint goes, the registered one stays.          *)
Remove_KeepsRegistered(o) ==
  /\ \/ ForeignRemoval
     \/ \A id \in Ids : setter[id] = o /\ process[id] # None => process[id] = current
  /\ IF o # None /\ Finds(idOf[o])
     THEN /\ process' = [process EXCEPT ![idOf[o]] = None]
          /\ setter' = [setter EXCEPT ![idOf[o]] = None]
          /\ UNCHANGED <<registered, removals>>
     ELSE UNCHANGED <<engine, registered, removals>>

(* Fault: onRemove is called although nothing was registered any more.     *)
Remove_AlwaysTells(o) ==
  /\ \/ ForeignRemoval
     \/ \A id \in Ids : setter[id] = o /\ process[id] # None => process[id] = current
  /\ IF o # None
     THEN /\ IF Finds(idOf[o])
             THEN /\ registered' = [registered EXCEPT ![current][idOf[o]] = None]
                  /\ process' = [process EXCEPT ![idOf[o]] = None]
                  /\ setter' = [setter EXCEPT ![idOf[o]] = None]
             ELSE UNCHANGED <<registered, engine>>
          /\ removals' = [removals EXCEPT ![o] = Told(o)]
     ELSE UNCHANGED <<engine, registered, removals>>

(* remove() of object o, if there is one: it goes by the id.  The process  *)
(* monitor runs onRemove of whatever object is registered under it.        *)
Remove(o) ==
  /\ \/ ForeignRemoval
     \/ \A id \in Ids : setter[id] = o /\ process[id] # None => process[id] = current
  /\ IF o # None /\ Finds(idOf[o])
     THEN LET r == registered[current][idOf[o]] IN
          /\ registered' = [registered EXCEPT ![current][idOf[o]] = None]
          /\ removals' = [i \in Objects |-> IF i = r THEN Told(i) ELSE removals[i]]
          /\ process' = [process EXCEPT ![idOf[o]] = None]
          /\ setter' = [setter EXCEPT ![idOf[o]] = None]
     ELSE UNCHANGED <<engine, registered, removals>>

(* remove() called by its owner, who keeps the object.                     *)
CallRemove(a) ==
  /\ adding = None
  /\ a \in live /\ holds[a] # None
  /\ Remove(holds[a])
  /\ UNCHANGED <<running, current, objects, holds, live, adding, given>>

Release(a) ==
  /\ adding = None
  /\ a \in live /\ holds[a] # None
  /\ Remove(holds[a])
  /\ holds' = [holds EXCEPT ![a] = None]
  /\ UNCHANGED <<running, current, objects, live, adding, given>>

(* Fault: what the target held is forgotten, not removed.                  *)
Assign_Forgets(a, b) ==
  /\ adding = None
  /\ {a, b} \subseteq live
  /\ holds' = [holds EXCEPT ![a] = holds[b], ![b] = None]
  /\ UNCHANGED <<running, current, engine, registered, objects, live, removals, adding, given>>

(* a = b: what a held is removed, what b held moves.                       *)
Assign(a, b) ==
  /\ adding = None
  /\ {a, b} \subseteq live
  /\ Remove(holds[a])
  /\ holds' = [holds EXCEPT ![a] = holds[b], ![b] = None]
  /\ UNCHANGED <<running, current, objects, live, adding, given>>

(* a is constructed from b.                                                *)
CopyConstruct(a, b) ==
  /\ adding = None
  /\ a \notin live /\ b \in live
  /\ live' = live \cup {a}
  /\ holds' = [holds EXCEPT ![a] = holds[b], ![b] = None]
  /\ UNCHANGED <<running, current, engine, registered, objects, removals, adding, given>>

DefaultConstruct(a) ==
  /\ adding = None
  /\ a \notin live
  /\ live' = live \cup {a}
  /\ UNCHANGED <<running, current, engine, registered, objects, holds, removals, adding, given>>

Destroy(a) ==
  /\ adding = None
  /\ a \in live
  /\ \/ EarlySources
     \/ \A b \in live \ {a} : holds[b] # None => callback[holds[b]] # a
  /\ Remove(holds[a])
  /\ holds' = [holds EXCEPT ![a] = None]
  /\ live' = live \ {a}
  /\ UNCHANGED <<running, current, objects, adding, given>>
-----------------------------------------------------------------------------
(* Processes come, become current and go with their breakpoints; nobody is *)
(* told of those (processStop drops the map).                              *)
ProcessStarts(p) ==
  /\ adding = None
  /\ p \notin running
  /\ running' = running \cup {p}
  /\ current' = p
  /\ UNCHANGED <<engine, registered, objects, holds, live, removals, adding, given>>

SwitchProcess(p) ==
  /\ adding = None
  /\ p \in running \ {current}
  /\ current' = p
  /\ UNCHANGED <<running, engine, registered, objects, holds, live, removals, adding, given>>

ProcessGone(p) ==
  /\ adding = None
  /\ p \in running
  /\ running' = running \ {p}
  /\ current' \in (IF running' = {} THEN {None} ELSE running')
  /\ process' = [id \in Ids |-> IF process[id] = p THEN None ELSE process[id]]
  /\ setter' = [id \in Ids |-> IF process[id] = p THEN None ELSE setter[id]]
  /\ registered' = [registered EXCEPT ![p] = [id \in Ids |-> None]]
  /\ UNCHANGED <<objects, holds, live, removals, adding, given>>
-----------------------------------------------------------------------------
Init ==
  /\ running = {}
  /\ current = None
  /\ process = [id \in Ids |-> None]
  /\ setter = [id \in Ids |-> None]
  /\ registered = [p \in Processes |-> [id \in Ids |-> None]]
  /\ idOf = [o \in Objects |-> None]
  /\ callback = [o \in Objects |-> None]
  /\ holds = [a \in Autos |-> None]
  /\ live = {}
  /\ removals = [o \in Objects |-> 0]
  /\ adding = None
  /\ given \in Givens

Next ==
  \/ SetSucceeds
  \/ SetFails
  \/ \E a \in Autos : \/ \E o \in Objects : Construct(a, o)
                      \/ SetAgain(a) \/ CallRemove(a) \/ Release(a)
                      \/ DefaultConstruct(a) \/ Destroy(a)
                      \/ \E b \in Autos : Assign(a, b) \/ CopyConstruct(a, b)
  \/ \E p \in Processes : ProcessStarts(p) \/ SwitchProcess(p) \/ ProcessGone(p)

Spec == Init /\ [][Next]_vars
-----------------------------------------------------------------------------
(* What is registered for a process is what the engine has for it, so a    *)
(* hit runs the callback of the object that was set, and removing by id    *)
(* tells that object - also after sets that failed half way.               *)
RegistryMatchesEngine ==
  adding = None =>
    \A p \in Processes, id \in Ids :
      registered[p][id] = IF process[id] = p THEN setter[id] ELSE None

(* What belongs together is destroyed together, for callers that keep what *)
(* each part asks of them: no hit and no removal runs the callback of a    *)
(* destroyed AutoBreakpoint, also if stale handles are about; ...          *)
CallbacksLive ==
  given \subseteq {"stale"} =>
    \A p \in Processes, id \in Ids :
      registered[p][id] # None => callback[registered[p][id]] \in live

(* ... an AutoBreakpoint never removes a breakpoint it does not hold: the  *)
(* id its object remembers is that object's own, or nobody's; ...          *)
HeldIdsAreOwn ==
  given \subseteq {"foreign", "early"} =>
    \A a \in live : holds[a] # None /\ idOf[holds[a]] # None
      => setter[idOf[holds[a]]] \in {holds[a], None}

(* ... every breakpoint in the engine has an AutoBreakpoint that will      *)
(* remove it; ...                                                          *)
NoLeftovers ==
  given \subseteq {"stale", "early"} =>
    \A id \in Ids : process[id] # None /\ id # adding
      => \E a \in live : holds[a] = setter[id]

(* ... and onRemove is called once at most for each breakpoint that is set *)
(* once, whoever removes it.                                               *)
ToldOnce == ~SetTwice => \A o \in Objects : removals[o] <= 1

Ownership == CallbacksLive /\ HeldIdsAreOwn /\ NoLeftovers /\ ToldOnce
=============================================================================
