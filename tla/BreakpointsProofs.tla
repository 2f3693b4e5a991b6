------------------------- MODULE BreakpointsProofs -------------------------
(***************************************************************************)
(* For any number of AutoBreakpoints, objects, processes and ids: what is  *)
(* registered for a process is what the engine has for it, whatever the    *)
(* callers do; and for callers that keep what each part asks of them,      *)
(* breakpoints, their callbacks and their holders end together.            *)
(***************************************************************************)
EXTENDS Breakpoints, TLAPS

(* Between the steps of a set() all but the id it works on is registered.  *)
Registered ==
  \A p \in Processes, id \in Ids :
    registered[p][id] = IF process[id] = p /\ id # adding THEN setter[id] ELSE None

(* The id set() works on was added for the current process.                *)
Adding ==
  adding # None => /\ current # None
                   /\ process[adding] = current
                   /\ process[adding] # None

(* Every breakpoint in the engine was added by a constructed object, and   *)
(* AutoBreakpoints hold constructed objects.                               *)
Constructed ==
  /\ \A id \in Ids : process[id] # None => setter[id] \in Objects
  /\ \A id \in Ids : setter[id] # None => callback[setter[id]] \in Autos
  /\ \A a \in Autos : holds[a] # None => callback[holds[a]] \in Autos

IInv == TypeOK /\ Registered /\ Adding /\ Constructed

(* None is no breakpoint, object, process or id.                          *)
LEMMA NoneIsNothing ==
  /\ None \notin Autos /\ None \notin Objects
  /\ None \notin Processes /\ None \notin Ids
  BY NoneAssumption

(* No breakpoint is set at first.                                         *)
LEMMA InitIInv == Init => IInv
  BY NoneIsNothing DEF Init, IInv, TypeOK, Registered, Adding, Constructed

(* What set() starts: a new id for the current process.                    *)
LEMMA AddBreakpointInv ==
  ASSUME IInv, NEW o \in Objects, AddBreakpoint(o),
         adding = None, current # None,
         registered' = registered, current' = current, running' = running,
         holds' = holds, live' = live, removals' = removals, idOf' = idOf,
         given' = given,
         callback' \in [Objects -> Autos \cup {None}],
         callback'[o] \in Autos,
         \A i \in Objects : callback[i] \in Autos => callback'[i] \in Autos
  PROVE  IInv'
<1> USE NoneIsNothing
<1>1. PICK id \in Ids : /\ process[id] = None
                        /\ process' = [process EXCEPT ![id] = current]
                        /\ setter' = [setter EXCEPT ![id] = o]
                        /\ adding' = id
  BY DEF AddBreakpoint
<1>2. TypeOK'
  BY <1>1 DEF IInv, TypeOK
<1>3. Registered'
  BY <1>1 DEF IInv, TypeOK, Registered
<1>4. Adding'
  BY <1>1 DEF IInv, TypeOK, Adding
<1>5. Constructed'
  BY <1>1 DEF IInv, TypeOK, Constructed
<1>6. QED
  BY <1>2, <1>3, <1>4, <1>5 DEF IInv

(* Removing an object leaves the registry and the engine in step.          *)
LEMMA RemoveInv ==
  ASSUME IInv, NEW o \in Objects \cup {None}, Remove(o), adding = None,
         adding' = adding, current' = current, running' = running,
         callback' = callback, idOf' = idOf, given' = given, live' \subseteq Autos,
         holds' \in [Autos -> Objects \cup {None}],
         \A a \in Autos : holds'[a] = None \/ \E b \in Autos : holds'[a] = holds[b]
  PROVE  IInv'
<1> USE NoneIsNothing
<1>1. CASE o # None /\ Finds(idOf[o])
  <2> DEFINE id == idOf[o]
  <2>1. id \in Ids /\ current \in Processes /\ process[id] = current
    BY <1>1 DEF IInv, TypeOK, Finds
  <2>2. /\ process' = [process EXCEPT ![id] = None]
        /\ setter' = [setter EXCEPT ![id] = None]
        /\ registered' = [registered EXCEPT ![current][id] = None]
        /\ removals' \in [Objects -> 0..2]
    BY <1>1 DEF Remove, Told, IInv, TypeOK
  <2> HIDE DEF id
  <2>3. TypeOK'
    BY <2>1, <2>2 DEF IInv, TypeOK
  <2>4. Registered'
    BY <2>1, <2>2 DEF IInv, TypeOK, Registered
  <2>5. Adding'
    BY DEF Adding
  <2>6. Constructed'
    BY <2>1, <2>2 DEF IInv, TypeOK, Constructed
  <2>7. QED
    BY <2>3, <2>4, <2>5, <2>6 DEF IInv
<1>2. CASE ~(o # None /\ Finds(idOf[o]))
  <2>1. process' = process /\ setter' = setter /\ registered' = registered
          /\ removals' = removals
    BY <1>2 DEF Remove, engine
  <2>2. QED
    BY <2>1 DEF IInv, TypeOK, Registered, Adding, Constructed
<1>3. QED
  BY <1>1, <1>2

(* Every operation keeps the invariant, one step per action.              *)
LEMMA NextIInv == IInv /\ [Next]_vars => IInv'
<1> SUFFICES ASSUME IInv, [Next]_vars PROVE IInv'
  OBVIOUS
<1> USE NoneIsNothing
<1>1. ASSUME NEW a \in Autos, NEW o \in Objects, Construct(a, o) PROVE IInv'
  BY <1>1, AddBreakpointInv DEF Construct, IInv, TypeOK
<1>2. ASSUME NEW a \in Autos, SetAgain(a) PROVE IInv'
  BY <1>2, AddBreakpointInv DEF SetAgain, objects, IInv, TypeOK, Constructed
<1>3. CASE SetSucceeds
  <2> DEFINE o == setter[adding]
  <2>1. /\ adding \in Ids /\ o \in Objects /\ current \in Processes
        /\ process[adding] = current /\ callback[o] \in Autos
    BY <1>3 DEF SetSucceeds, IInv, TypeOK, Adding, Constructed
  <2>2. /\ idOf' = [idOf EXCEPT ![o] = adding]
        /\ registered' = [registered EXCEPT ![current][adding] = o]
        /\ holds' = [holds EXCEPT ![callback[o]] =
                       IF callback[o] \in live THEN @ ELSE o]
        /\ live' = live \cup {callback[o]}
        /\ adding' = None
        /\ UNCHANGED <<running, current, process, setter, callback, removals, given>>
    BY <1>3 DEF SetSucceeds, engine
  <2> HIDE DEF o
  <2>3. TypeOK'
    BY <2>1, <2>2 DEF IInv, TypeOK
  <2>4. Registered'
    BY <2>1, <2>2 DEF IInv, TypeOK, Registered, o
  <2>5. Adding'
    BY <2>2 DEF Adding
  <2>6. Constructed'
    BY <2>1, <2>2 DEF IInv, TypeOK, Constructed
  <2>7. QED
    BY <2>3, <2>4, <2>5, <2>6 DEF IInv
<1>4. CASE SetFails
  <2>1. adding \in Ids /\ process[adding] = current /\ current \in Processes
    BY <1>4 DEF SetFails, IInv, TypeOK, Adding
  <2>2. TypeOK'
    BY <1>4, <2>1 DEF SetFails, objects, IInv, TypeOK
  <2>3. Registered'
    BY <1>4, <2>1 DEF SetFails, IInv, TypeOK, Registered
  <2>4. Adding'
    BY <1>4 DEF SetFails, Adding
  <2>5. Constructed'
    BY <1>4, <2>1 DEF SetFails, objects, IInv, TypeOK, Constructed
  <2>6. QED
    BY <2>2, <2>3, <2>4, <2>5 DEF IInv
<1>5. ASSUME NEW a \in Autos, CallRemove(a) PROVE IInv'
  BY <1>5, RemoveInv DEF CallRemove, objects, IInv, TypeOK
<1>6. ASSUME NEW a \in Autos, Release(a) PROVE IInv'
  BY <1>6, RemoveInv DEF Release, objects, IInv, TypeOK
<1>7. ASSUME NEW a \in Autos, NEW b \in Autos, Assign(a, b) PROVE IInv'
  BY <1>7, RemoveInv DEF Assign, objects, IInv, TypeOK
<1>8. ASSUME NEW a \in Autos, NEW b \in Autos, CopyConstruct(a, b) PROVE IInv'
  BY <1>8 DEF CopyConstruct, engine, objects, IInv, TypeOK, Registered, Adding, Constructed
<1>9. ASSUME NEW a \in Autos, DefaultConstruct(a) PROVE IInv'
  BY <1>9 DEF DefaultConstruct, engine, objects, IInv, TypeOK, Registered, Adding, Constructed
<1>10. ASSUME NEW a \in Autos, Destroy(a) PROVE IInv'
  BY <1>10, RemoveInv DEF Destroy, objects, IInv, TypeOK
<1>11. ASSUME NEW p \in Processes, ProcessStarts(p) \/ SwitchProcess(p) PROVE IInv'
  BY <1>11 DEF ProcessStarts, SwitchProcess, engine, objects,
               IInv, TypeOK, Registered, Adding, Constructed
<1>12. ASSUME NEW p \in Processes, ProcessGone(p) PROVE IInv'
  <2>1. TypeOK'
    BY <1>12 DEF ProcessGone, objects, IInv, TypeOK
  <2>2. Registered'
    BY <1>12 DEF ProcessGone, IInv, TypeOK, Registered
  <2>3. Adding'
    BY <1>12 DEF ProcessGone, Adding
  <2>4. Constructed'
    BY <1>12 DEF ProcessGone, objects, IInv, TypeOK, Constructed
  <2>5. QED
    BY <2>1, <2>2, <2>3, <2>4 DEF IInv
<1>13. CASE UNCHANGED vars
  BY <1>13 DEF vars, engine, objects, IInv, TypeOK, Registered, Adding, Constructed
<1>14. QED
  BY <1>1, <1>2, <1>3, <1>4, <1>5, <1>6, <1>7, <1>8, <1>9, <1>10, <1>11, <1>12, <1>13
  DEF Next

(* The invariant holds in every reachable state.                          *)
LEMMA Invariance == Spec => []IInv
  BY InitIInv, NextIInv, PTL DEF Spec

(* The variables of the model stay in their types: no set, no removal and  *)
(* no move leaves an id, a holder or a callback that is none.              *)
THEOREM TypeCorrect == Spec => []TypeOK
<1>1. IInv => TypeOK
  BY DEF IInv
<1>2. QED
  BY <1>1, Invariance, PTL

(* At rest, the process monitor has for every process the breakpoints that *)
(* the engine has for it: insertBreakpoint, removeBreakpoint and processStop*)
(* keep up with AddBreakpoint, RemoveBreakpoint and processes that end,    *)
(* also when set() fails and whoever calls whatever.                       *)
THEOREM RegistryIsExact == Spec => []RegistryMatchesEngine
<1>1. IInv => RegistryMatchesEngine
  BY NoneIsNothing DEF IInv, TypeOK, Registered, RegistryMatchesEngine
<1>2. QED
  BY <1>1, Invariance, PTL
-----------------------------------------------------------------------------
(* The other half of the invariant, for callers that keep what each part   *)
(* asks of them.  An id that is free has no setter, and an AutoBreakpoint  *)
(* that is no more holds nothing.                                          *)
Freed == \A id \in Ids : process[id] = None => setter[id] = None

Dead == \A a \in Autos \ live : holds[a] = None

(* An object that is set once has one id in the engine at most, which it   *)
(* remembers, and leaves it once.                                          *)
SetOnce ==
  /\ \A i, j \in Ids : setter[i] # None /\ setter[i] = setter[j] => i = j
  /\ \A id \in Ids : setter[id] # None /\ id # adding => idOf[setter[id]] = id
  /\ \A id \in Ids : setter[id] # None => removals[setter[id]] = 0
  /\ \A o \in Objects : removals[o] <= 1
  /\ \A o \in Objects : callback[o] = None => removals[o] = 0
  /\ adding # None => callback[setter[adding]] \notin live

SetOnceIf == ~SetTwice => SetOnce

(* CallbacksLive needs NoLeftovers: when an AutoBreakpoint dies, it is the *)
(* holder of whatever still calls it back.                                 *)
OInv == Freed /\ Dead /\ SetOnceIf /\ HeldIdsAreOwn /\ NoLeftovers /\ CallbacksLive

(* A removal takes one id at most out of the engine, and tells the object  *)
(* that set it.  An object set once, removed in its own process, is gone.  *)
LEMMA RemoveEffect ==
  ASSUME IInv, Freed, NEW o \in Objects \cup {None}, Remove(o), adding = None
  PROVE  \E gone \in Ids \cup {None} :
           /\ \A i \in Ids : /\ process'[i] = IF i = gone THEN None ELSE process[i]
                             /\ setter'[i] = IF i = gone THEN None ELSE setter[i]
           /\ \A i \in Objects : removals'[i] = IF gone # None /\ i = setter[gone]
                                                THEN Told(i) ELSE removals[i]
           /\ ~SetTwice /\ SetOnceIf /\ ~ForeignRemoval /\ o # None
                => \A i \in Ids : setter[i] = o => i = gone
<1> USE NoneIsNothing
<1>1. CASE o # None /\ Finds(idOf[o])
  <2> DEFINE id == idOf[o]
  <2>1. id \in Ids /\ current \in Processes /\ process[id] = current
    BY <1>1 DEF IInv, TypeOK, Finds
  <2>2. registered[current][id] = setter[id] /\ setter[id] \in Objects
    BY <2>1 DEF IInv, Registered, Constructed
  <2>3. /\ process' = [process EXCEPT ![id] = None]
        /\ setter' = [setter EXCEPT ![id] = None]
        /\ removals' = [i \in Objects |-> IF i = setter[id] THEN Told(i) ELSE removals[i]]
    BY <1>1, <2>2 DEF Remove
  <2>4. ~SetTwice /\ SetOnceIf => \A i \in Ids : setter[i] = o => i = id
    BY <1>1 DEF SetOnceIf, SetOnce
  <2> HIDE DEF id
  <2>5. \A i \in Ids : /\ process'[i] = IF i = id THEN None ELSE process[i]
                       /\ setter'[i] = IF i = id THEN None ELSE setter[i]
    BY <2>1, <2>3 DEF IInv, TypeOK
  <2>6. \A i \in Objects : removals'[i] = IF id # None /\ i = setter[id]
                                          THEN Told(i) ELSE removals[i]
    BY <2>1, <2>3
  <2> QED
    BY <2>1, <2>4, <2>5, <2>6
<1>2. CASE ~(o # None /\ Finds(idOf[o]))
  <2>1. process' = process /\ setter' = setter /\ removals' = removals
    BY <1>2 DEF Remove, engine
  <2>2. ASSUME ~SetTwice, SetOnceIf, ~ForeignRemoval, o # None, NEW i \in Ids, setter[i] = o
        PROVE  FALSE
    <3>1. process[i] # None /\ idOf[o] = i
      BY <2>2 DEF Freed, SetOnceIf, SetOnce
    <3>2. process[i] = current
      BY <2>2, <3>1 DEF Remove
    <3> QED
      BY <1>2, <2>2, <3>1, <3>2 DEF Finds
  <2>3. \A i \in Ids : i # None
    OBVIOUS
  <2> QED
    BY <2>1, <2>2, <2>3
<1> QED
  BY <1>1, <1>2

(* A removal, with the holders and the AutoBreakpoints that are left after *)
(* it: the others still hold what they held, maybe in another place, and   *)
(* still have their callbacks.                                             *)
LEMMA RemoveOwned ==
  ASSUME IInv, OInv, IInv', NEW o \in Objects \cup {None}, Remove(o), adding = None,
         adding' = adding, given' = given, idOf' = idOf, callback' = callback,
         live' \subseteq live, Dead',
         \A a \in Autos : holds'[a] = None \/ \E b \in Autos : holds'[a] = holds[b],
         \A b \in live : \/ holds[b] = o
                         \/ holds[b] = None
                         \/ \E a \in live' : holds'[a] = holds[b],
         ~EarlySources =>
           \A b \in live : holds[b] \notin {o, None} /\ callback[holds[b]] \in live
                             => callback[holds[b]] \in live'
  PROVE  OInv'
<1> USE NoneIsNothing
<1>1. PICK gone \in Ids \cup {None} :
           /\ \A i \in Ids : /\ process'[i] = IF i = gone THEN None ELSE process[i]
                             /\ setter'[i] = IF i = gone THEN None ELSE setter[i]
           /\ \A i \in Objects : removals'[i] = IF gone # None /\ i = setter[gone]
                                                THEN Told(i) ELSE removals[i]
           /\ ~SetTwice /\ SetOnceIf /\ ~ForeignRemoval /\ o # None
                => \A i \in Ids : setter[i] = o => i = gone
  BY RemoveEffect DEF OInv
<1>2. Freed'
  BY <1>1 DEF OInv, Freed
<1>3. SetOnceIf'
  <2> SUFFICES ASSUME ~SetTwice, SetOnce PROVE SetOnce'
    BY DEF OInv, SetOnceIf, SetTwice
  <2>1. \A i, j \in Ids : setter'[i] # None /\ setter'[i] = setter'[j] => i = j
    BY <1>1 DEF SetOnce
  <2>2. \A id \in Ids : setter'[id] # None /\ id # adding' => idOf'[setter'[id]] = id
    BY <1>1 DEF SetOnce
  <2>3. ASSUME NEW id \in Ids, setter'[id] # None PROVE removals'[setter'[id]] = 0
    <3>1. setter'[id] = setter[id] /\ id # gone /\ setter[id] \in Objects
      BY <1>1, <2>3 DEF IInv, TypeOK
    <3>2. removals[setter[id]] = 0
      BY <2>3, <3>1 DEF SetOnce
    <3>3. gone # None => setter[id] # setter[gone]
      BY <2>3, <3>1 DEF SetOnce
    <3> QED
      BY <1>1, <3>1, <3>2, <3>3
  <2>4. ASSUME NEW i \in Objects
        PROVE  removals'[i] <= 1 /\ (callback'[i] = None => removals'[i] = 0)
    <3>1. CASE gone # None /\ i = setter[gone]
      <4>1. removals[i] = 0 /\ callback[i] # None
        BY <3>1 DEF SetOnce, IInv, Constructed
      <4> QED
        BY <1>1, <3>1, <4>1 DEF Told
    <3>2. CASE ~(gone # None /\ i = setter[gone])
      BY <1>1, <3>2 DEF SetOnce
    <3> QED
      BY <3>1, <3>2
  <2> QED
    BY <2>1, <2>2, <2>3, <2>4 DEF SetOnce
<1>4. HeldIdsAreOwn'
  <2> SUFFICES ASSUME given \subseteq {"foreign", "early"}, NEW a \in live',
                      holds'[a] # None, idOf[holds'[a]] # None
               PROVE  setter'[idOf[holds'[a]]] \in {holds'[a], None}
    BY DEF HeldIdsAreOwn
  <2>1. a \in Autos /\ holds'[a] \in Objects
    BY DEF IInv, TypeOK
  <2>2. PICK b \in Autos : holds'[a] = holds[b]
    BY <2>1
  <2>3. b \in live
    BY <2>2 DEF OInv, Dead
  <2>4. setter[idOf[holds[b]]] \in {holds[b], None} /\ idOf[holds[b]] \in Ids
    BY <2>1, <2>2, <2>3 DEF OInv, HeldIdsAreOwn, IInv, TypeOK
  <2> QED
    BY <1>1, <2>2, <2>4
<1>5. NoLeftovers'
  <2> SUFFICES ASSUME given \subseteq {"stale", "early"}, NEW id \in Ids,
                      process'[id] # None, id # adding'
               PROVE  \E a \in live' : holds'[a] = setter'[id]
    BY DEF NoLeftovers
  <2>1. process[id] # None /\ setter'[id] = setter[id] /\ id # gone
    BY <1>1
  <2>2. PICK b \in live : holds[b] = setter[id]
    BY <2>1 DEF OInv, NoLeftovers
  <2>3. setter[id] # None
    BY <2>1 DEF IInv, Constructed
  <2>4. ~SetTwice /\ ~ForeignRemoval
    BY DEF SetTwice, ForeignRemoval
  <2>5. setter[id] # o
    BY <1>1, <2>1, <2>3, <2>4 DEF OInv
  <2> QED
    BY <2>1, <2>2, <2>3, <2>5
<1>6. CallbacksLive'
  <2> SUFFICES ASSUME given \subseteq {"stale"}, NEW p \in Processes, NEW id \in Ids,
                      registered'[p][id] # None
               PROVE  callback[registered'[p][id]] \in live'
    BY DEF CallbacksLive
  <2>1. process'[id] = p /\ registered'[p][id] = setter'[id]
    BY DEF IInv, Registered
  <2>2. /\ process[id] = p /\ setter'[id] = setter[id] /\ id # gone
        /\ registered[p][id] = setter[id] /\ setter[id] # None
    BY <1>1, <2>1 DEF IInv, Registered
  <2>3. PICK b \in live : holds[b] = setter[id]
    BY <2>2 DEF OInv, NoLeftovers
  <2>4. ~SetTwice /\ ~ForeignRemoval /\ ~EarlySources
    BY DEF SetTwice, ForeignRemoval, EarlySources
  <2>5. setter[id] # o
    BY <1>1, <2>2, <2>4 DEF OInv
  <2>6. callback[setter[id]] \in live
    BY <2>2 DEF OInv, CallbacksLive
  <2> QED
    BY <2>1, <2>2, <2>3, <2>4, <2>5, <2>6
<1> QED
  BY <1>2, <1>3, <1>4, <1>5, <1>6 DEF OInv

(* Every operation keeps what belongs together together.                   *)
LEMMA NextOInv == IInv /\ IInv' /\ OInv /\ [Next]_vars => OInv'
<1> SUFFICES ASSUME IInv, IInv', OInv, [Next]_vars PROVE OInv'
  OBVIOUS
<1> USE NoneIsNothing DEF SetTwice, ForeignRemoval, EarlySources, StaleHandles
<1>1. ASSUME NEW a \in Autos, NEW o \in Objects, Construct(a, o) PROVE OInv'
  <2>1. /\ adding = None /\ current # None /\ a \notin live /\ callback[o] = None
        /\ StaleHandles \/ \A b \in live : holds[b] # None => InEngine(holds[b])
        /\ callback' = [callback EXCEPT ![o] = a]
        /\ UNCHANGED <<running, current, registered, idOf, holds, live, removals, given>>
    BY <1>1 DEF Construct
  <2>2. PICK id \in Ids : /\ process[id] = None
                          /\ process' = [process EXCEPT ![id] = current]
                          /\ setter' = [setter EXCEPT ![id] = o]
                          /\ adding' = id
    BY <1>1 DEF Construct, AddBreakpoint
  <2>3. /\ \A i \in Ids : /\ process'[i] = IF i = id THEN current ELSE process[i]
                          /\ setter'[i] = IF i = id THEN o ELSE setter[i]
        /\ \A i \in Objects : callback'[i] = IF i = o THEN a ELSE callback[i]
    BY <2>1, <2>2 DEF IInv, TypeOK
  <2>4. \A i \in Ids : setter[i] # o
    BY <2>1 DEF IInv, Constructed
  <2>5. Freed' /\ Dead'
    BY <2>1, <2>3 DEF OInv, Freed, Dead
  <2>6. SetOnceIf'
    <3> SUFFICES ASSUME SetOnce, ~SetTwice PROVE SetOnce'
      BY <2>1 DEF OInv, SetOnceIf
    <3>1. \A i, j \in Ids : setter'[i] # None /\ setter'[i] = setter'[j] => i = j
      BY <2>3, <2>4 DEF SetOnce
    <3>2. \A i \in Ids : setter'[i] # None /\ i # adding' => idOf'[setter'[i]] = i
      BY <2>1, <2>2, <2>3 DEF SetOnce
    <3>3. \A i \in Ids : setter'[i] # None => removals'[setter'[i]] = 0
      BY <2>1, <2>3 DEF SetOnce
    <3>4. \A i \in Objects : removals'[i] <= 1 /\ (callback'[i] = None => removals'[i] = 0)
      BY <2>1, <2>3 DEF SetOnce
    <3>5. callback'[setter'[adding']] \notin live'
      BY <2>1, <2>2, <2>3
    <3> QED
      BY <3>1, <3>2, <3>3, <3>4, <3>5 DEF SetOnce
  <2>7. HeldIdsAreOwn'
    <3> SUFFICES ASSUME given \subseteq {"foreign", "early"}, NEW b \in live,
                        holds[b] # None, idOf[holds[b]] # None
                 PROVE  setter'[idOf[holds[b]]] \in {holds[b], None}
      BY <2>1 DEF HeldIdsAreOwn
    <3>1. PICK i \in Ids : process[i] # None /\ setter[i] = holds[b]
      BY <2>1 DEF InEngine
    <3>2. idOf[holds[b]] = i
      BY <2>1, <3>1 DEF OInv, SetOnceIf, SetOnce
    <3> QED
      BY <2>2, <2>3, <3>1, <3>2
  <2>8. NoLeftovers'
    BY <2>1, <2>2, <2>3 DEF OInv, NoLeftovers
  <2>9. CallbacksLive'
    <3> SUFFICES ASSUME given \subseteq {"stale"}, NEW p \in Processes, NEW i \in Ids,
                        registered[p][i] # None
                 PROVE  callback'[registered[p][i]] \in live
      BY <2>1 DEF CallbacksLive
    <3>1. registered[p][i] \in Objects /\ callback[registered[p][i]] \in live
      BY DEF OInv, CallbacksLive, IInv, TypeOK
    <3>2. registered[p][i] # o
      BY <2>1, <3>1 DEF IInv, TypeOK
    <3> QED
      BY <2>3, <3>1, <3>2
  <2> QED
    BY <2>5, <2>6, <2>7, <2>8, <2>9 DEF OInv
<1>2. ASSUME NEW a \in Autos, SetAgain(a) PROVE OInv'
  <2>1. /\ SetTwice /\ current # None
        /\ UNCHANGED <<running, current, registered, objects, holds, live, removals, given>>
    BY <1>2 DEF SetAgain
  <2>2. \E id \in Ids : /\ process' = [process EXCEPT ![id] = current]
                        /\ setter' = [setter EXCEPT ![id] = holds[a]]
    BY <1>2 DEF SetAgain, AddBreakpoint
  <2>3. Freed'
    BY <2>1, <2>2 DEF OInv, Freed, IInv, TypeOK
  <2> QED
    BY <2>1, <2>3 DEF OInv, Dead, SetOnceIf, HeldIdsAreOwn, NoLeftovers, CallbacksLive
<1>3. CASE SetSucceeds
  <2> DEFINE o == setter[adding]
  <2>1. adding \in Ids /\ o \in Objects /\ current \in Processes
        /\ process[adding] = current /\ callback[o] \in Autos
    BY <1>3 DEF SetSucceeds, IInv, TypeOK, Adding, Constructed
  <2>2. /\ idOf' = [idOf EXCEPT ![o] = adding]
        /\ registered' = [registered EXCEPT ![current][adding] = o]
        /\ holds' = [holds EXCEPT ![callback[o]] = IF callback[o] \in live THEN @ ELSE o]
        /\ live' = live \cup {callback[o]}
        /\ adding' = None
        /\ UNCHANGED <<running, current, process, setter, callback, removals, given>>
    BY <1>3 DEF SetSucceeds, engine
  <2>3. o = setter[adding]
    OBVIOUS
  <2> HIDE DEF o
  <2>4. /\ \A i \in Objects : idOf'[i] = IF i = o THEN adding ELSE idOf[i]
        /\ \A a \in Autos : holds'[a] = IF a = callback[o] /\ a \notin live
                                        THEN o ELSE holds[a]
        /\ \A p \in Processes, i \in Ids :
             registered'[p][i] = IF p = current /\ i = adding THEN o ELSE registered[p][i]
    BY <2>1, <2>2 DEF IInv, TypeOK
  <2>5. Freed' /\ Dead'
    BY <2>2, <2>4 DEF OInv, Freed, Dead
  <2>6. SetOnceIf'
    <3> SUFFICES ASSUME SetOnce, ~SetTwice PROVE SetOnce'
      BY <2>2 DEF OInv, SetOnceIf
    <3>1. ASSUME NEW i \in Ids, setter[i] # None PROVE idOf'[setter[i]] = i
      <4>1. CASE i = adding
        BY <2>1, <2>3, <2>4, <4>1
      <4>2. CASE i # adding
        BY <2>1, <2>3, <2>4, <3>1, <4>2 DEF SetOnce, IInv, TypeOK
      <4> QED
        BY <4>1, <4>2
    <3> QED
      BY <2>2, <3>1 DEF SetOnce
  <2>7. HeldIdsAreOwn'
    <3> SUFFICES ASSUME given \subseteq {"foreign", "early"}, NEW b \in live',
                        holds'[b] # None, idOf'[holds'[b]] # None
                 PROVE  setter[idOf'[holds'[b]]] \in {holds'[b], None}
      BY <2>2 DEF HeldIdsAreOwn
    <3>1. b \in Autos /\ holds'[b] \in Objects
      BY DEF IInv, TypeOK
    <3>2. CASE holds'[b] = o
      BY <2>1, <2>3, <2>4, <3>2
    <3>3. CASE holds'[b] # o
      <4>1. holds'[b] = holds[b] /\ idOf'[holds'[b]] = idOf[holds[b]]
        BY <2>4, <3>1, <3>3
      <4>2. b \in live
        BY <3>1, <4>1 DEF OInv, Dead
      <4> QED
        BY <4>1, <4>2 DEF OInv, HeldIdsAreOwn
    <3> QED
      BY <3>2, <3>3
  <2>8. NoLeftovers'
    <3> SUFFICES ASSUME given \subseteq {"stale", "early"}, NEW i \in Ids, process[i] # None
                 PROVE  \E a \in live' : holds'[a] = setter[i]
      BY <2>2 DEF NoLeftovers
    <3>1. callback[o] \notin live
      BY <2>1, <2>3 DEF OInv, SetOnceIf, SetOnce
    <3>2. CASE i = adding
      BY <2>1, <2>2, <2>3, <2>4, <3>1, <3>2
    <3>3. CASE i # adding
      <4>1. PICK a \in live : holds[a] = setter[i]
        BY <3>3 DEF OInv, NoLeftovers
      <4>2. a \in Autos /\ a \in live'
        BY <2>2 DEF IInv, TypeOK
      <4> QED
        BY <2>4, <4>1, <4>2
    <3> QED
      BY <3>2, <3>3
  <2>9. CallbacksLive'
    BY <2>1, <2>2, <2>4 DEF OInv, CallbacksLive
  <2> QED
    BY <2>5, <2>6, <2>7, <2>8, <2>9 DEF OInv
<1>4. CASE SetFails
  <2>1. /\ adding \in Ids /\ adding' = None
        /\ process' = [process EXCEPT ![adding] = None]
        /\ setter' = [setter EXCEPT ![adding] = None]
        /\ UNCHANGED <<running, current, registered, objects, holds, live, removals, given>>
    BY <1>4 DEF SetFails, IInv, TypeOK
  <2>2. \A i \in Ids : /\ process'[i] = IF i = adding THEN None ELSE process[i]
                       /\ setter'[i] = IF i = adding THEN None ELSE setter[i]
    BY <2>1 DEF IInv, TypeOK
  <2>3. Freed' /\ Dead'
    BY <2>1, <2>2 DEF OInv, Freed, Dead
  <2>4. SetOnceIf'
    BY <2>1, <2>2 DEF OInv, SetOnceIf, SetOnce, objects
  <2>5. HeldIdsAreOwn'
    BY <2>1, <2>2 DEF OInv, HeldIdsAreOwn, objects, IInv, TypeOK
  <2>6. NoLeftovers' /\ CallbacksLive'
    BY <2>1, <2>2 DEF OInv, NoLeftovers, CallbacksLive, objects
  <2> QED
    BY <2>3, <2>4, <2>5, <2>6 DEF OInv
<1>5. ASSUME NEW a \in Autos, CallRemove(a) PROVE OInv'
  BY <1>5, RemoveOwned DEF CallRemove, objects, IInv, TypeOK, OInv, Dead
<1>6. ASSUME NEW a \in Autos, Release(a) PROVE OInv'
  BY <1>6, RemoveOwned DEF Release, objects, IInv, TypeOK, OInv, Dead
<1>7. ASSUME NEW a \in Autos, NEW b \in Autos, Assign(a, b) PROVE OInv'
  <2>1. /\ adding = None /\ a \in live /\ b \in live /\ Remove(holds[a])
        /\ UNCHANGED <<running, current, objects, live, adding, given>>
    BY <1>7 DEF Assign
  <2>2. /\ holds \in [Autos -> Objects \cup {None}]
        /\ holds' = [holds EXCEPT ![a] = holds[b], ![b] = None]
    BY <1>7 DEF Assign, IInv, TypeOK
  <2>3. \A c \in Autos : holds'[c] = IF c = b THEN None ELSE IF c = a THEN holds[b] ELSE holds[c]
    BY <2>2
  <2>4. Dead'
    BY <2>1, <2>3 DEF OInv, Dead
  <2>5. /\ \A c \in Autos : holds'[c] = None \/ \E d \in Autos : holds'[c] = holds[d]
        /\ \A c \in live : \/ holds[c] = holds[a]
                            \/ holds[c] = None
                            \/ \E d \in live' : holds'[d] = holds[c]
    BY <2>1, <2>3 DEF IInv, TypeOK
  <2> QED
    BY <2>1, <2>2, <2>4, <2>5, RemoveOwned DEF objects
<1>8. ASSUME NEW a \in Autos, NEW b \in Autos, CopyConstruct(a, b) PROVE OInv'
  <2>1. /\ adding = None /\ a \notin live /\ b \in live /\ a # b
        /\ live' = live \cup {a}
        /\ UNCHANGED <<running, current, engine, registered, objects, removals, adding, given>>
    BY <1>8 DEF CopyConstruct
  <2>2. \A c \in Autos : holds'[c] = IF c = b THEN None ELSE IF c = a THEN holds[b] ELSE holds[c]
    BY <1>8 DEF CopyConstruct, IInv, TypeOK
  <2>3. holds[a] = None
    BY <2>1 DEF OInv, Dead
  <2>4. Freed' /\ Dead' /\ SetOnceIf'
    BY <2>1, <2>2 DEF OInv, Freed, Dead, SetOnceIf, SetOnce, engine, objects
  <2>5. HeldIdsAreOwn'
    BY <2>1, <2>2 DEF OInv, HeldIdsAreOwn, engine, objects, IInv, TypeOK
  <2>6. NoLeftovers'
    <3> SUFFICES ASSUME given \subseteq {"stale", "early"}, NEW id \in Ids,
                        process[id] # None
                 PROVE  \E c \in live' : holds'[c] = setter[id]
      BY <2>1 DEF NoLeftovers, engine
    <3>1. PICK c \in live : holds[c] = setter[id]
      BY <2>1 DEF OInv, NoLeftovers
    <3> QED
      BY <2>1, <2>2, <2>3, <3>1 DEF IInv, TypeOK
  <2>7. CallbacksLive'
    BY <2>1 DEF OInv, CallbacksLive, objects
  <2> QED
    BY <2>4, <2>5, <2>6, <2>7 DEF OInv
<1>9. ASSUME NEW a \in Autos, DefaultConstruct(a) PROVE OInv'
  BY <1>9 DEF DefaultConstruct, engine, objects, OInv, IInv, Freed, Dead, SetOnceIf, SetOnce,
              HeldIdsAreOwn, NoLeftovers, CallbacksLive
<1>10. ASSUME NEW a \in Autos, Destroy(a) PROVE OInv'
  BY <1>10, RemoveOwned DEF Destroy, objects, IInv, TypeOK, OInv, Dead
<1>11. ASSUME NEW p \in Processes, ProcessStarts(p) \/ SwitchProcess(p) PROVE OInv'
  BY <1>11 DEF ProcessStarts, SwitchProcess, engine, objects, OInv, Freed, Dead, SetOnceIf,
               SetOnce, HeldIdsAreOwn, NoLeftovers, CallbacksLive
<1>12. ASSUME NEW p \in Processes, ProcessGone(p) PROVE OInv'
  <2>1. /\ adding = None
        /\ UNCHANGED <<objects, holds, live, removals, adding, given>>
        /\ \A i \in Ids : /\ process'[i] = IF process[i] = p THEN None ELSE process[i]
                          /\ setter'[i] = IF process[i] = p THEN None ELSE setter[i]
        /\ \A q \in Processes, i \in Ids :
             registered'[q][i] = IF q = p THEN None ELSE registered[q][i]
    BY <1>12 DEF ProcessGone, IInv, TypeOK
  <2>2. Freed' /\ Dead'
    BY <2>1 DEF OInv, Freed, Dead
  <2>3. SetOnceIf'
    BY <2>1 DEF OInv, SetOnceIf, SetOnce, objects
  <2>4. HeldIdsAreOwn'
    BY <2>1 DEF OInv, HeldIdsAreOwn, objects, IInv, TypeOK
  <2>5. NoLeftovers' /\ CallbacksLive'
    BY <2>1 DEF OInv, NoLeftovers, CallbacksLive, objects
  <2> QED
    BY <2>2, <2>3, <2>4, <2>5 DEF OInv
<1>13. CASE UNCHANGED vars
  BY <1>13 DEF vars, engine, objects, OInv, Freed, Dead, SetOnceIf, SetOnce,
               HeldIdsAreOwn, NoLeftovers, CallbacksLive
<1> QED
  BY <1>1, <1>2, <1>3, <1>4, <1>5, <1>6, <1>7, <1>8, <1>9, <1>10, <1>11, <1>12, <1>13
  DEF Next

(* For callers that keep what each part asks of them, a breakpoint, its    *)
(* object, its callback and the AutoBreakpoint that removes it end         *)
(* together: nothing is left in the engine, nothing is told twice, and     *)
(* nothing destroyed is called; for any number of all of them.             *)
THEOREM OwnershipIsSound == Spec => []Ownership
<1>1. Init => OInv
  BY NoneIsNothing DEF Init, OInv, Freed, Dead, SetOnceIf, SetOnce, HeldIdsAreOwn, NoLeftovers,
                       CallbacksLive
<1>2. IInv /\ IInv' /\ OInv /\ [Next]_vars => OInv'
  BY NextOInv
<1>3. OInv => Ownership
  BY DEF OInv, SetOnceIf, SetOnce, Ownership, ToldOnce
<1> QED
  BY <1>1, <1>2, <1>3, Invariance, PTL DEF Spec
=============================================================================
