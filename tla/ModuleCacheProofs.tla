------------------------- MODULE ModuleCacheProofs -------------------------
(***************************************************************************)
(* Theorems about the module map, for any images and addresses.            *)
(***************************************************************************)
EXTENDS ModuleCache, TLAPS

HasSubject == event # "none" => subject \in Images

IInv == TypeOK /\ HasSubject

(* A cached answer is an entry of the map, for its own base or its range. *)
LEMMA CachedIsInMap ==
  ASSUME NEW map, NEW off \in Offsets, NEW m \in Cached(map, off)
  PROVE  \E b \in Offsets : /\ m = map[b] /\ map[b] # None
                            /\ b = off \/ Covers(map[b].image, off)
  BY DEF Cached

(* The engine answers with modules it knows.                              *)
LEMMA AtOffsetAreImages ==
  ASSUME TypeOK, NEW off
  PROVE  AtOffset(off) \subseteq Images
  BY DEF AtOffset, TypeOK

(* What one loadModule can do to a map.                                    *)
LEMMA LoadModuleEffect ==
  ASSUME TypeOK, NEW map, NEW off \in Offsets, LoadModule(map, off)
  PROVE  \E i \in AtOffset(off) :
           \/ cache' = map
           \/ /\ Cached(map, off) = {}
              /\ cache' = [map EXCEPT ![i.base] = Made(i)]
  BY DEF LoadModule

(* A new module object is for its image and has no symbol session.        *)
LEMMA MadeIsModule ==
  ASSUME NEW i \in Images
  PROVE  Made(i) \in Modules /\ Made(i).image = i /\ Made(i).session = "none"
         /\ Made(i) # None /\ i.base \in Offsets
<1>1. (i \notin loaded) \in BOOLEAN
  OBVIOUS
<1>2. Made(i) \in Modules
  BY <1>1, Zenon DEF Made, Modules, Sessions
<1>3. Made(i).image = i /\ Made(i).session = "none"
  BY DEF Made
<1>4. QED
  BY <1>2, <1>3, OffsetsAssumption, NoModuleAssumption

(* A well-formed map.                                                      *)
Keyed(map) ==
  /\ map \in [Offsets -> Modules \cup {None}]
  /\ \A off \in Offsets : map[off] # None => map[off].image.base = off

(* A lookup keeps every module under its own base.                        *)
LEMMA LoadModuleKeyed ==
  ASSUME TypeOK, NEW map, Keyed(map), NEW off \in Offsets, LoadModule(map, off)
  PROVE  Keyed(cache')
<1>1. PICK i \in AtOffset(off) : cache' = map \/ cache' = [map EXCEPT ![i.base] = Made(i)]
  BY LoadModuleEffect
<1>2. i \in Images /\ Made(i) \in Modules /\ Made(i).image = i /\ i.base \in Offsets
  BY <1>1, AtOffsetAreImages, MadeIsModule
<1>3. QED
  BY <1>1, <1>2 DEF Keyed

(* A symbol session changes nothing else of a module.                     *)
LEMMA SessionIsModule ==
  ASSUME NEW m \in Modules, NEW s \in Sessions
  PROVE  /\ WithSession(m, s) \in Modules
         /\ WithSession(m, s).image = m.image
         /\ WithSession(m, s).unloaded = m.unloaded
         /\ WithSession(m, s).session = s
         /\ WithSession(m, s) # None
  BY NoModuleAssumption DEF Modules, WithSession

(* Opening a session ends with symbols or with the fallback.              *)
LEMMA FoundIsSession == \A m : Found(m) \in Sessions \ {"none"}
  BY DEF Found, Sessions

(* The map is empty at first.                                             *)
LEMMA InitIInv == Init => IInv
  BY PathsAssumption DEF Init, IInv, TypeOK, HasSubject

(* Every operation keeps the types and the subject of the event.          *)
LEMMA NextIInv == IInv /\ [Next]_vars => IInv'
<1> SUFFICES ASSUME IInv, [Next]_vars PROVE IInv'
  OBVIOUS
<1>1. Keyed(cache)
  BY DEF IInv, TypeOK, Keyed
<1> DEFINE Rest == /\ loaded' \subseteq Images /\ past' \subseteq Images
                   /\ offered' \subseteq Images
                   /\ event' \in {"none", "load", "loaded", "unload", "unloaded"}
                   /\ subject' \in Images \cup {None}
                   /\ event' # "none" => subject' \in Images
                   /\ given' \in Givens
<1>2. Rest /\ Keyed(cache') => IInv'
  BY DEF Keyed, IInv, TypeOK, HasSubject
<1>3. ASSUME NEW off \in Offsets, Lookup(off) PROVE Rest /\ Keyed(cache')
  BY <1>1, <1>3, LoadModuleKeyed DEF Lookup, engine, IInv, TypeOK, HasSubject
<1>4. ASSUME ModuleLoad PROVE Rest /\ Keyed(cache')
  <2>1. subject \in Images /\ subject.base \in Offsets
    BY <1>4, OffsetsAssumption DEF ModuleLoad, IInv, HasSubject
  <2> DEFINE cleared == [cache EXCEPT ![subject.base] = None]
  <2>2. Keyed(cleared)
    BY <1>1, <2>1 DEF Keyed
  <2>3. LoadModule(cleared, subject.base) => Keyed(cache')
    BY <2>1, <2>2, LoadModuleKeyed DEF IInv
  <2>4. Keyed(cache')
    BY <1>1, <1>4, <2>2, <2>3 DEF ModuleLoad
  <2>5. QED
    BY <1>4, <2>1, <2>4 DEF ModuleLoad, engine, IInv, TypeOK
<1>5. ASSUME ModuleUnload PROVE Rest /\ Keyed(cache')
  <2>1. subject \in Images /\ subject.base \in Offsets
    BY <1>5, OffsetsAssumption DEF ModuleUnload, IInv, HasSubject
  <2>2. Keyed(cache')
    BY <1>1, <1>5, <2>1 DEF ModuleUnload, Keyed
  <2>3. QED
    BY <1>5, <2>1, <2>2 DEF ModuleUnload, Finish, IInv, TypeOK
<1>6. ASSUME EventEnds PROVE Rest /\ Keyed(cache')
  BY <1>1, <1>6 DEF EventEnds, Finish, IInv, TypeOK, HasSubject, Keyed
<1>7. ASSUME ProcessStop PROVE Rest /\ Keyed(cache')
  BY <1>7 DEF ProcessStop, IInv, TypeOK, Keyed
<1>8. ASSUME ChangeSymbolPaths PROVE Rest /\ Keyed(cache')
  <2>1. Keyed(cache')
    BY <1>1, <1>8, SessionIsModule DEF ChangeSymbolPaths, Keyed, Sessions
  <2>2. QED
    BY <1>8, PathsAssumption, <2>1 DEF ChangeSymbolPaths, IInv, TypeOK, HasSubject
<1>9. ASSUME NEW i \in Images, EngineLoads(i) \/ EngineUnloads(i) \/ EngineForgets(i)
      PROVE Rest /\ Keyed(cache')
  BY <1>1, <1>9 DEF EngineLoads, EngineUnloads, EngineForgets, engine, IInv, TypeOK,
                    HasSubject, Keyed
<1>10. ASSUME NEW off \in Offsets, GetSymSession(off) \/ ReloadSymbols(off)
       PROVE Rest /\ Keyed(cache')
  <2>1. Keyed(cache')
    BY <1>1, <1>10, SessionIsModule, FoundIsSession DEF GetSymSession, ReloadSymbols, Keyed
  <2>2. QED
    BY <1>10, <2>1 DEF GetSymSession, ReloadSymbols, engine, IInv, TypeOK, HasSubject
<1>11. ASSUME UNCHANGED vars PROVE Rest /\ Keyed(cache')
  BY <1>1, <1>11 DEF vars, engine, IInv, TypeOK, HasSubject, Keyed
<1>12. Rest /\ Keyed(cache')
  BY <1>3, <1>4, <1>5, <1>6, <1>7, <1>8, <1>9, <1>10, <1>11 DEF Next
<1>13. QED
  BY <1>2, <1>12

(* The invariant holds in every reachable state.                          *)
LEMMA Invariance == Spec => []IInv
  BY InitIInv, NextIInv, PTL DEF Spec

(* The module map has module objects only, each under its own base.        *)
THEOREM TypeCorrect == Spec => []TypeOK
<1>1. IInv => TypeOK
  BY DEF IInv
<1>2. QED
  BY <1>1, Invariance, PTL
-----------------------------------------------------------------------------
(* Dropping modules and looking one up leaves no stale fallback.          *)
LEMMA FreshMapIsNotStale ==
  ASSUME TypeOK, NoStaleFallback, Keyed(cache), NEW map, NEW off \in Offsets,
         Keyed(map), \A b \in Offsets : map[b] \in {cache[b], None},
         offered' = offered, LoadModule(map, off)
  PROVE  NoStaleFallback'
<1>1. PICK i \in AtOffset(off) : cache' = map \/ cache' = [map EXCEPT ![i.base] = Made(i)]
  BY LoadModuleEffect
<1>2. i \in Images /\ i.base \in Offsets /\ Made(i).session = "none"
  BY <1>1, AtOffsetAreImages, MadeIsModule
<1>3. QED
  BY <1>1, <1>2 DEF NoStaleFallback, Keyed

(* No step leaves a fallback that the symbol path in force outdates.      *)
LEMMA NextStale == IInv /\ NoStaleFallback /\ [Next]_vars => NoStaleFallback'
<1> SUFFICES ASSUME IInv, NoStaleFallback, [Next]_vars PROVE NoStaleFallback'
  OBVIOUS
<1>1. Keyed(cache)
  BY DEF IInv, TypeOK, Keyed
<1>2. ASSUME NEW off \in Offsets, Lookup(off) PROVE NoStaleFallback'
  BY <1>1, <1>2, FreshMapIsNotStale DEF Lookup, engine, IInv
<1>3. CASE ModuleLoad
  <2>1. subject \in Images /\ subject.base \in Offsets
    BY <1>3, OffsetsAssumption DEF ModuleLoad, IInv, HasSubject
  <2> DEFINE cleared == [cache EXCEPT ![subject.base] = None]
  <2>2. Keyed(cleared) /\ \A b \in Offsets : cleared[b] \in {cache[b], None}
    BY <1>1, <2>1 DEF Keyed
  <2>3. offered' = offered
    BY <1>3 DEF ModuleLoad, engine
  <2>4. LoadModule(cleared, subject.base) => NoStaleFallback'
    BY <1>1, <2>1, <2>2, <2>3, FreshMapIsNotStale DEF IInv
  <2>5. cache' = cleared \/ cache' = cache => NoStaleFallback'
    BY <2>2, <2>3 DEF NoStaleFallback
  <2>6. QED
    BY <1>3, <2>4, <2>5 DEF ModuleLoad
<1>4. CASE ModuleUnload
  <2>1. subject \in Images /\ subject.base \in Offsets
    BY <1>4, OffsetsAssumption DEF ModuleUnload, IInv, HasSubject
  <2>2. QED
    BY <1>1, <1>4, <2>1 DEF ModuleUnload, Keyed, NoStaleFallback
<1>5. CASE EventEnds \/ ProcessStop
  BY <1>5 DEF EventEnds, ProcessStop, NoStaleFallback
<1>6. CASE ChangeSymbolPaths
  <2> SUFFICES ASSUME NEW b \in Offsets, cache'[b] # None, cache'[b].session = "fallback"
               PROVE FALSE
    BY DEF NoStaleFallback
  <2>1. cache[b] \in Modules \cup {None}
    BY <1>1 DEF Keyed
  <2>2. cache'[b] = IF cache[b] # None /\ ~IsSymbolLoaded(cache[b])
                    THEN WithSession(cache[b], "none") ELSE cache[b]
    BY <1>6 DEF ChangeSymbolPaths
  <2>3. QED
    BY <2>1, <2>2, SessionIsModule DEF IsSymbolLoaded, Sessions
<1>7. ASSUME NEW i \in Images, EngineLoads(i) \/ EngineUnloads(i) \/ EngineForgets(i)
      PROVE NoStaleFallback'
  BY <1>7 DEF EngineLoads, EngineUnloads, EngineForgets, engine, NoStaleFallback
<1>8. ASSUME NEW off \in Offsets, GetSymSession(off) \/ ReloadSymbols(off)
      PROVE NoStaleFallback'
  <2>1. /\ cache[off] \in Modules
        /\ offered' = offered
        /\ cache' = [cache EXCEPT ![off] = WithSession(@, Found(@))]
    BY <1>1, <1>8 DEF GetSymSession, ReloadSymbols, engine, Keyed
  <2>2. QED
    BY <1>1, <2>1, SessionIsModule, FoundIsSession DEF NoStaleFallback, Keyed, Found
<1>9. CASE UNCHANGED vars
  BY <1>9 DEF vars, engine, NoStaleFallback
<1>10. QED
  BY <1>2, <1>3, <1>4, <1>5, <1>6, <1>7, <1>8, <1>9 DEF Next

(* No cached module goes on with exports, or with nothing, when the symbol *)
(* path in force offers its symbols: onChangeSymbolPaths makes all of them *)
(* forget such sessions, whatever was loaded, unloaded or looked up.       *)
THEOREM FallbacksAreFresh == Spec => []NoStaleFallback
<1>1. Init => NoStaleFallback
  BY DEF Init, NoStaleFallback
<1>2. QED
  BY <1>1, NextStale, Invariance, PTL DEF Spec
-----------------------------------------------------------------------------
(* The circumstances of a behaviour do not change.                         *)
LEMMA GivenIsRigid == [Next]_vars => given' = given
BY DEF Next, vars, ModuleLoad, ModuleUnload, EventEnds, ProcessStop, ChangeSymbolPaths,
       EngineLoads, EngineUnloads, EngineForgets, Lookup, GetSymSession, ReloadSymbols

(* The two ways in which the map can follow the engine.  In the first what *)
(* is cached is loaded.                                                    *)
Disciplined == ~UnloadedLookups /\ ~HandlerLookups /\ ~NamesFail

Apart == \A i, j \in loaded : i = j \/ ~Overlap(i, j)

Subjects == event # "none" => subject \in loaded

Announced ==
  event = "loaded" => cache[subject.base] # None /\ cache[subject.base].image = subject

AllLoaded(map) == \A b \in Offsets : map[b] # None => map[b].image \in loaded

LiveInv ==
  /\ Apart /\ Subjects /\ Announced
  /\ AllLoaded(cache)
  /\ event = "unloaded" => cache[subject.base] = None

LiveIf == Disciplined => LiveInv

(* In the second what is cached where a module is loaded is that module.   *)
InPlace == ~Moved /\ ~NamesFail

AllFixed(map) == \A b \in Offsets : map[b] # None => map[b].image \in Fixed

Follows(map, i) ==
  map[i.base] = None \/ (map[i.base].image = i /\ ~map[i.base].unloaded)

PlaceInv ==
  /\ Apart /\ Subjects /\ Announced
  /\ AllFixed(cache) /\ loaded \subseteq Fixed /\ past \subseteq Fixed
  /\ \A i \in loaded : Follows(cache, i) \/ (event = "load" /\ subject = i)

PlaceIf == InPlace => PlaceInv
-----------------------------------------------------------------------------
(* Modules with the same base overlap.                                    *)
LEMMA SameBaseOverlaps ==
  ASSUME NEW i \in Images, NEW j \in Images, i.base = j.base
  PROVE  Overlap(i, j)
  BY ImagesAssumption DEF Overlap

(* Modules that share an address overlap.                                 *)
LEMMA CoversOverlaps ==
  ASSUME NEW i \in Images, NEW j \in Images, NEW off \in Offsets, Covers(i, off), Covers(j, off)
  PROVE  Overlap(i, j)
  BY ImagesAssumption, OffsetsAssumption DEF Covers, Overlap

(* A lookup where something is loaded keeps to loaded modules.             *)
LEMMA LoadModuleLoaded ==
  ASSUME TypeOK, NEW map, Keyed(map), NEW off \in Offsets, LoadModule(map, off),
         AllLoaded(map), \E i \in loaded : Covers(i, off), loaded' = loaded
  PROVE  AllLoaded(cache)'
<1>1. PICK i \in AtOffset(off) : cache' = map \/ cache' = [map EXCEPT ![i.base] = Made(i)]
  BY LoadModuleEffect
<1>2. i \in loaded /\ i \in Images
  BY <1>1 DEF AtOffset, TypeOK
<1>3. Made(i).image = i
  BY <1>2, MadeIsModule
<1>4. QED
  BY <1>1, <1>2, <1>3 DEF Keyed, AllLoaded

(* The event of a load leaves the new module under its base, if what else  *)
(* is cached where it is loaded could only be under that base.             *)
LEMMA LoadAnnounces ==
  ASSUME IInv, Apart, subject \in loaded, NEW map, Keyed(map), map[subject.base] = None,
         \A b \in Offsets : map[b] # None /\ Overlap(map[b].image, subject) => b = subject.base,
         LoadModule(map, subject.base)
  PROVE  cache' = [map EXCEPT ![subject.base] = Made(subject)]
<1>1. subject \in Images /\ subject.base \in Offsets /\ Covers(subject, subject.base)
  BY OffsetsAssumption, ImagesAssumption DEF IInv, TypeOK, Covers
<1>2. Cached(map, subject.base) = {}
  <2> SUFFICES ASSUME NEW m \in Cached(map, subject.base) PROVE FALSE
    OBVIOUS
  <2>1. PICK b \in Offsets : /\ m = map[b] /\ map[b] # None
                             /\ b = subject.base \/ Covers(map[b].image, subject.base)
    BY <1>1, CachedIsInMap
  <2>2. map[b].image \in Images
    BY <2>1 DEF Keyed, Modules
  <2>3. QED
    BY <1>1, <2>1, <2>2, CoversOverlaps
<1>4. ASSUME NEW j \in AtOffset(subject.base) PROVE j = subject
  <2>1. j \in loaded /\ j \in Images /\ Covers(j, subject.base)
    BY <1>1, <1>4 DEF AtOffset, IInv, TypeOK
  <2>2. QED
    BY <1>1, <2>1, CoversOverlaps DEF Apart
<1>5. PICK k \in AtOffset(subject.base) : cache' = [map EXCEPT ![k.base] = Made(k)]
  BY <1>2 DEF LoadModule
<1>6. QED
  BY <1>4, <1>5
-----------------------------------------------------------------------------
(* The first way.                                                          *)
LEMMA LookupLive ==
  ASSUME IInv, LiveInv, Disciplined, NEW off \in Offsets, Lookup(off)
  PROVE  LiveInv'
<1>1. Keyed(cache)
  BY DEF IInv, TypeOK, Keyed
<1>2. /\ LoadModule(cache, off) /\ \E i \in loaded : Covers(i, off)
      /\ loaded' = loaded /\ event' = event /\ subject' = subject
      /\ event # "unloaded"
  BY DEF Lookup, Calling, Disciplined, engine
<1>3. AllLoaded(cache)'
  BY <1>1, <1>2, LoadModuleLoaded DEF IInv, LiveInv
<1>4. Announced'
  <2> SUFFICES ASSUME event = "loaded"
               PROVE  cache'[subject.base] # None /\ cache'[subject.base].image = subject
    BY <1>2 DEF Announced
  <2>1. subject \in loaded /\ subject \in Images /\ subject.base \in Offsets
    BY OffsetsAssumption DEF LiveInv, Subjects, IInv, TypeOK
  <2>2. PICK i \in AtOffset(off) : cache' = cache \/ cache' = [cache EXCEPT ![i.base] = Made(i)]
    BY <1>2, LoadModuleEffect DEF IInv
  <2>3. i \in Images /\ Made(i) # None
    BY <2>2, AtOffsetAreImages, MadeIsModule DEF IInv
  <2>4. cache'[subject.base] # None
    BY <1>1, <2>1, <2>2, <2>3 DEF LiveInv, Announced, Keyed
  <2>5. Keyed(cache')
    BY <1>1, <1>2, LoadModuleKeyed DEF IInv
  <2>6. cache'[subject.base].image \in loaded /\ cache'[subject.base].image.base = subject.base
    BY <1>2, <1>3, <2>1, <2>4, <2>5 DEF AllLoaded, Keyed
  <2>7. QED
    BY <2>1, <2>4, <2>6, SameBaseOverlaps DEF LiveInv, Apart, IInv, TypeOK
<1>5. QED
  BY <1>2, <1>3, <1>4 DEF LiveInv, Apart, Subjects

(* onModuleLoad evicts what was cached under the new module's base.       *)
LEMMA ModuleLoadLive ==
  ASSUME IInv, LiveInv, Disciplined, ModuleLoad
  PROVE  LiveInv'
<1>1. Keyed(cache)
  BY DEF IInv, TypeOK, Keyed
<1>2. subject \in loaded /\ subject \in Images /\ subject.base \in Offsets
      /\ Covers(subject, subject.base) /\ event = "load"
  BY OffsetsAssumption, ImagesAssumption DEF ModuleLoad, IInv, TypeOK, LiveInv, Subjects, Covers
<1> DEFINE cleared == [cache EXCEPT ![subject.base] = None]
<1>3. Keyed(cleared) /\ AllLoaded(cleared) /\ cleared[subject.base] = None
  BY <1>1, <1>2 DEF Keyed, LiveInv, AllLoaded
<1>4. loaded' = loaded
  BY DEF ModuleLoad, engine
<1>5. CASE LoadModule(cleared, subject.base) /\ event' = "loaded" /\ subject' = subject
  <2>1. \A b \in Offsets : cleared[b] # None /\ Overlap(cleared[b].image, subject)
                             => b = subject.base
    BY <1>2, <1>3 DEF LiveInv, Apart, AllLoaded, Keyed
  <2> HIDE DEF cleared
  <2>2. cache' = [cleared EXCEPT ![subject.base] = Made(subject)]
    BY <1>2, <1>3, <1>5, <2>1, LoadAnnounces DEF LiveInv
  <2>3. cache'[subject.base] # None /\ cache'[subject.base].image = subject
    BY <1>2, <1>3, <2>2, MadeIsModule DEF Keyed
  <2>4. AllLoaded(cache)'
    BY <1>2, <1>3, <1>4, <1>5, LoadModuleLoaded DEF IInv
  <2>5. QED
    BY <1>2, <1>4, <1>5, <2>3, <2>4 DEF LiveInv, Apart, Subjects, Announced
<1>6. CASE cache' = cleared /\ event' = "none"
  BY <1>3, <1>4, <1>6 DEF LiveInv, Apart, Subjects, Announced, AllLoaded
<1>7. QED
  BY <1>5, <1>6 DEF ModuleLoad, Disciplined

(* Symbol sessions are no matter of modules.                               *)
LEMMA SessionsKeepImages ==
  ASSUME Keyed(cache),
         \/ ChangeSymbolPaths
         \/ \E off \in Offsets : GetSymSession(off) \/ ReloadSymbols(off)
  PROVE  /\ \A b \in Offsets : /\ cache'[b] = None <=> cache[b] = None
                               /\ cache[b] # None => /\ cache'[b].image = cache[b].image
                                                     /\ cache'[b].unloaded = cache[b].unloaded
         /\ UNCHANGED <<loaded, past, event, subject>>
<1>1. CASE ChangeSymbolPaths
  BY <1>1, SessionIsModule DEF ChangeSymbolPaths, Keyed, Sessions
<1>2. ASSUME NEW off \in Offsets, GetSymSession(off) \/ ReloadSymbols(off)
      PROVE  /\ \A b \in Offsets : /\ cache'[b] = None <=> cache[b] = None
                                   /\ cache[b] # None => /\ cache'[b].image = cache[b].image
                                                         /\ cache'[b].unloaded = cache[b].unloaded
             /\ UNCHANGED <<loaded, past, event, subject>>
  <2>1. /\ cache[off] \in Modules /\ cache[off] # None
        /\ UNCHANGED <<loaded, past, event, subject>>
        /\ cache' = [cache EXCEPT ![off] = WithSession(@, Found(@))]
    BY <1>2 DEF GetSymSession, ReloadSymbols, engine, Keyed
  <2>2. QED
    BY <2>1, SessionIsModule, FoundIsSession DEF Keyed
<1>3. QED
  BY <1>1, <1>2

(* Disciplined callers only ever leave loaded modules in the map.         *)
LEMMA NextLive == IInv /\ LiveIf /\ [Next]_vars => LiveIf'
<1> SUFFICES ASSUME IInv, LiveInv, Disciplined, [Next]_vars PROVE LiveInv'
  BY GivenIsRigid DEF LiveIf, Disciplined, UnloadedLookups, HandlerLookups, NamesFail
<1>1. Keyed(cache)
  BY DEF IInv, TypeOK, Keyed
<1>2. event # "none" => subject \in loaded /\ subject \in Images /\ subject.base \in Offsets
  BY OffsetsAssumption DEF LiveInv, Subjects, IInv, TypeOK
<1> USE DEF LiveInv, Apart, Subjects, Announced, AllLoaded
<1>3. ASSUME NEW off \in Offsets, Lookup(off) PROVE LiveInv'
  BY <1>3, LookupLive
<1>4. CASE ModuleLoad
  BY <1>4, ModuleLoadLive
<1>5. CASE ModuleUnload
  <2>1. /\ cache' = [cache EXCEPT ![subject.base] = None]
        /\ event' = "unloaded" /\ subject' = subject /\ loaded' = loaded /\ event = "unload"
    BY <1>5 DEF ModuleUnload, Disciplined
  <2>2. QED
    BY <1>1, <1>2, <2>1 DEF Keyed
<1>6. CASE EventEnds
  <2>1. CASE event = "unloaded"
    <3>1. /\ loaded' = loaded \ {subject} /\ cache' = cache /\ event' = "none"
      BY <1>6, <2>1 DEF EventEnds, Finish
    <3>2. \A b \in Offsets : cache[b] # None => cache[b].image # subject
      BY <1>1, <2>1 DEF Keyed
    <3>3. QED
      BY <3>1, <3>2
  <2>2. CASE event # "unloaded"
    BY <1>6, <2>2 DEF EventEnds
  <2>3. QED
    BY <2>1, <2>2
<1>7. CASE ProcessStop
  BY <1>7 DEF ProcessStop
<1>8. CASE ChangeSymbolPaths \/ \E off \in Offsets : GetSymSession(off) \/ ReloadSymbols(off)
  <2>1. event # "unloaded"
    BY <1>8 DEF ChangeSymbolPaths, GetSymSession, ReloadSymbols, Calling, Disciplined
  <2>2. QED
    BY <1>1, <1>2, <1>8, <2>1, SessionsKeepImages
<1>9. ASSUME NEW i \in Images, EngineLoads(i) PROVE LiveInv'
  <2>1. \A j \in loaded : ~Overlap(i, j) /\ ~Overlap(j, i)
    BY <1>9 DEF EngineLoads, Overlap
  <2>2. QED
    BY <1>9, <2>1 DEF EngineLoads
<1>10. ASSUME NEW i \in Images, EngineUnloads(i) \/ EngineForgets(i) PROVE LiveInv'
  BY <1>10 DEF EngineUnloads, EngineForgets, engine
<1>11. CASE UNCHANGED vars
  BY <1>11 DEF vars, engine
<1>12. QED
  BY <1>3, <1>4, <1>5, <1>6, <1>7, <1>8, <1>9, <1>10, <1>11 DEF Next

(* If only loaded modules are cached, every answer is the loaded one.     *)
LEMMA LiveAnswers ==
  ASSUME IInv, LiveInv
  PROVE  AnswersAreLive
<1> SUFFICES ASSUME NEW off \in Offsets, NEW i \in loaded,
                    NEW m \in Cached(cache, off), Covers(i, off)
             PROVE  m.image = i
  BY DEF AnswersAreLive
<1>1. PICK b \in Offsets : /\ m = cache[b] /\ cache[b] # None
                           /\ b = off \/ Covers(cache[b].image, off)
  BY CachedIsInMap
<1>2. m.image \in loaded /\ m.image \in Images /\ i \in Images /\ m.image.base = b
  BY <1>1 DEF LiveInv, AllLoaded, IInv, TypeOK
<1>3. Covers(m.image, off)
  BY <1>1, <1>2, ImagesAssumption, OffsetsAssumption DEF Covers
<1>4. Overlap(i, m.image)
  BY <1>2, <1>3, CoversOverlaps
<1>5. QED
  BY <1>2, <1>4 DEF LiveInv, Apart
-----------------------------------------------------------------------------
(* The second way: a lookup leaves what is loaded followed, because an     *)
(* unloaded module it finds is not where a loaded one is.                  *)
LEMMA LoadModulePlaced ==
  ASSUME IInv, Apart, loaded \subseteq Fixed, past \subseteq Fixed,
         NEW map, Keyed(map), AllFixed(map), NEW off \in Offsets, LoadModule(map, off)
  PROVE  /\ AllFixed(cache')
         /\ \A j \in loaded : Follows(map, j) => Follows(cache', j)
         /\ \A b \in Offsets : map[b] # None => cache'[b] # None
<1>1. PICK i \in AtOffset(off) : cache' = map \/ cache' = [map EXCEPT ![i.base] = Made(i)]
  BY LoadModuleEffect DEF IInv
<1>2. /\ i \in Images /\ i \in Fixed /\ i.base \in Offsets
      /\ Made(i) # None /\ Made(i).image = i
  BY <1>1, AtOffsetAreImages, MadeIsModule DEF IInv, AtOffset
<1>3. AllFixed(cache') /\ \A b \in Offsets : map[b] # None => cache'[b] # None
  BY <1>1, <1>2 DEF Keyed, AllFixed
<1>4. ASSUME NEW j \in loaded, Follows(map, j) PROVE Follows(cache', j)
  <2>1. j \in Images /\ j \in Fixed /\ j.base \in Offsets
    BY OffsetsAssumption, FixedAssumption
  <2>2. CASE cache' = map \/ j.base # i.base
    BY <1>1, <1>2, <1>4, <2>1, <2>2 DEF Follows, Keyed
  <2>3. CASE j.base = i.base /\ cache' = [map EXCEPT ![i.base] = Made(i)]
    <3>1. Overlap(j, i) /\ j.end = i.end
      BY <1>2, <2>1, <2>3, SameBaseOverlaps, FixedAssumption
    <3>2. i \in loaded
      BY <1>1, <2>3, <3>1 DEF AtOffset, Covers
    <3>3. i = j /\ ~Made(i).unloaded
      BY <3>1, <3>2 DEF Apart, Made
    <3>4. QED
      BY <1>2, <2>1, <2>3, <3>3 DEF Follows, Keyed
  <2>4. QED
    BY <1>1, <2>2, <2>3
<1>5. QED
  BY <1>3, <1>4

(* A lookup puts the module under its base and disturbs no other place.   *)
LEMMA LookupPlaced ==
  ASSUME IInv, PlaceInv, NEW off \in Offsets, Lookup(off)
  PROVE  PlaceInv'
<1>1. Keyed(cache)
  BY DEF IInv, TypeOK, Keyed
<1>2. /\ LoadModule(cache, off)
      /\ UNCHANGED <<loaded, past, event, subject>>
      /\ event # "load"
  BY DEF Lookup, Calling, engine
<1>3. /\ AllFixed(cache')
      /\ \A j \in loaded : Follows(cache', j)
      /\ \A b \in Offsets : cache[b] # None => cache'[b] # None
  BY <1>1, <1>2, LoadModulePlaced DEF PlaceInv
<1>4. Announced'
  BY <1>2, <1>3, OffsetsAssumption, FixedAssumption
     DEF PlaceInv, Announced, Subjects, Follows
<1>5. QED
  BY <1>2, <1>3, <1>4 DEF PlaceInv, Apart, Subjects, AllFixed, Follows

(* A module loaded in the place of another takes its entry too.           *)
LEMMA ModuleLoadPlaced ==
  ASSUME IInv, PlaceInv, InPlace, ModuleLoad
  PROVE  PlaceInv'
<1>1. Keyed(cache)
  BY DEF IInv, TypeOK, Keyed
<1>2. subject \in loaded /\ subject \in Fixed /\ subject \in Images /\ subject.base \in Offsets
      /\ event = "load"
  BY OffsetsAssumption, FixedAssumption DEF ModuleLoad, PlaceInv, Subjects
<1> DEFINE cleared == [cache EXCEPT ![subject.base] = None]
<1>3. Keyed(cleared) /\ AllFixed(cleared) /\ cleared[subject.base] = None
  BY <1>1, <1>2 DEF Keyed, PlaceInv, AllFixed
<1>4. \A j \in loaded : Follows(cleared, j)
  <2> SUFFICES ASSUME NEW j \in loaded PROVE Follows(cleared, j)
    OBVIOUS
  <2>1. j.base \in Offsets
    BY OffsetsAssumption, FixedAssumption DEF PlaceInv
  <2>2. QED
    BY <1>1, <1>2, <2>1 DEF PlaceInv, Follows, Keyed
<1>5. UNCHANGED <<loaded, past>>
  BY DEF ModuleLoad, engine
<1>6. CASE LoadModule(cleared, subject.base) /\ event' = "loaded" /\ subject' = subject
  <2>1. \A b \in Offsets : cleared[b] # None /\ Overlap(cleared[b].image, subject)
                             => b = subject.base
    BY <1>2, <1>3, FixedAssumption DEF AllFixed, Keyed
  <2> HIDE DEF cleared
  <2>2. cache' = [cleared EXCEPT ![subject.base] = Made(subject)]
    BY <1>2, <1>3, <1>6, <2>1, LoadAnnounces DEF PlaceInv
  <2>3. cache'[subject.base] # None /\ cache'[subject.base].image = subject
    BY <1>2, <1>3, <2>2, MadeIsModule DEF Keyed
  <2>4. AllFixed(cache') /\ \A j \in loaded : Follows(cache', j)
    BY <1>2, <1>3, <1>4, <1>6, LoadModulePlaced DEF PlaceInv
  <2>5. QED
    BY <1>2, <1>5, <1>6, <2>3, <2>4 DEF PlaceInv, Apart, Subjects, Announced, AllFixed, Follows
<1>7. CASE cache' = cleared /\ event' = "none"
  BY <1>3, <1>4, <1>5, <1>7 DEF PlaceInv, Apart, Subjects, Announced, AllFixed, Follows
<1>8. QED
  BY <1>6, <1>7 DEF ModuleLoad, InPlace

(* Every step keeps the entries of each place true to what is loaded.     *)
LEMMA NextPlaced == IInv /\ PlaceIf /\ [Next]_vars => PlaceIf'
<1> SUFFICES ASSUME IInv, PlaceInv, InPlace, [Next]_vars PROVE PlaceInv'
  BY GivenIsRigid DEF PlaceIf, InPlace, Moved, NamesFail
<1>1. Keyed(cache)
  BY DEF IInv, TypeOK, Keyed
<1>2. \A i \in loaded : i \in Images /\ i.base \in Offsets
  BY OffsetsAssumption, FixedAssumption DEF PlaceInv
<1> USE DEF PlaceInv, Apart, Subjects, Announced, AllFixed, Follows
<1>3. ASSUME NEW off \in Offsets, Lookup(off) PROVE PlaceInv'
  BY <1>3, LookupPlaced
<1>4. CASE ModuleLoad
  BY <1>4, ModuleLoadPlaced
<1>5. CASE ModuleUnload
  <2>1. /\ cache' = [cache EXCEPT ![subject.base] = None]
        /\ event' = "unloaded" /\ event = "unload"
        /\ UNCHANGED <<subject, loaded, past>>
    BY <1>5 DEF ModuleUnload, InPlace
  <2>2. QED
    BY <1>1, <1>2, <2>1 DEF Keyed
<1>6. CASE EventEnds
  BY <1>6 DEF EventEnds, Finish
<1>7. CASE ProcessStop
  BY <1>7 DEF ProcessStop
<1>8. CASE ChangeSymbolPaths \/ \E off \in Offsets : GetSymSession(off) \/ ReloadSymbols(off)
  BY <1>1, <1>2, <1>8, SessionsKeepImages
<1>9. ASSUME NEW i \in Images, EngineLoads(i) PROVE PlaceInv'
  <2>1. \A j \in loaded : ~Overlap(i, j) /\ ~Overlap(j, i)
    BY <1>9 DEF EngineLoads, Overlap
  <2>2. QED
    BY <1>9, <2>1 DEF EngineLoads, InPlace
<1>10. ASSUME NEW i \in Images, EngineUnloads(i) \/ EngineForgets(i) PROVE PlaceInv'
  BY <1>10 DEF EngineUnloads, EngineForgets, engine
<1>11. CASE UNCHANGED vars
  BY <1>11 DEF vars, engine
<1>12. QED
  BY <1>3, <1>4, <1>5, <1>6, <1>7, <1>8, <1>9, <1>10, <1>11 DEF Next

(* A place with a true entry answers with the loaded module.              *)
LEMMA PlacedAnswers ==
  ASSUME IInv, PlaceInv, Answering, NEW off \in Offsets, NEW i \in loaded,
         NEW m \in Cached(cache, off), Covers(i, off)
  PROVE  m.image = i /\ ~m.unloaded
<1>1. PICK b \in Offsets : /\ m = cache[b] /\ cache[b] # None
                           /\ b = off \/ Covers(cache[b].image, off)
  BY CachedIsInMap
<1>2. m.image \in Fixed /\ m.image \in Images /\ i \in Fixed /\ i \in Images /\ m.image.base = b
  BY <1>1, FixedAssumption DEF PlaceInv, AllFixed, IInv, TypeOK
<1>3. Covers(m.image, off)
  BY <1>1, <1>2, ImagesAssumption, OffsetsAssumption DEF Covers
<1>4. i.base = b
  BY <1>2, <1>3, CoversOverlaps, FixedAssumption
<1>5. QED
  BY <1>1, <1>4 DEF PlaceInv, Follows, Answering

(* Where the map can follow the engine, loadModule(offset) answers with the*)
(* module that is loaded at offset, says truly that it is loaded, and      *)
(* handlers of onModuleLoad find the module they are told of.              *)
THEOREM LookupsAreRight ==
  Spec => [](TrackedAnswersAreLive /\ LookupsAreCurrent)
<1>1. Init => LiveIf /\ PlaceIf
  BY DEF Init, LiveIf, LiveInv, PlaceIf, PlaceInv, Apart, Subjects, Announced, AllLoaded,
         AllFixed, Follows
<1>2. IInv /\ LiveIf /\ PlaceIf /\ [Next]_vars => LiveIf' /\ PlaceIf'
  BY NextLive, NextPlaced
<1>3. IInv /\ LiveIf /\ PlaceIf => TrackedAnswersAreLive /\ LookupsAreCurrent
  <2> SUFFICES ASSUME IInv, LiveIf, PlaceIf
               PROVE  TrackedAnswersAreLive /\ LookupsAreCurrent
    OBVIOUS
  <2>1. Trackable => LiveInv \/ PlaceInv
    BY DEF Trackable, LiveIf, PlaceIf, Disciplined, InPlace
  <2>2. TrackedAnswersAreLive
    <3>1. CASE LiveInv
      BY <3>1, LiveAnswers DEF TrackedAnswersAreLive
    <3>2. CASE PlaceInv
      BY <3>2, PlacedAnswers DEF TrackedAnswersAreLive, AnswersAreLive
    <3>3. QED
      BY <2>1, <3>1, <3>2 DEF TrackedAnswersAreLive
  <2>3. FlagsAreTrue
    BY PlacedAnswers DEF FlagsAreTrue, PlaceIf, InPlace
  <2>4. AnnouncedIsFound
    <3> SUFFICES ASSUME Trackable, event = "loaded"
                 PROVE  \E m \in Cached(cache, subject.base) : m.image = subject
      BY DEF AnnouncedIsFound
    <3>1. cache[subject.base] # None /\ cache[subject.base].image = subject
      BY <2>1 DEF LiveInv, PlaceInv, Announced
    <3>2. QED
      BY <3>1 DEF Cached
  <2>5. QED
    BY <2>2, <2>3, <2>4 DEF LookupsAreCurrent
<1>4. QED
  BY <1>1, <1>2, <1>3, Invariance, PTL DEF Spec

(* A module found where one is loaded does not claim to be unloaded, and   *)
(* handlers of onModuleLoad find the module they are told of, for any      *)
(* images, as long as the map can follow the engine.                       *)
THEOREM LookupsStayCurrent == Spec => []LookupsAreCurrent
BY LookupsAreRight, PTL
=============================================================================
