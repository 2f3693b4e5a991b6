---------------------------- MODULE ModuleCache ----------------------------
(***************************************************************************)
(* The modules of one process as kdlib knows them: the module map of       *)
(* ProcessInfo (source/processmon.cpp), filled by loadModule               *)
(* (source/module.cpp) and by the engine's LoadModule events, thinned by   *)
(* LoadModule and UnloadModule events, and the symbol session that each    *)
(* cached module keeps until the symbol path changes.                      *)
(*                                                                         *)
(* The engine is external.  Its modules do not overlap; modules it has     *)
(* unloaded it remembers, and GetModuleByOffset finds those too, where     *)
(* nothing is loaded.  A module may be cached under its base only; a       *)
(* lookup by another address scans the map for a range.                    *)
(***************************************************************************)
EXTENDS Integers, FiniteSets

CONSTANTS
  Images,   \* what may be loaded: records with base and end
  Fixed,    \* those that share their place with each other or are apart
  Paths,    \* symbol paths, as the sets of images they offer symbols for
  Offsets,  \* addresses looked up
  None,     \* nothing is cached there
  Givens    \* the sets of circumstances considered

ASSUME ImagesAssumption ==
  \A i \in Images : i.base \in Nat /\ i.end \in Nat /\ i.base < i.end

Covers(i, off) == i.base <= off /\ off < i.end
Overlap(i, j) == i.base < j.end /\ j.base < i.end

ASSUME FixedAssumption ==
  /\ Fixed \subseteq Images
  /\ \A i, j \in Fixed : Overlap(i, j) => i.base = j.base /\ i.end = j.end

ASSUME PathsAssumption == Paths \subseteq SUBSET Images

ASSUME OffsetsAssumption ==
  Offsets \subseteq Nat /\ \A i \in Images : i.base \in Offsets

Circumstances == {"unloaded", "handlers", "unnamed", "moved"}

ASSUME GivensAssumption == Givens \subseteq SUBSET Circumstances

Sessions == {"none", "symbols", "fallback"}
Modules == [image : Images, unloaded : BOOLEAN, session : Sessions]

ASSUME NoModuleAssumption == None \notin Modules

VARIABLES
  loaded,    \* the engine's modules
  past,      \* the modules the engine remembers as unloaded
  offered,   \* images whose symbols are found with the current symbol path
  cache,     \* cache[base]: m_moduleMap
  event,     \* the event being delivered
  subject,   \* the image it is about, None without an event
  given      \* never changes: the circumstances of this behaviour

engine == <<loaded, past, offered>>
vars == <<engine, cache, event, subject, given>>

(* Somebody looks up modules that are unloaded.                            *)
UnloadedLookups == "unloaded" \in given

(* Handlers look up the module that is unloading.                          *)
HandlerLookups == "handlers" \in given

(* getModuleName may fail in an event.                                     *)
NamesFail == "unnamed" \in given

(* Modules are loaded over part of where others have been.                 *)
Moved == "moved" \in given

TypeOK ==
  /\ loaded \subseteq Images
  /\ past \subseteq Images
  /\ offered \subseteq Images
  /\ cache \in [Offsets -> Modules \cup {None}]
  /\ \A off \in Offsets : cache[off] # None => cache[off].image.base = off
  /\ event \in {"none", "load", "loaded", "unload", "unloaded"}
  /\ subject \in Images \cup {None}
  /\ given \in Givens

(* GetModuleByOffset: the images the engine may name for an address.       *)
AtOffset(off) ==
  LET now == {i \in loaded : Covers(i, off)} IN
  IF now # {} THEN now ELSE {i \in past : Covers(i, off)}

(* ProcessInfo::getModule: the module cached under the address, else the   *)
(* first one whose range has it; an empty set if there is none.            *)
Cached(map, off) ==
  IF map[off] # None THEN {map[off]}
  ELSE LET hits == {b \in Offsets : map[b] # None /\ Covers(map[b].image, off)} IN
       {map[b] : b \in {c \in hits : \A d \in hits : c <= d}}

(* A module object made for an image: ModuleImp reads the image's data.    *)
Made(i) == [image |-> i, unloaded |-> i \notin loaded, session |-> "none"]

(* Fault: a module is inserted under the address it was looked up by.      *)
LoadModule_ByOffset(map, off) ==
  \E i \in AtOffset(off) :
    cache' = IF Cached(map, off) # {} THEN map ELSE [map EXCEPT ![off] = Made(i)]

(* loadModule(offset), when it succeeds: the engine has something there,   *)
(* and what is not cached yet is made and inserted.                        *)
LoadModule(map, off) ==
  \E i \in AtOffset(off) :
    cache' = IF Cached(map, off) # {} THEN map ELSE [map EXCEPT ![i.base] = Made(i)]

(* Callers run between events and in handlers.                             *)
Calling ==
  \/ event \in {"none", "loaded"}
  \/ event = "unloaded" /\ HandlerLookups

(* Somebody looks an address up (one that fails changes nothing).          *)
Lookup(off) ==
  /\ Calling
  /\ UnloadedLookups \/ \E i \in loaded : Covers(i, off)
  /\ LoadModule(cache, off)
  /\ UNCHANGED <<engine, event, subject, given>>
-----------------------------------------------------------------------------
(* The engine has loaded an image where there was room.                    *)
EngineLoads(i) ==
  /\ event = "none"
  /\ Moved \/ i \in Fixed
  /\ \A j \in loaded : ~Overlap(i, j)
  /\ loaded' = loaded \cup {i}
  /\ past' = past \ {i}
  /\ event' = "load"
  /\ subject' = i
  /\ UNCHANGED <<offered, cache, given>>

(* Fault: what was cached under the base is kept.                          *)
ModuleLoad_KeepsOld ==
  /\ event = "load"
  /\ LoadModule(cache, subject.base)
  /\ event' = "loaded"
  /\ UNCHANGED <<engine, subject, given>>

(* LoadModule of the event callbacks: what was cached under the base goes, *)
(* the new module is made (moduleLoad), and handlers are called.  If the   *)
(* new module cannot be made, or its name is not found before all that,    *)
(* they are not.                                                           *)
ModuleLoad ==
  /\ event = "load"
  /\ LET cleared == [cache EXCEPT ![subject.base] = None] IN
     \/ LoadModule(cleared, subject.base) /\ event' = "loaded" /\ subject' = subject
     \/ /\ Cached(cleared, subject.base) = {}
        /\ cache' = cleared
        /\ event' = "none" /\ subject' = None
     \/ /\ NamesFail
        /\ cache' = cache
        /\ event' = "none" /\ subject' = None
  /\ UNCHANGED <<engine, given>>

(* The engine is about to unload one.                                      *)
EngineUnloads(i) ==
  /\ event = "none"
  /\ i \in loaded
  /\ event' = "unload"
  /\ subject' = i
  /\ UNCHANGED <<engine, cache, given>>

(* Fault: moduleUnload forgets to remove the module.                       *)
ModuleUnload_Keeps ==
  /\ event = "unload"
  /\ event' = "unloaded"
  /\ UNCHANGED <<engine, cache, subject, given>>

(* The event is over for the engine: what was unloading is unloaded.       *)
Finish ==
  /\ loaded' = loaded \ {subject}
  /\ past' = past \cup {subject}
  /\ event' = "none" /\ subject' = None

(* UnloadModule of the event callbacks, up to the handlers' calls; nothing *)
(* happens if the name is not found.                                       *)
ModuleUnload ==
  /\ event = "unload"
  /\ \/ /\ cache' = [cache EXCEPT ![subject.base] = None]
        /\ event' = "unloaded"
        /\ UNCHANGED <<loaded, past, subject>>
     \/ NamesFail /\ Finish /\ cache' = cache
  /\ UNCHANGED <<offered, given>>

(* The handlers have returned.                                             *)
EventEnds ==
  /\ \/ event = "unloaded" /\ Finish
     \/ /\ event = "loaded"
        /\ event' = "none" /\ subject' = None
        /\ UNCHANGED <<loaded, past>>
  /\ UNCHANGED <<offered, cache, given>>

(* The engine remembers a limited number of unloaded modules.              *)
EngineForgets(i) ==
  /\ event = "none"
  /\ i \in past
  /\ past' = past \ {i}
  /\ UNCHANGED <<loaded, offered, cache, event, subject, given>>

(* processStop: the ProcessInfo goes, and its modules with it.             *)
ProcessStop ==
  /\ event = "none"
  /\ loaded' = {} /\ past' = {}
  /\ cache' = [off \in Offsets |-> None]
  /\ UNCHANGED <<offered, event, subject, given>>
-----------------------------------------------------------------------------
WithSession(m, s) == [m EXCEPT !.session = s]

(* Loading symbols: exports, or nothing, stand in for what is not found.   *)
Found(m) == IF m.image \in offered THEN "symbols" ELSE "fallback"

(* getSymSession of a cached module.                                       *)
GetSymSession(off) ==
  /\ Calling
  /\ cache[off] # None
  /\ cache[off].session = "none"
  /\ cache' = [cache EXCEPT ![off] = WithSession(@, Found(@))]
  /\ UNCHANGED <<engine, event, subject, given>>

(* reloadSymbols.                                                          *)
ReloadSymbols(off) ==
  /\ Calling
  /\ cache[off] # None
  /\ cache' = [cache EXCEPT ![off] = WithSession(@, Found(@))]
  /\ UNCHANGED <<engine, event, subject, given>>

(* isSymbolLoaded.                                                         *)
IsSymbolLoaded(m) == m.session = "symbols"

(* Fault: only the first module of the map is reset.                       *)
ChangeSymbolPaths_First ==
  /\ Calling
  /\ offered' \in Paths
  /\ LET known == {b \in Offsets : cache[b] # None} IN
     cache' = [b \in Offsets |->
       IF b \in known /\ (\A c \in known : b <= c) /\ ~IsSymbolLoaded(cache[b])
       THEN WithSession(cache[b], "none") ELSE cache[b]]
  /\ UNCHANGED <<loaded, past, event, subject, given>>

(* The symbol path changes; ChangeSymbolState makes every module without   *)
(* symbols forget its session.                                             *)
ChangeSymbolPaths ==
  /\ Calling
  /\ offered' \in Paths
  /\ cache' = [b \in Offsets |->
       IF cache[b] # None /\ ~IsSymbolLoaded(cache[b])
       THEN WithSession(cache[b], "none") ELSE cache[b]]
  /\ UNCHANGED <<loaded, past, event, subject, given>>
-----------------------------------------------------------------------------
Init ==
  /\ loaded = {} /\ past = {}
  /\ offered \in Paths
  /\ cache = [off \in Offsets |-> None]
  /\ event = "none"
  /\ subject = None
  /\ given \in Givens

Next ==
  \/ ModuleLoad
  \/ ModuleUnload
  \/ EventEnds
  \/ ProcessStop
  \/ ChangeSymbolPaths
  \/ \E i \in Images : EngineLoads(i) \/ EngineUnloads(i) \/ EngineForgets(i)
  \/ \E off \in Offsets : Lookup(off) \/ GetSymSession(off) \/ ReloadSymbols(off)

Spec == Init /\ [][Next]_vars
-----------------------------------------------------------------------------
Answering == event \in {"none", "loaded"}

(* What loadModule(offset) answers inside a loaded module is that module:  *)
(* neither one that was there before nor one that reaches over it.         *)
AnswersAreLive ==
  Answering => \A off \in Offsets : \A i \in loaded, m \in Cached(cache, off) :
    Covers(i, off) => m.image = i

(* When the map can follow the engine: events find their module's name, and*)
(* either modules only take the place of others or nobody looks up what is *)
(* not loaded.                                                             *)
Trackable == ~NamesFail /\ (Moved => ~UnloadedLookups /\ ~HandlerLookups)

(* Then loadModule(offset) answers with what is loaded.                    *)
TrackedAnswersAreLive == Trackable => AnswersAreLive

(* If modules only take the place of others, a module that is found where  *)
(* one is loaded says that it is loaded, although it may have been looked  *)
(* up while it was unloading or unloaded; and handlers of onModuleLoad     *)
(* find the module they are told of.                                       *)
FlagsAreTrue ==
  ~Moved /\ ~NamesFail /\ Answering =>
    \A off \in Offsets : \A i \in loaded, m \in Cached(cache, off) :
      Covers(i, off) => ~m.unloaded

AnnouncedIsFound ==
  Trackable /\ event = "loaded" => \E m \in Cached(cache, subject.base) : m.image = subject

LookupsAreCurrent == FlagsAreTrue /\ AnnouncedIsFound

(* No module goes on without symbols that a path set later offers,         *)
(* whatever was looked up, moved or not named.                             *)
NoStaleFallback ==
  \A b \in Offsets :
    cache[b] # None /\ cache[b].image \in offered => cache[b].session # "fallback"
=============================================================================
